----------------------------------- MODULE Pdo -----------------------------------
(***************************************************************************)
(* What a blade's port offers a sink and how it checks what the sink asks  *)
(* for (pdo.c), in mV, mA and mW.  An object of the table is a record of   *)
(* what its bits say; a request stays a number, since which of its bits    *)
(* mean what depends on the object it is held against.                     *)
(***************************************************************************)
EXTENDS Integers, Sequences, FiniteSets

PORT_POWER_MAX_MW == 100000
BLADE_MAX_MA_LIMIT == 5000
BLADE_MAX_MV_ALL == 20000
FIXED_MV == <<5000, 9000, 12000, 15000, 20000>>

\* Widest first: the top of the range, the voltage its current is figured at.
PPS_RANGES == <<[max_mv |-> 21000, prog_mv |-> 20000], [max_mv |-> 11000, prog_mv |-> 9000]>>

Least(S) == CHOOSE x \in S : \A y \in S : x <= y

power_ma(power_mw, mv) == (power_mw * 1000) \div mv

\* The most current an object at mv may advertise, in steps of step_ma.
current_for(lim, power_mw, mv, step_ma) ==
    LET ma == Least({BLADE_MAX_MA_LIMIT, lim.cable_ma, power_ma(power_mw, mv)})
    IN  ma - (ma % step_ma)

\* The table for a power limit, a voltage cap and a cable: the fixed
\* objects under the cap, which are the first as the levels ascend, 5 V
\* always among them; adjustable voltage while 15 V is offered; the widest
\* programmable range that fits.
pdo_build(lim) ==
    LET power == Least({lim.max_w * 1000, PORT_POWER_MAX_MW})
        cap == IF lim.max_mv >= BLADE_MAX_MV_ALL THEN 21000 ELSE lim.max_mv
        under == {i \in DOMAIN FIXED_MV : i = 1 \/ FIXED_MV[i] <= cap}
        Fixed(mv) == [kind |-> "FIXED", mv |-> mv, ma |-> current_for(lim, power, mv, 10)]
        fixed == [i \in 1..Cardinality(under) |-> Fixed(FIXED_MV[i])]
        avs == IF 15000 > cap THEN <<>>
               ELSE <<[kind |-> "AVS", ma_15v |-> current_for(lim, power, 15000, 10),
                       ma_20v |-> IF 20000 > cap THEN 0 ELSE current_for(lim, power, 20000, 10)]>>
        RangeOf(r) == LET ma == current_for(lim, power, r.prog_mv, 50)
                    IN  [kind |-> "PPS", max_mv |-> r.max_mv, ma |-> ma,
                         limited |-> r.max_mv * ma > power * 1000]
        fitting == {i \in DOMAIN PPS_RANGES : PPS_RANGES[i].max_mv <= cap}
        pps == IF fitting = {} THEN <<>> ELSE <<RangeOf(PPS_RANGES[Least(fitting)])>>
    IN  [power_mw |-> power, obj |-> IF power = 0 THEN <<>> ELSE fixed \o avs \o pps]

\* The fields of a request: RDO_POSITION, RDO_VOLTAGE, RDO_APDO_MA and the
\* operating current for a fixed object.
rdo_position(rdo) == (rdo \div 2^28) % 16
rdo_voltage(rdo) == (rdo \div 2^9) % 2^12
rdo_apdo_ma(rdo) == (rdo % 2^7) * 50
rdo_fixed_ma(rdo) == ((rdo \div 2^10) % 2^10) * 10

\* A request for mv at ma as a sink writes it for the object at pos.
RequestFor(obj, pos, mv, ma) ==
    pos * 2^28 + CASE obj.kind = "FIXED" -> (ma \div 10) * 2^10 + ma \div 10
                   [] obj.kind = "PPS" -> (mv \div 20) * 2^9 + ma \div 50
                   [] obj.kind = "AVS" -> (mv \div 25) * 2^9 + ma \div 50

\* What each check grants: at most one contract.
Grant(ok, pos, kind, mv, op, limit) ==
    IF ok THEN {[position |-> pos, kind |-> kind, mv |-> mv, op_ma |-> op, limit_ma |-> limit]}
    ELSE {}

check_pps(t, obj, pos, rdo) ==
    LET mv == rdo_voltage(rdo) * 20
        ma == rdo_apdo_ma(rdo)
    IN  IF mv < 5000 \/ mv > obj.max_mv THEN {}
        ELSE Grant(ma <= obj.ma, pos, "PPS", mv, ma,
                   IF obj.limited THEN Least({ma, power_ma(t.power_mw, mv)}) ELSE ma)

\* At exactly 15 V the sink may ask for the current of either half.
check_avs(obj, pos, rdo) ==
    LET mv == rdo_voltage(rdo) * 25
        ma == rdo_apdo_ma(rdo)
        max_mv == IF obj.ma_20v > 0 THEN 20000 ELSE 15000
        max_ma == CASE mv < 15000 -> obj.ma_15v
                    [] mv > 15000 -> obj.ma_20v
                    [] OTHER -> IF obj.ma_15v > obj.ma_20v THEN obj.ma_15v ELSE obj.ma_20v
    IN  Grant(rdo_voltage(rdo) % 4 = 0 /\ mv >= 9000 /\ mv <= max_mv /\ ma <= max_ma,
              pos, "AVS", mv, ma, max_ma)

check_request(t, rdo) ==
    LET pos == rdo_position(rdo)
    IN  IF pos = 0 \/ pos > Len(t.obj) THEN {}
        ELSE LET obj == t.obj[pos] IN
             CASE obj.kind = "PPS" -> check_pps(t, obj, pos, rdo)
               [] obj.kind = "AVS" -> check_avs(obj, pos, rdo)
               [] obj.kind = "FIXED" ->
                    Grant(rdo_fixed_ma(rdo) <= obj.ma, pos, "FIXED", obj.mv, rdo_fixed_ma(rdo),
                          obj.ma)

================================================================================
