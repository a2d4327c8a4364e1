---------------------------------- MODULE Blade ----------------------------------
(***************************************************************************)
(* The firmware of a gen-3 blade: the supervisor (supervisor.c), the power *)
(* path (power.c), what the port offers and has agreed to (port.c, pdo.c), *)
(* the configuration and commands of the register file (regmap.c) and the  *)
(* callbacks of the USB-PD stack (usbpd/).  A turn of the main loop is one *)
(* pass of the supervisor, in four steps, and then one callback; the slot's*)
(* EN line, the controller's writes, which an interrupt takes, and the     *)
(* over-voltage comparator come between any two steps.                     *)
(***************************************************************************)
EXTENDS Pdo, FiniteSets

CONSTANTS
    Configs,   \* what the controller writes: [port_en, max_w, max_mv]
    Commands, CMD_QUEUE,
    Crowds,    \* the controller sends commands that find no room
    Cables,    \* what cables carry, in mA
    Takes,     \* the kinds of object that sinks ask for
    MaxFailed  \* bound: transfers on the private bus that fail, per call

ASSUME BladeAssumption ==
    /\ Configs \subseteq [port_en : BOOLEAN, max_w : 0..100, max_mv : 0..BLADE_MAX_MV_ALL]
    /\ Commands \subseteq {"SRC_CAP", "HARD_RESET", "CLEAR_FAULTS", "RESET"}
    /\ CMD_QUEUE \in Nat \ {0} /\ Crowds \in BOOLEAN /\ 3000 \in Cables /\ Cables \subseteq Nat
    /\ Takes \subseteq {"FIXED", "PPS", "AVS"} /\ MaxFailed \in Nat

VARIABLES
    pc,       \* the step of the turn
    en_pin,
    image,    \* the configuration in the register file
    changed,
    cmds,
    alerting, \* a fault that alerts is latched
    sup,      \* supervisor.c and usbpd_pwr_user.c: en, conv_pending, line_up, cfg, armed
    pw,       \* power.c and the parts it drives
    limits, stale, reset_wanted,
    pending, contract, \* no request, or the one
    pe,       \* what the policy engine is at
    told,     \* the table that the sink was sent last
    asked     \* history: the request in flight, with the voltage meant

blade_vars == <<pc, en_pin, image, changed, cmds, alerting, sup, pw, limits, stale, reset_wanted,
                pending, contract, pe, told, asked>>
input_vars == <<image, changed, cmds>>
port_vars == <<limits, stale, reset_wanted, pending, contract, pe, told, asked>>

Volts == {0} \cup {FIXED_MV[i] : i \in DOMAIN FIXED_MV}
    \cup UNION {{11000, 21000} : c \in {x \in Configs : x.max_mv >= 11000}}
Off == [port_en |-> FALSE, max_w |-> 0, max_mv |-> 0]

------------------------------------------------------------------------------
(* The power path.  A call has a set of outcomes, each a state of pw and a *)
(* result.                                                                 *)

Done(p) == {[p |-> p, r |-> "ok"]}
Stops(p, r) == {[p |-> p, r |-> r]}
After(S, F(_)) == UNION {IF o.r = "ok" THEN F(o.p) ELSE {o} : o \in S}
Regardless(S, F(_)) == UNION {F(o.p) : o \in S}
IfNot(S, F(_)) ==
    UNION {IF o.r = "ok" THEN {o} ELSE {[p |-> x.p, r |-> o.r] : x \in F(o.p)} : o \in S}

\* A write on the private bus: it takes, or it fails, the part having taken
\* it or not.
Transfer(p, q) ==
    Done(q) \cup IF p.failed >= MaxFailed THEN {}
                 ELSE {[p |-> [x EXCEPT !.failed = @ + 1], r |-> "bus"] : x \in {p, q}}

\* The converter hears nothing while EN is low.
Converter(p, q) == IF en_pin THEN Transfer(p, q) ELSE Stops(p, "bus")
conv_mode(p, on) == Converter(p, [p EXCEPT !.oe = on])
set_limit_ma(p) == Converter(p, p)
set_mv(p, mv) == Converter(p, [p EXCEPT !.ref = mv])

ovp_threshold_mv(mv) == Least({(mv * 120) \div 100, 23000})

\* A threshold under what the output holds trips the port with nothing wrong.
set_threshold(p, mv) ==
    LET t == ovp_threshold_mv(mv)
    IN  [p EXCEPT !.threshold = t,
                  !.wrong = @ \cup IF p.port_up /\ p.vout > t THEN {"uncovered"} ELSE {}]

\* Mutant: the threshold goes to the level for 5 V at once.
cover_vout_5v(p) == set_threshold(p, 5000)

Highest(a, b) == IF a > b THEN a ELSE b
cover_vout(p) == set_threshold(p, Highest(p.vout, 5000))

tripped(p) == p.port_up /\ p.trip

\* The output goes where the converter was told, and so does an output that
\* is sent past the threshold.
Slewed(p) ==
    [p EXCEPT !.vout = p.ref,
              !.wrong = @ \cup IF p.port_up /\ p.ref > p.threshold THEN {"uncovered"} ELSE {}]

\* An output that nothing loads is where it was told at once.
Unloaded(p) == IF p.oe /\ en_pin /\ ~p.gate THEN Slewed(p) ELSE p
Opened(p) == Unloaded([p EXCEPT !.gate = FALSE])

\* The TCPP02 takes its control byte.
write_tcpp(p) ==
    IF ~p.port_up THEN Stops(p, "not_ready")
    ELSE IF tripped(p) THEN Stops(p, "tripped")
    ELSE Transfer(p, IF ~p.switch THEN Opened(p)
                     ELSE [p EXCEPT
                             !.gate = TRUE,
                             !.wrong = @ \cup IF ~p.gate /\ p.vout # 5000 THEN {"closed"} ELSE {}])

\* A wait for the output, or for VBUS that follows it: it comes, it does not
\* in time, or the comparator trips.
Arrives(p) ==
    IF tripped(p) THEN Stops(p, "tripped")
    ELSE (IF p.oe /\ en_pin THEN Done(Slewed(p)) ELSE {}) \cup Stops(p, "timeout")
         \cup Stops(Opened([p EXCEPT !.trip = TRUE]), "tripped")

Dark(p) == [p EXCEPT !.setpoint = 0, !.vbus_on = FALSE, !.contracted = FALSE, !.switch = FALSE]

power_shutdown(p) ==
    LET converter_off == IF p.conv_ready THEN conv_mode(p, FALSE) ELSE Done(p)
        open(x) == IF x.port_up /\ ~tripped(x) THEN write_tcpp(Dark(x)) ELSE Done(Dark(x))
    IN  Regardless(converter_off, open)

power_vbus_on(p) ==
    LET program(x) == After(set_mv(x, 5000), set_limit_ma)
        start(x) == IfNot(conv_mode(x, TRUE), power_shutdown)
        come_up(x) == IfNot(Arrives([x EXCEPT !.setpoint = 5000]), power_shutdown)
        close(x) == After(write_tcpp([set_threshold(x, 5000) EXCEPT !.switch = TRUE]),
                          LAMBDA y : Arrives([y EXCEPT !.vbus_on = TRUE]))
    IN  IF ~p.conv_ready THEN Stops(p, "not_ready")
        ELSE After(program(cover_vout([p EXCEPT !.contracted = FALSE])), LAMBDA x :
             After(start(x), LAMBDA y :
             After(come_up(y), LAMBDA z : IfNot(close(z), power_shutdown))))

\* The threshold comes down only as far as the output has.
power_vbus_off(p) ==
    LET converter_off == IF p.conv_ready THEN conv_mode(p, FALSE) ELSE Done(p)
        in_time(x) == [p |-> cover_vout(x), r |-> "ok"]
        late(x) == [p |-> IF p.setpoint = 0 THEN cover_vout(x) ELSE x, r |-> "failed"]
        discharged(x, c) ==
            {late(w.p) : w \in write_tcpp(x)}
            \cup {in_time(w.p) : w \in {v \in write_tcpp(x) : v.r = "ok" /\ c.r = "ok"}}
    IN  UNION {After(write_tcpp(Dark(c.p)), LAMBDA x : discharged(x, c)) : c \in converter_off}

power_set(p, mv) ==
    LET slow(x) == IF mv < p.setpoint THEN conv_mode(x, TRUE) ELSE Done(x)
        program(x) == After(set_limit_ma(x), LAMBDA y : set_mv(y, mv))
        finish(x) ==
            {[o EXCEPT !.p = IF o.r = "ok" THEN set_threshold(@, mv) ELSE @] : o \in slow(x)}
        settle(x) == UNION {IF a.r = "ok" THEN finish(a.p)
                            ELSE {[a EXCEPT !.p = o.p] : o \in slow(a.p)}
                            : a \in Arrives([x EXCEPT !.setpoint = mv])}
        covered == set_threshold([p EXCEPT !.contracted = TRUE], Highest(p.setpoint, mv))
    IN  IF ~p.conv_ready \/ ~p.vbus_on THEN Stops(p, "not_ready")
        ELSE IF tripped(p) THEN Stops(p, "tripped")
        ELSE After(slow(covered), LAMBDA x : After(program(x), settle))

power_port_down(p) ==
    Opened([p EXCEPT !.port_up = FALSE, !.vbus_on = FALSE, !.switch = FALSE])

\* TCPP_EN rises; the line may be held low, or the TCPP02 not answer.
power_port_up(p) ==
    LET up == [cover_vout(p) EXCEPT !.trip = FALSE, !.port_up = TRUE, !.vbus_on = FALSE,
                                    !.switch = FALSE, !.gate = FALSE]
    IN  write_tcpp(up) \cup Stops(up, "tripped") \cup Stops(up, "bus")

\* disarming: off, and the CC lines to hibernate.
disarm(p) == Regardless(power_shutdown(p), write_tcpp)

Fresh(p) == [p EXCEPT !.failed = 0]

------------------------------------------------------------------------------
(* The supervisor *)

table == pdo_build(limits)

Follow ==
    /\ pc = "follow" /\ pc' = "input"
    /\ IF en_pin # sup.en
         THEN /\ sup' = [sup EXCEPT !.en = en_pin, !.conv_pending = en_pin]
              /\ pw' = IF en_pin THEN pw ELSE [pw EXCEPT !.conv_ready = FALSE, !.setpoint = 0]
              /\ UNCHANGED alerting
         ELSE \/ UNCHANGED <<sup, pw, alerting>>
              \/ /\ sup.conv_pending \* CONVERTER_WAKE_MS later
                 /\ sup' = [sup EXCEPT !.conv_pending = FALSE]
                 /\ \E up \in BOOLEAN :
                      /\ up => en_pin
                      /\ pw' = [pw EXCEPT !.conv_ready = up, !.setpoint = 0, !.oe = FALSE,
                                          !.ref = 5000]
                      /\ alerting' = (alerting \/ ~up)
    /\ UNCHANGED <<en_pin, input_vars, port_vars>>

line_raise ==
    \E o \in power_port_up(pw) :
      /\ pw' = IF o.r = "ok" THEN Fresh(o.p) ELSE power_port_down(Fresh(o.p))
      /\ sup' = [sup EXCEPT !.line_up = o.r = "ok", !.cfg = image]
      /\ alerting' = (alerting \/ o.r # "ok")

\* The port goes dark before the MCU leaves.
leave_for_loader ==
    \E o \in disarm(pw) :
      /\ pw' = power_port_down(Fresh(o.p))
      /\ sup' = [sup EXCEPT !.armed = FALSE, !.cfg = image]
      /\ UNCHANGED alerting

\* The limit of a sink without a contract may not reach the converter.
Keep ==
    /\ pw' = pw /\ sup' = [sup EXCEPT !.cfg = image]
    /\ \/ UNCHANGED alerting
       \/ changed /\ pw.conv_ready /\ pw.vbus_on /\ ~pw.contracted /\ alerting' = TRUE

\* Mutant: not while EN is low.
raises_en(cmd) == cmd = "CLEAR_FAULTS" /\ ~sup.line_up /\ sup.en

\* The register file has cleared the latch.
raises(cmd) == cmd = "CLEAR_FAULTS" /\ ~sup.line_up

\* Mutant: only a new count of objects is a change.
rebuilt_count(new) == Len(pdo_build(new).obj) # Len(table.obj)

rebuilt(new) == pdo_build(new).obj # table.obj

TakeInput ==
    LET cmd == IF cmds = <<>> THEN "none" ELSE Head(cmds)
        new == [limits EXCEPT !.max_w = image.max_w, !.max_mv = image.max_mv]
    IN  /\ pc = "input"
        /\ changed' = FALSE /\ cmds' = IF cmds = <<>> THEN cmds ELSE Tail(cmds)
        /\ limits' = IF changed THEN new ELSE limits
        /\ stale' = (stale \/ (changed /\ rebuilt(new)) \/ cmd = "SRC_CAP")
        /\ reset_wanted' = (reset_wanted \/ cmd = "HARD_RESET")
        /\ \E silent \in {FALSE, ~sup.en /\ image # Off} : \* watch_controller()
             LET leaves == cmd = "RESET" \/ silent
             IN  /\ pc' = IF leaves THEN "left" ELSE "poll"
                 /\ CASE leaves -> leave_for_loader
                      [] ~leaves /\ raises(cmd) -> line_raise
                      [] OTHER -> Keep
        /\ UNCHANGED <<en_pin, image, pending, contract, pe, told, asked>>

\* Temperatures, the over-voltage trip, the flags of the parts.
Poll ==
    /\ pc = "poll" /\ pc' = "decide"
    /\ alerting' \in {alerting \/ tripped(pw), TRUE}
    /\ UNCHANGED <<en_pin, sup, pw, input_vars, port_vars>>

allowed == /\ sup.line_up /\ ~alerting /\ sup.en /\ pw.conv_ready
           /\ sup.cfg.port_en /\ sup.cfg.max_w # 0

Attached == pe \notin {"none", "cad"}

\* Requests to the policy engine, repeated until it takes them.
ask_the_engine ==
    \/ /\ ~Attached /\ stale' = FALSE /\ reset_wanted' = FALSE
       /\ UNCHANGED <<pe, contract, pending, told, asked>>
    \/ Attached /\ UNCHANGED <<stale, reset_wanted, pe, contract, pending, told, asked>>
    \/ /\ Attached /\ reset_wanted /\ pe \notin {"hr_off", "hr_on"}
       /\ pe' = "hr_off" /\ reset_wanted' = FALSE /\ pending' = {} /\ contract' = {}
       /\ told' = {} /\ asked' = {} /\ UNCHANGED stale

Decide ==
    /\ pc = "decide" /\ pc' = "stack"
    /\ \/ /\ alerting /\ sup.line_up
          /\ \E o \in disarm(pw) : pw' = power_port_down(Fresh(o.p))
          /\ sup' = [sup EXCEPT !.armed = FALSE, !.line_up = FALSE]
       \/ /\ ~(alerting /\ sup.line_up) /\ allowed # sup.armed
          /\ \E o \in IF allowed THEN write_tcpp(pw) ELSE disarm(pw) : pw' = Fresh(o.p)
          /\ sup' = [sup EXCEPT !.armed = allowed]
       \/ ~(alerting /\ sup.line_up) /\ allowed = sup.armed /\ UNCHANGED <<pw, sup>>
    /\ ask_the_engine
    /\ UNCHANGED <<alerting, en_pin, input_vars, limits>>

------------------------------------------------------------------------------
(* The callbacks of the stack *)

Callback == pc = "stack" /\ pc' = "follow" /\ UNCHANGED <<en_pin, input_vars>>
KeepsPort == UNCHANGED port_vars

NoCallback == Callback /\ KeepsPort /\ UNCHANGED <<sup, pw, alerting>>

\* What of a table a sink that is attached knows.
CadSees == Callback /\ pe = "none" /\ sup.armed /\ pe' = "cad"
    /\ UNCHANGED <<sup, pw, alerting, limits, stale, reset_wanted, pending, contract, told, asked>>

VBUSEnable(to) ==
    \E o \in IF sup.armed THEN power_vbus_on(pw) ELSE Stops(pw, "not_ready") :
      pw' = Fresh(o.p) /\ pe' = to /\ alerting' = (alerting \/ o.r # "ok")

VBUSDisable ==
    \E o \in IF sup.armed THEN power_vbus_off(pw) ELSE Done(pw) : pw' = Fresh(o.p)

Attach ==
    /\ Callback /\ pe = "cad" /\ VBUSEnable("startup")
    /\ pending' = {} /\ contract' = {}
    /\ UNCHANGED <<sup, limits, stale, reset_wanted, told, asked>>

Detach ==
    /\ Callback /\ pe # "none" /\ pe' = "none" /\ VBUSDisable
    /\ pending' = {} /\ contract' = {} /\ limits' = [limits EXCEPT !.cable_ma = 3000]
    /\ told' = {} /\ asked' = {} /\ UNCHANGED <<sup, alerting, stale, reset_wanted>>

\* The cable's e-marker answers.
CableAnswers ==
    /\ Callback /\ pe \in {"startup", "ready"}
    /\ \E c \in Cables \ {3000} :
         LET new == [limits EXCEPT !.cable_ma = c]
         IN  limits' = new /\ stale' = (stale \/ rebuilt(new))
    /\ UNCHANGED <<sup, pw, alerting, reset_wanted, pending, contract, pe, told, asked>>

\* The engine sends the table: by itself until there is a contract, then
\* when it is asked to.
GetPortPDOs ==
    /\ Callback /\ ((pe = "startup" /\ pw.vbus_on) \/ (pe = "ready" /\ stale))
    /\ told' = {table} /\ stale' = FALSE /\ pe' = "offered" /\ asked' = {}
    /\ UNCHANGED <<sup, pw, alerting, limits, reset_wanted, pending, contract>>

\* What a sink may ask of a table: all an object gives, with the voltage meant.
Asks(t) ==
    LET of(i, mv, ma) == [rdo |-> RequestFor(t.obj[i], i, mv, ma), mv |-> mv]
        All(i) == CASE t.obj[i].kind = "FIXED" -> of(i, t.obj[i].mv, t.obj[i].ma)
                    [] t.obj[i].kind = "PPS" -> of(i, t.obj[i].max_mv, t.obj[i].ma)
                    [] t.obj[i].kind = "AVS" -> of(i, 9000, t.obj[i].ma_15v)
    IN  {All(i) : i \in {j \in DOMAIN t.obj : t.obj[j].kind \in Takes}}

Request ==
    /\ Callback /\ pe = "offered"
    /\ \E t \in told : \E a \in Asks(t) : asked' = {a}
    /\ pe' = "asked" /\ told' = {}
    /\ UNCHANGED <<sup, pw, alerting, limits, stale, reset_wanted, pending, contract>>

\* A refusal leaves the contract there is; without one the engine offers again.
EvaluateRequest ==
    /\ Callback /\ pe = "asked"
    /\ LET granted == IF ~sup.armed THEN {} ELSE UNION {check_request(table, a.rdo) : a \in asked}
       IN  IF granted # {} THEN pending' = granted /\ pe' = "granted" /\ UNCHANGED asked
           ELSE /\ UNCHANGED pending /\ asked' = {}
                /\ pe' = IF contract = {} THEN "startup" ELSE "ready"
    /\ UNCHANGED <<sup, pw, alerting, limits, stale, reset_wanted, contract, told>>

SetupNewPower ==
    /\ Callback /\ pe = "granted"
    /\ \E req \in pending : \E o \in power_set(pw, req.mv) :
         /\ pw' = Fresh(o.p) /\ pending' = {} /\ asked' = {}
         /\ contract' = IF o.r = "ok" THEN pending ELSE {}
         /\ pe' = IF o.r = "ok" THEN "ready" ELSE "hr_off"
    /\ UNCHANGED <<sup, alerting, limits, stale, reset_wanted, told>>

\* The sink resets, or the engine gives up on it.
HardReset ==
    /\ Callback /\ pe \in {"startup", "offered", "asked", "granted", "ready"}
    /\ pe' = "hr_off" /\ pending' = {} /\ contract' = {} /\ told' = {} /\ asked' = {}
    /\ UNCHANGED <<sup, pw, alerting, limits, stale, reset_wanted>>

HardResetOff ==
    /\ Callback /\ pe = "hr_off" /\ pe' = "hr_on" /\ VBUSDisable
    /\ UNCHANGED <<sup, alerting, limits, stale, reset_wanted, pending, contract, told, asked>>

HardResetOn ==
    /\ Callback /\ pe = "hr_on" /\ VBUSEnable("startup")
    /\ UNCHANGED <<sup, limits, stale, reset_wanted, pending, contract, told, asked>>

------------------------------------------------------------------------------
(* What comes from outside, before the step that meets it: what comes at   *)
(* another time is met there all the same.                                 *)

Outside == UNCHANGED <<pc, sup, port_vars>>

\* While EN is low the converter is off and has lost its registers.
EnChanges ==
    /\ pc = "stack" /\ en_pin' = ~en_pin /\ pw' = [pw EXCEPT !.oe = FALSE]
    /\ UNCHANGED <<alerting, input_vars>> /\ Outside

Configure ==
    /\ pc = "stack" /\ image' \in Configs /\ changed' = TRUE
    /\ UNCHANGED <<en_pin, cmds, pw, alerting>> /\ Outside

\* CLEAR_FAULTS clears the latch at once; the command then waits its turn.
push_command ==
    /\ pc \in {"decide", "stack"}
    /\ \E c \in Commands :
         /\ Crowds \/ Len(cmds) < CMD_QUEUE
         /\ alerting' = (alerting /\ c # "CLEAR_FAULTS")
         /\ cmds' = IF Len(cmds) = CMD_QUEUE THEN cmds ELSE Append(cmds, c)
    /\ UNCHANGED <<en_pin, image, changed, pw>> /\ Outside

\* The comparator pulls TCPP_EN low, which costs the TCPP02 its registers.
OverVoltage ==
    /\ pc \in {"decide", "stack"} /\ pw.port_up /\ ~pw.trip
    /\ pw' = Opened([pw EXCEPT !.trip = TRUE])
    /\ UNCHANGED <<en_pin, alerting, input_vars>> /\ Outside

\* The output of a converter follows what it was told, and drains without it.
Slew ==
    /\ pc = "stack"
    /\ IF pw.oe THEN pw.vout # pw.ref /\ pw' = Slewed(pw)
       ELSE \E v \in Volts : v < pw.vout /\ pw' = [pw EXCEPT !.vout = v]
    /\ UNCHANGED <<en_pin, alerting, input_vars>> /\ Outside

NoLimits == [max_w |-> 0, max_mv |-> 0, cable_ma |-> 3000]

\* The firmware starts; the converter is as it was left.
Started(oe, ref, vout) ==
    /\ pc' = "follow" /\ image' = Off /\ changed' = FALSE /\ cmds' = <<>> /\ limits' = NoLimits
    /\ stale' = FALSE /\ reset_wanted' = FALSE /\ pending' = {} /\ contract' = {} /\ pe' = "none"
    /\ told' = {} /\ asked' = {}
    /\ \E o \in power_port_up([port_up |-> FALSE, conv_ready |-> FALSE, vbus_on |-> FALSE,
            contracted |-> FALSE, setpoint |-> 0, switch |-> FALSE, gate |-> FALSE, oe |-> oe,
            ref |-> ref, vout |-> vout, threshold |-> 0, trip |-> FALSE, failed |-> 0,
            wrong |-> pw.wrong]) :
         /\ pw' = IF o.r = "ok" THEN Fresh(o.p) ELSE power_port_down(Fresh(o.p))
         /\ sup' = [en |-> FALSE, conv_pending |-> FALSE, line_up |-> o.r = "ok", cfg |-> Off,
                    armed |-> FALSE]
         /\ alerting' = (o.r # "ok")

\* It comes back from its bootloader.
Restart == pc = "left" /\ Started(pw.oe, pw.ref, pw.vout) /\ UNCHANGED en_pin

BladeInit ==
    /\ pc = "left" /\ en_pin = FALSE /\ image = Off /\ changed = FALSE /\ cmds = <<>>
    /\ alerting = FALSE /\ limits = NoLimits /\ stale = FALSE /\ reset_wanted = FALSE
    /\ sup = [en |-> FALSE, conv_pending |-> FALSE, line_up |-> FALSE, cfg |-> Off, armed |-> FALSE]
    /\ pw = [port_up |-> FALSE, conv_ready |-> FALSE, vbus_on |-> FALSE, contracted |-> FALSE,
             setpoint |-> 0, switch |-> FALSE, gate |-> FALSE, oe |-> FALSE, ref |-> 5000,
             vout |-> 0, threshold |-> 0, trip |-> FALSE, failed |-> 0, wrong |-> {}]
    /\ pending = {} /\ contract = {} /\ pe = "none" /\ told = {} /\ asked = {}

Turn == Follow \/ TakeInput \/ Poll \/ Decide
Stack == NoCallback \/ CadSees \/ Attach \/ Detach \/ CableAnswers \/ GetPortPDOs \/ Request
         \/ EvaluateRequest \/ SetupNewPower \/ HardReset \/ HardResetOff \/ HardResetOn
FromOutside == EnChanges \/ Configure \/ push_command \/ OverVoltage \/ Slew \/ Restart

BladeNext == Turn \/ Stack \/ FromOutside

BladeSpec == BladeInit /\ [][BladeNext]_blade_vars

------------------------------------------------------------------------------
(* Properties *)

\* The variables keep their types; a request is held only between its being
\* granted and delivered.
BladeTypeOK ==
    /\ pc \in {"follow", "input", "poll", "decide", "stack", "left"}
    /\ {en_pin, changed, alerting, stale, reset_wanted} \subseteq BOOLEAN
    /\ image \in Configs \cup {Off} /\ Len(cmds) <= CMD_QUEUE
    /\ sup \in [en : BOOLEAN, conv_pending : BOOLEAN, line_up : BOOLEAN, armed : BOOLEAN,
                cfg : Configs \cup {Off}]
    /\ {pw.setpoint, pw.ref, pw.vout} \subseteq Volts /\ pw.failed = 0
    /\ Cardinality(contract) <= 1 /\ (pending # {} => pe = "granted" /\ Cardinality(pending) = 1)
    /\ Cardinality(told) + Cardinality(asked) <= 1

\* What power.h says holds in every state: the threshold covers the higher
\* of two voltages while the output moves between them, and the switch
\* closes only onto an output at 5 V.  And a port that is not on carries
\* nothing, whichever one transfer of a call failed: the converter and the
\* switch are each opened by a write of its own.
PowerPromises == pw.wrong = {} /\ (~pw.vbus_on => ~(pw.gate /\ pw.oe))

\* A port that is dark with nothing latched has the clear still to be taken:
\* no order of faults and clears leaves it dark and unreported.
ClearedComesBack ==
    ~sup.line_up /\ ~alerting /\ pc # "left" => \E i \in DOMAIN cmds : cmds[i] = "CLEAR_FAULTS"

\* A sink whose contract is settled knows the table of the moment, and the
\* contract is within the power limit of the moment.
ContractWithinLimit ==
    pe = "ready" /\ pw.vbus_on /\ ~stale =>
      \A c \in contract : c.mv * c.limit_ma <= table.power_mw * 1000

\* What is granted is what the sink meant: the voltage of the object that it
\* named in the table it was sent (pdo.h: "against the table last sent").
GrantsWhatWasAsked == \A g \in pending, a \in asked : pe = "granted" => g.mv = a.mv

================================================================================
