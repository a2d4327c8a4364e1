----------------------------------- MODULE Fan -----------------------------------
(***************************************************************************)
(* The fan (fan_policy.c), which the engine asks once a pass.  The clock   *)
(* counts milliseconds in 32 bits and is compared as a signed difference;  *)
(* here a unit of time is a fraction of FAN_MIN_HOLD_MS, with a pass each. *)
(***************************************************************************)
EXTENDS Integers

CONSTANTS
    WRAP,           \* units until the clock starts over
    FAN_MIN_HOLD_MS, \* in units
    WritesFail      \* a write to the expander may fail

ASSUME FanAssumption ==
    /\ FAN_MIN_HOLD_MS \in Nat \ {0}
    /\ WRAP \in Nat /\ 2 * FAN_MIN_HOLD_MS <= WRAP  \* 30 s, and 2^32 ms

VARIABLES
    fan, \* on, auto, manual and hold (hold_until_ms) of fan_policy.c
    ms,
    air, \* load: "low", "band" or "high" of the thresholds; a contract over fan_on_ma is
         \* high.  blade: the hottest, "cool", "band" or "hot" likewise
    felt \* history: since: units since the policy changed the fan, up to the hold;
         \* waited: units that a hot blade was without it and it was not tried

fan_vars == <<fan, ms, air, felt>>

Loads == {"low", "band", "high"}
Blades == {"cool", "band", "hot"}

\* (int32_t)x < 0
Negative(x) == x % WRAP >= WRAP \div 2

\* any_blade_warm(): the lower temperatures while the fan runs
any_blade_warm(running) == air.blade = "hot" \/ (running /\ air.blade = "band")

\* What the policy wants in auto mode: on at one rule, off once all are clear.
Wanted(running) ==
    \/ any_blade_warm(running)
    \/ air.load = "high" \/ (running /\ air.load = "band")

\* tca9539_set_fan() may fail, and the fan stays as it was.
Set(want) == {[fan EXCEPT !.on = want]} \cup IF WritesFail THEN {fan} ELSE {}

\* fan_policy_tick()
Next_hold == (ms + FAN_MIN_HOLD_MS) % WRAP
manual_off_tick ==
    IF ~fan.manual /\ any_blade_warm(fan.on) # fan.on THEN Set(~fan.on) ELSE {fan}
\* Mutant: the hold is started by the fan going on.
auto_tick_on ==
    IF Wanted(fan.on) = fan.on \/ Negative(ms - fan.hold) THEN {fan}
    ELSE {IF f.on THEN [f EXCEPT !.hold = Next_hold] ELSE f : f \in Set(~fan.on)}
auto_tick ==
    IF Wanted(fan.on) = fan.on \/ Negative(ms - fan.hold) THEN {fan}
    ELSE {IF f = fan THEN f ELSE [f EXCEPT !.hold = Next_hold] : f \in Set(~fan.on)}

fan_policy_tick ==
    /\ fan' \in IF fan.auto THEN auto_tick ELSE manual_off_tick
    /\ ms' = (ms + 1) % WRAP
    /\ LET changed == fan.auto /\ fan'.on # fan.on
           more == IF felt.since < FAN_MIN_HOLD_MS THEN felt.since + 1 ELSE felt.since
           tried == IF fan.auto THEN ~Negative(ms - fan.hold) ELSE ~fan.manual
           hot == air.blade = "hot" /\ ~fan.on /\ ~tried
       IN  felt' = [since |-> IF changed THEN 1 ELSE more,
                    waited |-> IF ~hot THEN 0
                               ELSE IF felt.waited > FAN_MIN_HOLD_MS THEN felt.waited
                               ELSE felt.waited + 1]
    /\ UNCHANGED air

\* fan_policy_set_manual(), fan_policy_set_auto(): commands
fan_policy_set_manual(on) ==
    /\ fan' \in {[f EXCEPT !.auto = FALSE, !.manual = on] : f \in Set(on)}
    /\ felt' = [felt EXCEPT !.since = FAN_MIN_HOLD_MS] /\ UNCHANGED <<ms, air>>
fan_policy_set_auto ==
    /\ fan' = [fan EXCEPT !.auto = TRUE, !.hold = 0]
    /\ felt' = [felt EXCEPT !.since = FAN_MIN_HOLD_MS] /\ UNCHANGED <<ms, air>>

AirMoves ==
    /\ air' \in [load : Loads, blade : Blades]
    /\ UNCHANGED <<fan, ms, felt>>

\* fan_policy_init(): the fan as the expander has it, off after a cold start.
fan_policy_init(on, auto) == [on |-> on, auto |-> auto, manual |-> on, hold |-> 0]

Fresh == [since |-> FAN_MIN_HOLD_MS, waited |-> 0]
FanRestart ==
    /\ \E on \in {fan.on, FALSE}, auto \in BOOLEAN : fan' = fan_policy_init(on, auto)
    /\ ms' = 0 /\ felt' = Fresh /\ UNCHANGED air

FanInit ==
    /\ \E auto \in BOOLEAN : fan = fan_policy_init(FALSE, auto)
    /\ ms = 0 /\ air = [load |-> "low", blade |-> "cool"] /\ felt = Fresh

FanNext ==
    \/ fan_policy_tick \/ AirMoves \/ fan_policy_set_auto \/ FanRestart
    \/ \E on \in BOOLEAN : fan_policy_set_manual(on)

FanSpec == FanInit /\ [][FanNext]_fan_vars

------------------------------------------------------------------------------
(* Properties *)

\* "Any change of state starts a hold so that a borderline load cannot flap the
\* fan" (fan_policy.h): the policy changes it again only after the hold, unless a
\* command or a restart comes between.
NoFlap ==
    [][fan_policy_tick /\ fan.auto /\ fan'.on # fan.on => felt.since = FAN_MIN_HOLD_MS]_fan_vars

\* A hot blade that is without the fan has it tried within the hold, whatever the
\* mode: "overheating is a safety matter that no setting turns off" (fan_policy.h).
HotIsCooled == felt.waited <= FAN_MIN_HOLD_MS

================================================================================
