-------------------------------- MODULE Backplane --------------------------------
(***************************************************************************)
(* The chassis bus of core 1: the expander that drives the blades' EN lines*)
(* and the fan (tca9539.c), the multiplexer in front of the slots          *)
(* (tca9548a.c), and what the engine does about them at a start and in     *)
(* every pass (engine.c).  Both parts are powered from the backplane and   *)
(* outlive a restart of the controller.                                    *)
(*                                                                         *)
(* A transfer is one step: it masks the interrupt on which core 0 parks    *)
(* this core (i2c_txn.h).  Restarts and resets come between any two.       *)
(***************************************************************************)
EXTENDS Integers

CONSTANTS
    Ports,
    EXP_FAILS_MUX_RESET, EXP_FAILS_RECOVER,
    FIND_TRIES, \* how often a start asks an expander that does not answer again
    Troubles    \* what may go wrong: "transfer" (one fails), "deaf" (the expander does not
                \* answer for a while), "glitch" (a part falls back to its power-on state),
                \* "cut" (the controller restarts in the middle of a transfer)

ASSUME BackplaneAssumption ==
    /\ {EXP_FAILS_MUX_RESET, EXP_FAILS_RECOVER} \subseteq Nat \ {0} /\ FIND_TRIES \in Nat
    /\ {"fan", "none", "unknown", "off", "nobody", "expander"} \cap Ports = {}
    /\ Troubles \subseteq {"transfer", "deaf", "glitch", "cut"}

VARIABLES
    exp,    \* the expander: its output register (out), whether its lines are outputs
            \* (driven), whether it is out of reach (deaf)
    open,   \* the multiplexer's channel
    holder, \* who was left halfway through a byte and holds SDA low
    output_cache, current, \* the drivers' statics
    core1,  \* the engine: at, tries, exp_fail_streak
    wanted  \* history: the ports whose EN was asked for, or adopted, and not called off

backplane_vars == <<exp, open, holder, output_cache, current, core1, wanted>>

\* The outputs, all of them in the low byte of the registers; the lines of the
\* high one stay inputs.
Lines == Ports \cup {"fan"}
PowerOn == [out |-> [line \in Lines |-> TRUE], driven |-> FALSE, deaf |-> FALSE]
AllLow == [line \in Lines |-> FALSE]

\* The slot's blade is enabled: its line is an output and high.
Enabled(i) == exp.out[i] /\ exp.driven

------------------------------------------------------------------------------
(* Transfers *)

\* SDA is low on the upstream side: who holds it is there, or on the channel o.
Held(h, o) == h = "expander" \/ (h = o /\ o # "none")
BusHeld == Held(holder, open)

\* read_reg16(): whether the expander was read.
Reads == {ok \in BOOLEAN : IF ok THEN ~BusHeld /\ ~exp.deaf
                          ELSE BusHeld \/ exp.deaf \/ "transfer" \in Troubles}

\* write_reg16(), write_ctrl(): a write that is not acknowledged to its end may
\* have taken all the same.
Writes(barred) ==
    {w \in [ok : BOOLEAN, took : BOOLEAN] :
        IF barred THEN ~w.ok /\ ~w.took
        ELSE IF w.ok THEN w.took ELSE "transfer" \in Troubles}
ExpWrites == Writes(BusHeld \/ exp.deaf)

------------------------------------------------------------------------------
(* tca9548a.c *)

\* free_data_line(): the device lets go when it is clocked, if nothing is shorted.
free_data_line(h, o) == IF Held(h, o) THEN {h, "nobody"} ELSE {h}

\* tca9548a_hw_reset()
hw_reset == open' = "none" /\ current' = "unknown"

\* Mutant: a failed switch leaves the selection noted as it was.
Missed_keeps == current
\* What is known of the selection when a switch was not acknowledged.
Missed == "unknown"

\* tca9548a_select(): nothing is written for the channel that is noted as selected.
tca9548a_select(c) ==
    /\ core1.at = "top"
    /\ \/ /\ current = c
          /\ holder' \in free_data_line(holder, c) /\ UNCHANGED <<open, current>>
       \/ /\ current # c
          /\ \E h \in free_data_line(holder, open) : \E s \in Writes(Held(h, open)) :
                /\ open' = IF s.took THEN c ELSE open
                /\ current' = IF s.ok THEN c ELSE Missed
                /\ holder' \in IF s.ok THEN free_data_line(h, c) ELSE {h}
    /\ UNCHANGED <<exp, output_cache, core1, wanted>>

\* tca9548a_deselect_all(), for the diagnostics
tca9548a_deselect_all ==
    /\ core1.at = "top" /\ current # "off"
    /\ \E s \in Writes(BusHeld) :
          /\ open' = IF s.took THEN "none" ELSE open
          /\ current' = IF s.ok THEN "off" ELSE Missed
    /\ UNCHANGED <<exp, holder, output_cache, core1, wanted>>

------------------------------------------------------------------------------
(* tca9539.c *)

\* set_output_bit(): all lines are written, unless the cache has it already.
set_output_bit(line, on, w) ==
    LET next == [output_cache EXCEPT ![line] = on]
    IN  /\ core1.at = "top"
        /\ w \in IF next = output_cache THEN {[ok |-> TRUE, took |-> FALSE]} ELSE ExpWrites
        /\ exp' = IF w.took THEN [exp EXCEPT !.out = next] ELSE exp
        /\ output_cache' = IF w.ok THEN next ELSE output_cache
        /\ UNCHANGED <<open, holder, current, core1>>

\* tca9539_set_en(), of the port state machines and the diagnostics
tca9539_set_en(i, on) ==
    \E w \in [ok : BOOLEAN, took : BOOLEAN] :
        set_output_bit(i, on, w) /\ wanted' = [wanted EXCEPT ![i] = on \/ (@ /\ ~w.ok)]
tca9539_set_fan(on) ==
    \E w \in [ok : BOOLEAN, took : BOOLEAN] : set_output_bit("fan", on, w) /\ UNCHANGED wanted

\* reset_pulse() at a cold start, with nothing asked for, and in a recovery
Reset == /\ exp' = [PowerOn EXCEPT !.deaf = exp.deaf]
         /\ holder' = IF holder = "expander" THEN "nobody" ELSE holder

\* Mutant: the direction before the outputs.
Order_swapped == <<"config", "outputs">>
\* "ORDER IS CRITICAL": the output registers power up high.
Order == <<"outputs", "config">>

reset_pulse ==
    /\ core1.at \in {"cold", "recover"} /\ Reset
    /\ output_cache' = IF core1.at = "cold" THEN AllLow ELSE output_cache
    /\ wanted' = IF core1.at = "cold" THEN [i \in Ports |-> FALSE] ELSE wanted
    /\ core1' = [core1 EXCEPT !.at = Order[1]] /\ UNCHANGED <<open, current>>

\* The two writes of tca9539_init() and tca9539_recover(); a failure ends them.
WriteExp ==
    /\ core1.at \in {"outputs", "config"}
    /\ \E w \in ExpWrites :
          /\ exp' = IF ~w.took THEN exp
                    ELSE IF core1.at = "outputs" THEN [exp EXCEPT !.out = output_cache]
                    ELSE [exp EXCEPT !.driven = TRUE]
          /\ core1' = [core1 EXCEPT
                          !.at = IF w.ok /\ core1.at = Order[1] THEN Order[2] ELSE "top"]
    /\ UNCHANGED <<open, holder, output_cache, current, wanted>>

------------------------------------------------------------------------------
(* engine.c *)

\* engine_main(): the multiplexer is reset.
tca9548a_init ==
    /\ core1.at = "init" /\ hw_reset /\ core1' = [core1 EXCEPT !.at = "find"]
    /\ UNCHANGED <<exp, holder, output_cache, wanted>>

\* tca9539_find() and what follows: an expander with our configuration is
\* adopted, one without is reset, one that does not answer is asked again.
tca9539_find ==
    /\ core1.at = "find"
    /\ \/ /\ TRUE \in Reads /\ exp.driven
          /\ output_cache' = exp.out /\ wanted' = [i \in Ports |-> exp.out[i]]
          /\ core1' = [core1 EXCEPT !.at = "top"] /\ UNCHANGED <<open, current>>
       \/ /\ TRUE \in Reads /\ ~exp.driven
          /\ core1' = [core1 EXCEPT !.at = "cold"]
          /\ UNCHANGED <<open, output_cache, current, wanted>>
       \/ /\ FALSE \in Reads /\ core1.tries < FIND_TRIES /\ hw_reset
          /\ core1' = [core1 EXCEPT !.tries = @ + 1] /\ UNCHANGED <<output_cache, wanted>>
       \/ /\ FALSE \in Reads /\ core1.tries = FIND_TRIES
          /\ core1' = [core1 EXCEPT !.at = "cold"]
          /\ UNCHANGED <<open, output_cache, current, wanted>>
    /\ UNCHANGED <<exp, holder>>

\* refresh_presence(): misses are counted, and first the multiplexer is reset, in
\* the end the expander; one that has lost its configuration is reset at once.
\* What the lines say of the blades is in Chassis.
Missing ==
    LET missed == core1.exp_fail_streak + 1
        ends == missed >= EXP_FAILS_RECOVER
    IN  /\ FALSE \in Reads
        /\ IF missed % EXP_FAILS_MUX_RESET = 0 THEN hw_reset ELSE UNCHANGED <<open, current>>
        /\ core1' = [core1 EXCEPT !.exp_fail_streak = IF ends THEN 0 ELSE missed,
                                  !.at = IF ends THEN "recover" ELSE "top"]
Answering ==
    /\ TRUE \in Reads /\ UNCHANGED <<open, current>>
    /\ \E config_read \in Reads :
          core1' = [core1 EXCEPT !.exp_fail_streak = 0,
                                 !.at = IF config_read /\ ~exp.driven THEN "recover" ELSE "top"]
refresh_presence ==
    /\ core1.at = "top" /\ (Missing \/ Answering)
    /\ UNCHANGED <<exp, holder, output_cache, wanted>>

------------------------------------------------------------------------------
(* Around them *)

FromScratch == [at |-> "init", tries |-> 0, exp_fail_streak |-> 0]
Boot == core1' = FromScratch /\ output_cache' = AllLow /\ current' = "unknown"

\* A restart that the controller makes itself parks core 1 first
\* (ipc_engine_park()); a watchdog or a fault does not.
StartOver == Boot /\ UNCHANGED <<exp, open, holder, wanted>>
CutOff ==
    /\ "cut" \in Troubles /\ Boot
    /\ \/ core1.at \in {"find", "outputs", "config", "top"} /\ ~exp.deaf /\ holder' = "expander"
       \/ core1.at = "top" /\ open # "none" /\ holder' = open
    /\ ~BusHeld /\ UNCHANGED <<exp, open, wanted>>

PowerCut ==
    /\ Boot /\ exp' = PowerOn /\ open' = "none" /\ holder' = "nobody" /\ UNCHANGED wanted

\* A part falls back to its power-on state, between two passes.
Glitch ==
    /\ "glitch" \in Troubles /\ core1.at = "top"
    /\ \/ Reset /\ UNCHANGED open
       \/ open' = "none" /\ UNCHANGED <<exp, holder>>
    /\ UNCHANGED <<output_cache, current, core1, wanted>>

Deafness ==
    /\ "deaf" \in Troubles /\ exp' = [exp EXCEPT !.deaf = ~@]
    /\ UNCHANGED <<open, holder, output_cache, current, core1, wanted>>

\* "A gen-3 blade also lets go of the line itself" (internals.md).
LetsGo ==
    /\ holder \in Ports /\ holder' = "nobody"
    /\ UNCHANGED <<exp, open, output_cache, current, core1, wanted>>

BackplaneInit ==
    /\ exp = PowerOn /\ open = "none" /\ holder = "nobody" /\ output_cache = AllLow
    /\ current = "unknown" /\ core1 = FromScratch /\ wanted = [i \in Ports |-> FALSE]

BackplaneNext ==
    \/ \E i \in Ports : tca9548a_select(i) \/ \E on \in BOOLEAN : tca9539_set_en(i, on)
    \/ \E on \in BOOLEAN : tca9539_set_fan(on)
    \/ tca9548a_deselect_all \/ reset_pulse \/ WriteExp
    \/ tca9548a_init \/ tca9539_find \/ refresh_presence
    \/ StartOver \/ CutOff \/ PowerCut \/ Glitch \/ Deafness \/ LetsGo

BackplaneSpec == BackplaneInit /\ [][BackplaneNext]_backplane_vars

------------------------------------------------------------------------------
(* Properties *)

BackplaneTypeOK ==
    /\ exp \in [out : [Lines -> BOOLEAN], driven : BOOLEAN, deaf : BOOLEAN]
    /\ open \in Ports \cup {"none"} /\ holder \in Ports \cup {"nobody", "expander"}
    /\ output_cache \in [Lines -> BOOLEAN] /\ current \in Ports \cup {"unknown", "off"}
    /\ core1 \in [at : {"init", "find", "cold", "recover", "outputs", "config", "top"},
                  tries : 0..FIND_TRIES, exp_fail_streak : 0..EXP_FAILS_RECOVER]
    /\ wanted \in [Ports -> BOOLEAN]

\* No blade is enabled that nobody asked for, whatever resets, restarts, failed
\* or half-done writes lie between the request and the moment its line goes high
\* ("reversing this enables every blade at once", tca9539.c).
NoneByItself ==
    [][\A i \in Ports : ~Enabled(i) /\ Enabled(i)' => wanted'[i]]_backplane_vars

\* A channel that the driver takes for selected is the only one that can be: what is
\* meant for one blade does not reach another ("Exclusive", tca9548a.h), though
\* switches fail, take without an answer, and the part falls back by itself.
RightChannel == current \in Ports => open \in {current, "none"}

\* "A controller reboot (update, requested, watchdog, HardFault) never cuts port
\* power" (architecture.md): no start resets an expander that enables a port.
RebootKeepsPower == core1.at = "cold" => \A i \in Ports : ~Enabled(i)

================================================================================
