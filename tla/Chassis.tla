-------------------------------- MODULE Chassis --------------------------------
(***************************************************************************)
(* The engine of the controller (engine/engine.c, core 1) around the port  *)
(* state machines, with what surrounds it: the blades and the devices on   *)
(* them, core 0's commands and settings, and the controller's restarts.    *)
(*                                                                         *)
(* The loop takes core 0's commands, the fault line and the presence lines *)
(* first (turn = Top) and then ticks the ports in slot order.  The blades, *)
(* the devices and core 0 take their steps between any two of those.       *)
(***************************************************************************)
EXTENDS PortFsm

CONSTANTS
    Limits, Volts,         \* the values of a port's two power settings
    Ceilings, Totals,      \* ... of the chassis ceiling (0 = none), the budget
    Asks,                  \* the contracts a device may take
    Seatings,              \* sets of slots that may hold a blade at first
    BootOff,               \* sets of ports the boot policy may keep off
    MaxBoots,              \* bound: restarts of the controller
    Events                 \* which of the surroundings' steps happen

ASSUME ChassisAssumption ==
    /\ Limits \subseteq 1..MaxW /\ Volts \subseteq 1..MaxW /\ Asks \subseteq 1..MaxW
    /\ Limits # {} /\ Volts # {}
    /\ Ceilings \subseteq Nat /\ Totals \subseteq Nat /\ Totals # {}
    /\ BootOff \subseteq SUBSET Ports /\ BootOff # {}
    /\ Seatings \subseteq SUBSET Ports
    /\ MaxBoots \in Nat

VARIABLES
    turn,      \* the port whose tick is next, or Top
    present,   \* the engine's view of the presence lines
    seated,    \* whether a blade sits in each slot
    boots      \* restarts so far

engine_vars == <<turn, present, boots>>
vars == <<fsm_vars, settings, hour, engine_vars, seated>>

Top == NUM_PORTS

\* The state is one the C types can hold and its arithmetic never leaves:
\* reservations and contracts are not negative, bootloader rounds stop at
\* their limit, mux and loader_port name a slot or none.
TypeOK ==
    /\ Now \in World
    /\ total \in Nat /\ ceiling_w \in Nat /\ hold_updates \in BOOLEAN
    /\ port_limit_w \in [Ports -> Nat] /\ port_max_w \in [Ports -> Nat]
    /\ hour \in Nat /\ turn \in 0..Top /\ boots \in Nat
    /\ present \in [Ports -> BOOLEAN] /\ seated \in [Ports -> BOOLEAN]

------------------------------------------------------------------------------
(* Power-up of a dark chassis (Init), or around blades that run (Reboot)   *)

\* port_fsm_boot_inventory(): an enable output found on stays on for a
\* seated blade the boot policy wants on; any other is taken low.
BootInventory(read, powered, off) ==
    LET admin == [i \in Ports |-> i \notin off]
        stays == {i \in Ports : StaysOn(i, read, powered, admin)}
    IN  /\ ctx' = [i \in Ports |-> BootCtx(i, read, powered, admin)]
        /\ en' = [i \in Ports |-> i \in stays]
        /\ sink' = [i \in Ports |-> IF i \in stays THEN sink[i] ELSE 0]
        /\ present' = read

\* An image is on trial at first only where its commit is modelled.
Holds == IF "commit" \in Events THEN BOOLEAN ELSE {FALSE}

\* engine_main() up to its loop.  A presence read that fails leaves the lines
\* as the zeroed memory has them: nothing seated.
Reboot ==
    /\ boots < MaxBoots
    /\ \E hold \in Holds, off \in BootOff,
          read \in IF "expander" \in Flaky THEN {seated, [i \in Ports |-> FALSE]} ELSE {seated} :
         BootInventory(read, {i \in Ports : en[i]}, off)
         /\ hold_updates' = hold
    /\ boots' = boots + 1
    /\ turn' = Top /\ hour' = 0 /\ mux' = None /\ loader_port' = None
    /\ ceiling_w' = 0
    /\ reserved' = [i \in Ports |-> 0]
    /\ UNCHANGED <<total, port_limit_w, port_max_w, offer, seated>>

Init ==
    /\ total \in Totals /\ ceiling_w = 0 /\ hold_updates \in Holds
    /\ port_limit_w \in [Ports -> Limits] /\ port_max_w \in [Ports -> Volts]
    /\ seated \in {[i \in Ports |-> i \in S] : S \in Seatings} /\ present = seated
    /\ \E off \in BootOff :
         ctx = [i \in Ports |-> BootCtx(i, seated, {}, [j \in Ports |-> j \notin off])]
    /\ reserved = [i \in Ports |-> 0] /\ en = [i \in Ports |-> FALSE]
    /\ mux = None /\ loader_port = None
    /\ offer = [i \in Ports |-> NoOffer] /\ sink = [i \in Ports |-> 0]
    /\ hour = 0 /\ turn = Top /\ boots = 0

------------------------------------------------------------------------------
(* The engine loop *)

AtTop == turn = Top /\ UNCHANGED <<engine_vars, hour, seated>>

Commands(i) ==
    \/ "enable" \in Events /\ CmdEnable(i)
    \/ "disable" \in Events /\ CmdDisable(i)
    \/ "update" \in Events /\ CmdUpdate(i)
    \/ "limit" \in Events /\ CmdLimit(i)
    \/ "volt" \in Events /\ CmdVolt(i)

Dispatch == AtTop /\ UNCHANGED settings /\ \E i \in Ports : Commands(i)

SetCeiling ==
    /\ AtTop /\ ceiling_w' \in Ceilings
    /\ UNCHANGED <<fsm_vars, total, hold_updates, port_limit_w, port_max_w>>

SetBudget ==
    /\ AtTop /\ total' \in Totals
    /\ UNCHANGED <<fsm_vars, ceiling_w, hold_updates, port_limit_w, port_max_w>>

\* The controller's image has been committed: flash_map_update_pending().
Committed ==
    /\ AtTop /\ "commit" \in Events /\ hold_updates /\ hold_updates' = FALSE
    /\ UNCHANGED <<fsm_vars, total, ceiling_w, port_limit_w, port_max_w>>

AlertSweep ==
    AtTop /\ "alert" \in Events /\ UNCHANGED settings /\ \E i \in Ports : port_fsm_alert_sweep(i)

\* Mutant: one read is believed.
RefreshPresence_once ==
    /\ turn = Top
    /\ \E flips \in IF "flip" \in Flaky THEN SUBSET Ports ELSE {{}} :
         present' = [i \in Ports |-> seated[i] # (i \in flips)]
    /\ UNCHANGED <<fsm_vars, settings, hour, turn, boots, seated>>

\* A read says a seated blade has gone: only what a second one says as well
\* counts.  A read of the lines may come with bits flipped, one of the two
\* at most.
RefreshPresence ==
    /\ turn = Top
    /\ \E flips \in IF "flip" \in Flaky THEN SUBSET Ports ELSE {{}}, first \in BOOLEAN :
         LET read == [i \in Ports |-> seated[i] # (first /\ i \in flips)]
             again == [i \in Ports |-> seated[i] # (~first /\ i \in flips)]
             gone == \E i \in Ports : present[i] /\ ~read[i]
         IN  present' = [i \in Ports |-> read[i] \/ (gone /\ again[i])]
    /\ UNCHANGED <<fsm_vars, settings, hour, turn, boots, seated>>

StartTicks ==
    turn = Top /\ turn' = 0 /\ UNCHANGED <<fsm_vars, settings, hour, present, boots, seated>>

TickWith(c) ==
    /\ turn \in Ports /\ port_fsm_tick(turn, present[turn], c)
    /\ turn' = turn + 1
    /\ UNCHANGED <<settings, hour, present, boots, seated>>

Tick == turn \in Ports /\ \E c \in Chances(ctx[turn]) : TickWith(c)

\* The loop reads the clock once, before the ticks.
HourPasses ==
    /\ turn = Top /\ hour < NUM_PORTS /\ hour' = hour + 1
    /\ UNCHANGED <<fsm_vars, settings, engine_vars, seated>>

Engine == Dispatch \/ SetCeiling \/ SetBudget \/ Committed \/ AlertSweep
          \/ RefreshPresence \/ StartTicks \/ HourPasses \/ Reboot

------------------------------------------------------------------------------
(* The surroundings *)

Outside == UNCHANGED <<ctx, reserved, en, mux, loader_port, hour, engine_vars>>

\* Core 0 stores a setting before it sends the command that applies it.
StoreLimit(i) ==
    /\ Outside /\ port_limit_w' \in {[port_limit_w EXCEPT ![i] = w] : w \in Limits}
    /\ UNCHANGED <<total, ceiling_w, hold_updates, port_max_w, offer, sink, seated>>

StoreVolt(i) ==
    /\ Outside /\ port_max_w' \in {[port_max_w EXCEPT ![i] = w] : w \in Volts}
    /\ UNCHANGED <<total, ceiling_w, hold_updates, port_limit_w, offer, sink, seated>>

Seat(i) ==
    /\ "seat" \in Events /\ ~seated[i] /\ seated' = [seated EXCEPT ![i] = TRUE]
    /\ Outside /\ UNCHANGED <<settings, offer, sink>>

Unseat(i) ==
    /\ Events \cap {"seat", "unseat"} # {} /\ seated[i] /\ seated' = [seated EXCEPT ![i] = FALSE]
    /\ offer' = [offer EXCEPT ![i] = NoOffer] /\ sink' = [sink EXCEPT ![i] = 0]
    /\ Outside /\ UNCHANGED settings

\* What the blade offers now; a port that is dark offers nothing.
Open(i) == IF en[i] THEN Least(offer[i].w, offer[i].v) ELSE 0

\* A device is plugged in, or takes another contract within the offer.
Ask(i) ==
    /\ sink[i] = 0 => "attach" \in Events
    /\ sink[i] # 0 => "ask" \in Events \/ sink[i] > Open(i)
    /\ \E w \in Asks : w <= Open(i) /\ w # sink[i] /\ sink' = [sink EXCEPT ![i] = w]
    /\ Outside /\ UNCHANGED <<settings, offer, seated>>

Unplug(i) ==
    /\ "unplug" \in Events /\ sink[i] # 0 /\ sink' = [sink EXCEPT ![i] = 0]
    /\ Outside /\ UNCHANGED <<settings, offer, seated>>

\* A gen-3 blade's MCU restarts (watchdog, brown-out): dark, unconfigured.
Restart(i) ==
    /\ "restart" \in Events /\ ctx[i].gen = "GEN_3" /\ offer[i].w # 0
    /\ offer' = [offer EXCEPT ![i] = NoOffer] /\ sink' = [sink EXCEPT ![i] = 0]
    /\ Outside /\ UNCHANGED <<settings, seated>>

Surroundings(i) ==
    \/ StoreLimit(i) \/ StoreVolt(i) \/ Seat(i) \/ Unseat(i)
    \/ Ask(i) \/ Unplug(i) \/ Restart(i)

Others == Engine \/ \E i \in Ports : Surroundings(i)

Next == Tick \/ Others

Spec == Init /\ [][Next]_vars

------------------------------------------------------------------------------
(* What the chassis owes *)

Rose(i) == reserved'[i] > reserved[i]

\* The watts granted above the bases, with the base of one port, fit the
\* budget: whatever order contracts, sheds, steps and restores come in, the
\* account is exceeded by base reserves only (budget_force_reserve of a base
\* asks nobody).  Holds while the budget setting stays put.
GrantsFitBudget ==
    (\E i \in Ports : reserved[i] > BASE_RESERVE) => Granted(reserved) + BASE_RESERVE <= total

\* No step raises a reservation above the base without the whole account
\* fitting the budget of that moment, whatever the budget was changed to.
NeverGrantsPastBudget ==
    [][\A i \in Ports : Rose(i) /\ reserved'[i] > BASE_RESERVE
                            => budget_reserved(reserved') <= total']_vars

\* What a port holds follows from where it is: nothing when it is absent,
\* faulted or off, at most the base on its way up, and in service exactly
\* its contract.  A leak here is a budget that shrinks for good.
HoldsByState ==
    \A i \in Ports :
        LET p == ctx[i] IN
        /\ p.state \in {"ABSENT", "FAULT", "DISABLED"} => reserved[i] = 0
        /\ p.state \in {"PROBE", "UPDATE"} => reserved[i] \in {0, BASE_RESERVE}
        /\ p.state \notin {"ACTIVE", "THROTTLED"} => p.contract = 0
        /\ p.state \in Powered =>
             reserved[i] = IF p.contract = 0 THEN BASE_RESERVE ELSE p.contract

\* In another port's tick a port loses watts only to a strictly higher
\* priority, keeps its base, and remembers what to ask back.
ShedsDownPriority ==
    [][\A i \in Ports :
         reserved'[i] < reserved[i] /\ turn \in Ports \ {i} /\ boots' = boots =>
            /\ Prio[turn] < Prio[i]
            /\ reserved'[i] >= BASE_RESERVE
            /\ ctx'[i].state = "THROTTLED" /\ ctx'[i].denied > reserved'[i]]_vars

\* A port whose limit is raised in its tick while a throttled port of
\* strictly higher priority still wants watts.
JumpsQueue(i, j) ==
    /\ turn = i /\ turn' # i /\ Prio[j] < Prio[i]
    /\ ctx[i].state = "THROTTLED" /\ ctx'[i].state \in {"ACTIVE", "THROTTLED"}
    /\ ctx'[i].granted > ctx[i].granted
    /\ ctx[j].state = "THROTTLED" /\ ctx[j].denied > reserved[j]

\* Freed watts always flow top down by priority.
FreedFlowTopDown == [][\A i, j \in Ports : ~JumpsQueue(i, j)]_vars

\* They do as far as the recovery goes: above the base, to a throttled port
\* whose device, as it was last heard, has come down to what it was granted.
RestoresTopDown ==
    [][\A i, j \in Ports : JumpsQueue(i, j) /\ ctx'[i].granted > BASE_RESERVE
                            => ctx'[i].st.contract > ctx[i].granted]_vars

\* Once a powered port that answers has had its tick it is programmed for no
\* more than its setting and the chassis ceiling of that moment, and so is
\* its blade, where the bus takes every write.
BladesFollow ==
    [][\A i \in Ports :
         turn = i /\ turn' # i /\ ctx'[i].state \in Powered /\ ~ctx'[i].silent
            => ctx'[i].granted <= limit_for(i) /\ offer'[i].w <= limit_for(i)]_vars

\* A port counted as powered has its enable line high; one that is off, faulted
\* or in the bootloader has it low.
EnableFollows ==
    \A i \in Ports : /\ ctx[i].state \in Powered => en[i]
                     /\ ctx[i].state \in {"FAULT", "DISABLED", "UPDATE"} => ~en[i]

\* An adopted port's enable line was found on and has stayed on.
WarmIsOn == \A i \in Ports : ctx[i].warm => en[i]

\* A device that is being charged loses its power only by its own doing or
\* its blade's, or because the port was switched off or told to update, or
\* was charged: no restart, silence, lost selection, lost write, flipped
\* presence bit or budget does it.  (Runs without blade faults check it; a
\* device put on an idle or a probed port since its last poll is not known
\* of yet.)
KeepsPower ==
    [][\A i \in Ports :
         sink[i] # 0 /\ sink'[i] = 0 =>
            \/ ctx' = ctx /\ boots' = boots
            \/ ctx[i].state \in {"IDLE", "PROBE"} /\ ~ctx[i].warm /\ ~ctx[i].st.attached
            \/ ~seated[i] \/ ~ctx'[i].admin \/ ctx'[i].charged \/ ctx'[i].rewrite]_vars

\* The one bootloader conversation belongs to a port that is in it.
LoaderLock == loader_port # None => ctx[loader_port].state = "UPDATE"

================================================================================
