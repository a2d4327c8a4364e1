--------------------------------- MODULE MainLoop ---------------------------------
(***************************************************************************)
(* Core 0's main loop (main.c) and what it shares with core 1: the queue of*)
(* commands and the queue of events (ipc.c), the settings both read, and   *)
(* the surfaces (http.c, mqtt.c, cli.c), which switch ports and lights and *)
(* set the budget from callbacks that interrupt the loop between any two   *)
(* statements.  Core 1 is a pass that takes every command (engine.c).      *)
(***************************************************************************)
EXTENDS Integers, Sequences, SequencesExt

CONSTANTS
    Ports,
    CMD_QUEUE_DEPTH, EVT_QUEUE_DEPTH,
    Levels, DimLevel, \* settings of the lights: brightness, and what they dim to
    Chassis,          \* what the chassis light can show
    Holds,            \* what a held button fills of the chain
    Budgets,
    HOLD,             \* passes for BUS_CAP_HOLD_MS
    Scenes,           \* what moves around the loop, and who calls in, in one behaviour
    Crosses,          \* a switch and what core 1 reports of the port may cross
    Repeats           \* the brightness may be set again before the loop has seen it change

ASSUME MainLoopAssumption ==
    /\ CMD_QUEUE_DEPTH \in Nat \ {0} /\ EVT_QUEUE_DEPTH \in Nat \ {0} /\ HOLD \in Nat \ {0}
    /\ Levels \subseteq 0..255 /\ DimLevel \in 0..255 /\ Levels # {}
    /\ 0 \in Holds /\ Budgets # {} /\ {Crosses, Repeats} \subseteq BOOLEAN
    /\ {"none", "other"} \cap Ports = {}

VARIABLES
    at,     \* the statement of main() that is next
    cmd_q,
    evt_q,  \* the port of each AUTO_OFF event; every other event is "other"
    engine, \* core 1: what its commands have set, and what it ran its first pass with;
            \* history, untold: the ports it switched off with no room to report it
    conf,   \* g_settings: brightness, budget, ports noted off
    seen,   \* main()'s locals: led_flags_sent, led_level_sent, led_base_seen, hold_sent, evt
    cap,    \* bus_cap.c: on, first, held; history: on since power-up
    world   \* what is read: the bus, the chassis, dimming, the button; the scene

main_vars == <<at, cmd_q, evt_q, engine, conf, seen, cap, world>>

\* The bus: no reading, under BUS_CAP_ON_MV, under BUS_CAP_OFF_MV, or fine.
Bus == {"none", "sagging", "between", "fine"}

------------------------------------------------------------------------------
(* The queues *)

Cmd(op, arg) == [op |-> op, arg |-> arg]

ipc_cmd_push(q, c) == IF Len(q) < CMD_QUEUE_DEPTH THEN Append(q, c) ELSE q
Takes(q) == Len(q) < CMD_QUEUE_DEPTH

ipc_evt_push(q, e) == IF Len(q) < EVT_QUEUE_DEPTH THEN Append(q, e) ELSE q

\* An AUTO_OFF event of p is in the queue, or taken and not yet looked at.
Reported(p) == seen.evt = p \/ \E i \in DOMAIN evt_q : evt_q[i] = p

\* What core 1 will have of an operation once it has taken the queue.
Reaches(op) ==
    LET c == SelectSeq(cmd_q, LAMBDA x : x.op = op)
    IN  IF c = <<>> THEN engine[op] ELSE Last(c).arg

\* dispatch_cmd(): every command sets one thing, but what is asked of a port.
Dispatched(e, c) ==
    IF c.op = "ask" THEN e
    ELSE IF c.op = "port"
      THEN [e EXCEPT !.on = IF c.arg.on THEN @ \cup {c.arg.p} ELSE @ \ {c.arg.p},
                     !.untold = @ \ {c.arg.p}]
    ELSE [e EXCEPT ![c.op] = c.arg]

------------------------------------------------------------------------------
(* Core 1 *)

\* A pass: the commands first, then the ports; the first that touches one is
\* remembered with its ceiling.  Something may have happened that is reported,
\* and a port may have switched itself off: its event goes the same way, and
\* emit() does not look whether the queue took it.
EnginePass ==
    /\ engine.up
    /\ LET e == FoldLeft(Dispatched, engine, cmd_q)
       IN  /\ cmd_q' = <<>>
           /\ \E p \in e.on \cup {"none"}, q \in {evt_q, ipc_evt_push(evt_q, "other")} :
                LET lost == p # "none" /\ Len(q) >= EVT_QUEUE_DEPTH
                IN  /\ evt_q' = IF p = "none" THEN q ELSE ipc_evt_push(q, p)
                    /\ engine' = [e EXCEPT !.on = @ \ {p},
                                           !.untold = IF lost THEN @ \cup {p} ELSE @,
                                           !.first = IF @ = {} THEN {e.ceiling} ELSE @]
    /\ UNCHANGED <<at, conf, seen, cap, world>>

------------------------------------------------------------------------------
(* The cap on the power of the ports: bus_cap_poll() *)

PolledCap(bus) ==
    IF bus = "none" THEN cap
    ELSE IF ~cap.on
      THEN [cap EXCEPT !.first = FALSE, !.held = 0,
                       !.on = bus = "sagging" \/ (bus = "between" /\ cap.first),
                       !.boot = at = "power_up" /\ bus \in {"sagging", "between"}]
    ELSE IF bus # "fine" THEN [cap EXCEPT !.held = 0]
    ELSE IF cap.held = HOLD THEN [cap EXCEPT !.on = FALSE, !.boot = FALSE, !.held = 0]
    ELSE [cap EXCEPT !.held = @ + 1]

\* A change of the cap is sent once, whether or not the queue takes it.
bus_cap_poll(next) ==
    LET new == PolledCap(world.bus)
    IN  /\ cap' = new
        /\ cmd_q' = IF new.on = cap.on THEN cmd_q ELSE ipc_cmd_push(cmd_q, Cmd("ceiling", new.on))
        /\ at' = next /\ UNCHANGED <<evt_q, engine, conf, seen, world>>

\* Before core 1 is launched.
PowerUpCap == at = "power_up" /\ bus_cap_poll("launch")

\* Mutant: core 1 is launched before the bus has been read.
LaunchCore1_first ==
    /\ at \in {"power_up", "launch"} /\ at' = IF at = "launch" THEN "cap" ELSE at
    /\ engine' = [engine EXCEPT !.up = TRUE, !.level = conf.level, !.budget = conf.budget]
    /\ seen' = [seen EXCEPT !.level = conf.level, !.base = conf.level]
    /\ UNCHANGED <<cmd_q, evt_q, conf, cap, world>>

\* multicore_launch_core1(): the lights start with the setting.
LaunchCore1 ==
    /\ at = "launch" /\ at' = "cap"
    /\ engine' = [engine EXCEPT !.up = TRUE, !.level = conf.level, !.budget = conf.budget]
    /\ seen' = [seen EXCEPT !.level = conf.level, !.base = conf.level]
    /\ UNCHANGED <<cmd_q, evt_q, conf, cap, world>>

Cap == at = "cap" /\ bus_cap_poll("flags")

------------------------------------------------------------------------------
(* The lights *)

\* What has changed is sent, and is sent again while the queue is full.
Sends(op, arg, changed) ==
    /\ cmd_q' = IF changed THEN ipc_cmd_push(cmd_q, Cmd(op, arg)) ELSE cmd_q
    /\ UNCHANGED <<evt_q, engine, conf, cap, world>>

SendFlags ==
    LET changed == world.flags # seen.flags
    IN  /\ at = "flags" /\ at' = "level" /\ Sends("flags", world.flags, changed)
        /\ seen' = [seen EXCEPT !.flags = IF changed /\ Takes(cmd_q) THEN world.flags ELSE @]

led_sched_level == IF world.dimmed THEN DimLevel ELSE conf.level

\* The level that was sent is noted, then the setting it was sent for.
SendLevel ==
    LET changed == led_sched_level # seen.level \/ conf.level # seen.base
    IN  /\ at = "level" /\ Sends("level", led_sched_level, changed)
        /\ seen' = [seen EXCEPT !.level = IF changed /\ Takes(cmd_q) THEN led_sched_level ELSE @]
        /\ at' = IF changed /\ Takes(cmd_q) THEN "sent" ELSE "button"

NoteBase ==
    /\ at = "sent" /\ at' = "button" /\ seen' = [seen EXCEPT !.base = conf.level]
    /\ UNCHANGED <<cmd_q, evt_q, engine, conf, cap, world>>

SendHold ==
    LET changed == world.hold # seen.hold
    IN  /\ at = "button" /\ at' = "events" /\ Sends("hold", world.hold, changed)
        /\ seen' = [seen EXCEPT !.hold = IF changed /\ Takes(cmd_q) THEN world.hold ELSE @]

------------------------------------------------------------------------------
(* The events *)

\* settings_port_admin_note()
Noted(p, on) == [conf EXCEPT !.off = IF on THEN @ \ {p} ELSE @ \cup {p}]

\* ipc_evt_pop(), until there is none.
PopEvent ==
    /\ at = "events"
    /\ IF evt_q = <<>> THEN at' = "cap" /\ UNCHANGED <<evt_q, seen>>
       ELSE at' = "taken" /\ evt_q' = Tail(evt_q) /\ seen' = [seen EXCEPT !.evt = Head(evt_q)]
    /\ UNCHANGED <<cmd_q, engine, conf, cap, world>>

\* A port that switched itself off is noted off.
NoteEvent ==
    /\ at = "taken" /\ at' = "events" /\ seen' = [seen EXCEPT !.evt = "none"]
    /\ conf' = IF seen.evt = "other" THEN conf ELSE Noted(seen.evt, FALSE)
    /\ UNCHANGED <<cmd_q, evt_q, engine, cap, world>>

------------------------------------------------------------------------------
(* The surfaces *)

\* A callback, which may come between any two statements; the console is a
\* statement of the loop, and is allowed the same.
Interrupts == at \notin {"power_up", "launch"} /\ UNCHANGED <<at, evt_q, engine, seen, cap, world>>

\* Mutant: a port is noted whatever became of its command.
SwitchPort_notes ==
    \E p \in Ports, on \in BOOLEAN :
       /\ "port" \in world.scene /\ (Crosses \/ ~Reported(p))
       /\ cmd_q' = ipc_cmd_push(cmd_q, Cmd("port", [p |-> p, on |-> on]))
       /\ conf' = Noted(p, on)

\* A port is noted once its command is queued.
SwitchPort ==
    \E p \in Ports, on \in BOOLEAN :
       /\ "port" \in world.scene /\ (Crosses \/ ~Reported(p))
       /\ cmd_q' = ipc_cmd_push(cmd_q, Cmd("port", [p |-> p, on |-> on]))
       /\ conf' = IF Takes(cmd_q) THEN Noted(p, on) ELSE conf

\* A reset, the capabilities or an update of a blade: asked once, noted nowhere.
AskPort ==
    /\ "ask" \in world.scene /\ UNCHANGED conf
    /\ \E p \in Ports : cmd_q' = ipc_cmd_push(cmd_q, Cmd("ask", p))

\* What a surface may set.  The budget stands for whatever is set and sent once:
\* the budget, the limit and the voltage of a port, the mode of the fan.
BudgetsSet == IF "budget" \in world.scene THEN Budgets ELSE {}
LevelsSet ==
    IF "bright" \notin world.scene \/ (at = "sent" /\ "sent" \notin world.scene) THEN {}
    ELSE {b \in Levels : Repeats \/ (b # conf.level /\ conf.level = seen.base)}

\* Set, and sent once, whether or not the queue takes it.
SetAnyway ==
    \/ \E w \in BudgetsSet :
          conf' = [conf EXCEPT !.budget = w] /\ cmd_q' = ipc_cmd_push(cmd_q, Cmd("budget", w))
    \/ \E b \in LevelsSet :
          conf' = [conf EXCEPT !.level = b] /\ cmd_q' = ipc_cmd_push(cmd_q, Cmd("level", b))

\* handle_request(), its POSTs: the setting changes only once the engine has
\* the command.
SetBudget ==
    \E w \in BudgetsSet :
       /\ Takes(cmd_q) /\ conf' = [conf EXCEPT !.budget = w]
       /\ cmd_q' = ipc_cmd_push(cmd_q, Cmd("budget", w))
ApiPost == Interrupts /\ (SwitchPort \/ AskPort \/ SetBudget)

\* A message of the broker.  What it sets and core 1 reads for itself is left
\* out, and so is the update of the controller (Update).
handle_command == Interrupts /\ (SwitchPort \/ AskPort \/ SetAnyway)

\* A line at the console: what it does to a port, the budget, the fan, a light.
run_line == Interrupts /\ (SwitchPort \/ AskPort \/ SetAnyway)

\* The settings page: what has changed is sent, in this order.
settings_post ==
    /\ Interrupts
    /\ \E w \in BudgetsSet \cup {conf.budget}, b \in LevelsSet \cup {conf.level} :
          LET q == IF w = conf.budget THEN cmd_q ELSE ipc_cmd_push(cmd_q, Cmd("budget", w))
          IN  /\ conf' = [conf EXCEPT !.budget = w, !.level = b]
              /\ cmd_q' = IF b = conf.level THEN q ELSE ipc_cmd_push(q, Cmd("level", b))

------------------------------------------------------------------------------
(* What the loop reads *)

WorldMoves ==
    /\ at = "cap"
    /\ \E m \in world.scene :
         \/ m = "bus" /\ \E b \in Bus \ {world.bus} : world' = [world EXCEPT !.bus = b]
         \/ m = "flags" /\ \E f \in Chassis \ {world.flags} : world' = [world EXCEPT !.flags = f]
         \/ m = "dim" /\ world' = [world EXCEPT !.dimmed = ~@]
         \/ m = "hold" /\ \E h \in Holds \ {world.hold} : world' = [world EXCEPT !.hold = h]
    /\ UNCHANGED <<at, cmd_q, evt_q, engine, conf, seen, cap>>

MainInit ==
    /\ at = "power_up" /\ cmd_q = <<>> /\ evt_q = <<>>
    /\ \E b \in Levels, w \in Budgets, f \in Chassis, bus \in Bus, scene \in Scenes :
         /\ conf = [level |-> b, budget |-> w, off |-> {}]
         /\ engine = [up |-> FALSE, ceiling |-> FALSE, flags |-> f, level |-> b, hold |-> 0,
                      budget |-> w, on |-> Ports, untold |-> {}, first |-> {}]
         /\ seen = [flags |-> f, level |-> b, base |-> b, hold |-> 0, evt |-> "none"]
         /\ world = [bus |-> bus, flags |-> f, dimmed |-> FALSE, hold |-> 0,
                     scene |-> scene]
    /\ cap = [on |-> FALSE, first |-> TRUE, held |-> 0, boot |-> FALSE]

MainStep ==
    \/ PowerUpCap \/ LaunchCore1
    \/ Cap \/ SendFlags \/ SendLevel \/ NoteBase \/ SendHold \/ PopEvent \/ NoteEvent
Surface == ApiPost \/ handle_command \/ run_line \/ settings_post

MainNext == MainStep \/ EnginePass \/ Surface \/ WorldMoves

MainSpec == MainInit /\ [][MainNext]_main_vars

------------------------------------------------------------------------------
(* Properties *)

\* The variables keep their types; the bounds of the queues hold.
MainTypeOK ==
    /\ at \in {"power_up", "launch", "cap", "flags", "level", "sent", "button", "events",
              "taken"}
    /\ Len(cmd_q) <= CMD_QUEUE_DEPTH /\ Len(evt_q) <= EVT_QUEUE_DEPTH
    /\ engine.on \cup engine.untold \cup conf.off \subseteq Ports /\ {conf.level, seen.base} \subseteq Levels
    /\ {engine.level, seen.level} \subseteq Levels \cup {DimLevel}
    /\ {engine.budget, conf.budget} \subseteq Budgets /\ cap.held \in 0..HOLD

\* Whatever the queue refused: what core 1 has, once the queue is taken, is
\* what the loop believes it has sent.
EngineFollows ==
    /\ Reaches("flags") = seen.flags /\ Reaches("hold") = seen.hold
    /\ (at # "sent" /\ seen.base = conf.level) => Reaches("level") = seen.level

\* A chassis that powers up on a sagging bus touches its first port under
\* the cap.
CapBeforePorts == cap.boot /\ engine.first # {} => engine.first = {TRUE}

\* The cap that core 1 has, once the queue is taken, is the cap there is
\* (what health.c tells: ports capped at 60 W).
CapFollows == at # "power_up" => Reaches("ceiling") = cap.on

\* What is stored of p for the "last" boot policy is what core 1 will have,
\* once the queues are taken.
Agrees(p, e) == Reported(p) \/ (p \in conf.off <=> p \notin e.on)

\* A port is noted off exactly when core 1 has it off, also when the queues
\* are full.  Only of a port whose AUTO_OFF event was refused the loop knows
\* nothing, and of that one no longer than until it is switched again.
AdminFollows ==
    LET e == FoldLeft(Dispatched, engine, cmd_q)
    IN  \A p \in Ports \ e.untold : Agrees(p, e)

\* What the comment at emit() says: "dropped events only cost visibility".
\* Then what is stored would follow whatever the queue of events refuses.
OnlyVisibility ==
    LET e == FoldLeft(Dispatched, engine, cmd_q) IN \A p \in Ports : Agrees(p, e)
================================================================================
