------------------------------- MODULE PortFsm --------------------------------
(***************************************************************************)
(* The port state machine of the controller (engine/port_fsm.c): one state *)
(* machine per slot, run on core 1, which owns the slot's enable line, its *)
(* power reservation and everything that is written to its blade.          *)
(*                                                                         *)
(* Several helpers of the C file run one after the other inside a tick and *)
(* change several ports.  Each is an operator from a world to a world, a   *)
(* record of the state the state machine writes (Now); an action picks the *)
(* helper's path and puts the result in place (Becomes).                   *)
(*                                                                         *)
(* Abstractions.  Time: a deadline that has been set may or may not have   *)
(* passed when it is next read, and once seen to have passed it has; the   *)
(* boot slots keep their order (hour).  Power is in units of the model.    *)
(* Temperatures, event texts, telemetry and the object a contract names    *)
(* are left out; so are the two commands that only pass a PD message on    *)
(* (CMD_PORT_HARD_RESET, CMD_PORT_SRC_CAP).                                *)
(***************************************************************************)
EXTENDS Budget, FiniteSets

CONSTANTS
    Prio,                  \* g_settings.port_priority, 0 = highest
    MaxW,                  \* the most any setting or device asks for
    PROBE_MAX_ATTEMPTS, UPDATE_ROUNDS_MAX, SILENT_POLLS_MAX,
    PORT_LIMIT_MIN_W, UNTHROTTLE_STEP_MIN,
    Found,                 \* what blade_detect() may find in a slot
    Identities,            \* what a gen-3 blade may say of its firmware
    ChargeRules,           \* "done", "resumed", "off": charge_track() outcomes
    Flaky                  \* what may go wrong: "mux", "write", "command",
                           \* "expander", "silent", "fault", "flip"

None == -1
Powered == {"IDLE", "ACTIVE", "THROTTLED"}
States == Powered \cup {"ABSENT", "PROBE", "FAULT", "DISABLED", "UPDATE"}
Generations == {"NONE", "GEN_2", "GEN_3", "LOADER"}
Wants == {"rewrite", "boot_opt"}
Identity == [ok : BOOLEAN, cmds : BOOLEAN, due : SUBSET Wants]
UnreadId == [ok |-> FALSE, cmds |-> FALSE, due |-> {}]
NoStatus == [attached |-> FALSE, contract |-> 0]
NoOffer == [w |-> 0, v |-> 0]

ASSUME FsmAssumption ==
    /\ Prio \in [Ports -> Nat]
    /\ MaxW \in Nat /\ BASE_RESERVE <= MaxW
    /\ PROBE_MAX_ATTEMPTS \in Nat \ {0}
    /\ UPDATE_ROUNDS_MAX \in Nat \ {0}
    /\ SILENT_POLLS_MAX \in Nat \ {0}
    /\ PORT_LIMIT_MIN_W \in 1..BASE_RESERVE
    /\ UNTHROTTLE_STEP_MIN \in Nat \ {0}
    /\ Found \subseteq Generations
    /\ Identities \subseteq Identity

VARIABLES
    ctx,           \* port_ctx_t of each port
    reserved,      \* budget.c's reservations
    en,            \* the expander's enable outputs, as its driver caches them
    mux,           \* the downstream channel the multiplexer has open
    loader_port,   \* whose bootloader the controller is talking to, or None
    total, ceiling_w, hold_updates, port_limit_w, port_max_w, \* told by core 0
    hour,          \* how many of the boot slots have come
    offer,         \* what the blade in each slot is programmed to offer
    sink           \* the contract of the device plugged into it, 0 = nothing

settings == <<total, ceiling_w, hold_updates, port_limit_w, port_max_w>>
fsm_vars == <<ctx, reserved, en, mux, loader_port, offer, sink>>

PortCtx ==
    [state : States, gen : Generations, admin : BOOLEAN, warm : BOOLEAN,
     attempts : Nat, polls : Nat,
     silent : BOOLEAN, id : Identity, slot : Nat, en_on : BOOLEAN,
     cooling : BOOLEAN, switching : BOOLEAN, grace : BOOLEAN,
     rounds : 0..UPDATE_ROUNDS_MAX, rewrite : BOOLEAN, held : BOOLEAN,
     stuck : BOOLEAN, charged : BOOLEAN, contract : Nat, denied : Nat,
     granted : Nat, renegotiating : BOOLEAN, renego_from : Nat,
     st : [attached : BOOLEAN, contract : Nat]]

\* What the I2C bus does in one call of a handler: the channels it can
\* select, whether shedding gets back to the claimant's, whose limit writes
\* take, whether a command byte and an expander write are acknowledged.
BusOutcomes ==
    [reach : IF "mux" \in Flaky THEN SUBSET Ports ELSE {Ports},
     back  : IF "mux" \in Flaky THEN BOOLEAN ELSE {TRUE},
     wrote : IF "write" \in Flaky THEN SUBSET Ports ELSE {Ports},
     told  : IF "command" \in Flaky THEN BOOLEAN ELSE {TRUE},
     exp   : IF "expander" \in Flaky THEN BOOLEAN ELSE {TRUE}]

World ==
    [ctx : [Ports -> PortCtx], res : [Ports -> Nat], en : [Ports -> BOOLEAN],
     mux : Ports \cup {None}, loader : Ports \cup {None},
     offer : [Ports -> [w : Nat, v : Nat]], sink : [Ports -> Nat]]

Now == [ctx |-> ctx, res |-> reserved, en |-> en, mux |-> mux,
        loader |-> loader_port, offer |-> offer, sink |-> sink]

Becomes(s) ==
    /\ ctx' = s.ctx /\ reserved' = s.res /\ en' = s.en /\ mux' = s.mux
    /\ loader_port' = s.loader /\ offer' = s.offer /\ sink' = s.sink

Least(a, b) == IF a < b THEN a ELSE b

------------------------------------------------------------------------------
(* What blade_detect() can find: a gen-2 blade answers only once powered, a *)
(* bootloader where no application runs, and a blade that is silent or     *)
(* between two modes may not answer.                                       *)

InLoader(s, i) == "LOADER" \in Found /\ s.offer[i] = NoOffer

Answering(s, i) ==
    LET up == {g \in Found : (g = "GEN_2" => s.en[i]) /\ (g = "LOADER" => InLoader(s, i))}
        mute == "silent" \in Flaky \/ s.ctx[i].switching \/ up = {}
    IN  IF mute THEN up \cup {"NONE"} ELSE up

------------------------------------------------------------------------------
(* Limits *)

limit_for(i) ==
    IF ceiling_w # 0 /\ ceiling_w < port_limit_w[i] THEN ceiling_w ELSE port_limit_w[i]

\* port_max_w is the voltage cap as the power five amperes give under it.
offer_w(i, w) == Least(w, port_max_w[i])

\* tca9548a_select(): a failed write leaves the channel that was open.
Select(s, i, b) == IF i \in b.reach THEN [s EXCEPT !.mux = i] ELSE s

\* The limits go to whichever blade is on the open channel, and are taken
\* there if it speaks the protocol the port's own blade was found to speak.
WriteLimits(s, i, w, v, b) ==
    IF s.mux # None /\ s.ctx[s.mux].gen = s.ctx[i].gen /\ i \in b.wrote
    THEN [s EXCEPT !.offer[s.mux] = [w |-> w, v |-> v]] ELSE s

\* set_limits() keeps the moment and starts the wait for the sink's answer;
\* whether the write took is not looked at by any caller.
Renegotiate(p, readvertise) ==
    IF p.st.attached /\ readvertise
    THEN [p EXCEPT !.renegotiating = TRUE, !.renego_from = p.st.contract] ELSE p

set_limits(s, i, w, v, readvertise, b) ==
    [WriteLimits(s, i, w, v, b) EXCEPT !.ctx[i] = Renegotiate(s.ctx[i], readvertise)]

\* Mutants: a throttled port is never touched; the blade is not told.
sync_limit_skips(s, i, b) ==
    LET p == s.ctx[i] IN
    IF p.granted = limit_for(i) \/ p.state = "THROTTLED" THEN s
    ELSE [set_limits(s, i, limit_for(i), port_max_w[i], p.st.attached, b)
             EXCEPT !.ctx[i].granted = limit_for(i)]

sync_limit_notes(s, i, b) ==
    LET p == s.ctx[i] IN
    IF p.state = "THROTTLED" /\ p.granted < limit_for(i) THEN s
    ELSE [s EXCEPT !.ctx[i].granted = limit_for(i)]

sync_limit(s, i, b) ==
    LET p == s.ctx[i] IN
    IF \/ p.granted = limit_for(i)
       \/ p.state = "THROTTLED" /\ p.granted < limit_for(i)
    THEN s
    ELSE [set_limits(s, i, limit_for(i), port_max_w[i], p.st.attached, b)
             EXCEPT !.ctx[i].granted = limit_for(i)]

------------------------------------------------------------------------------
(* State changes *)

\* Mutant: the bootloader conversation is not handed on.
enter_keeps(s, i, next) == [s EXCEPT !.ctx[i].state = next]

enter(s, i, next) ==
    [s EXCEPT !.ctx[i].state = next,
              !.loader = IF s.loader = i /\ s.ctx[i].state # next THEN None ELSE s.loader]

\* tca9539_set_en(i, false): the port is dark once the expander takes it.
EnOff(s, i, b) ==
    IF b.exp THEN [s EXCEPT !.en[i] = FALSE, !.sink[i] = 0] ELSE s

\* The blade's application is gone, into its bootloader or out of the slot.
BladeDown(s, i) == [s EXCEPT !.offer[i] = NoOffer, !.sink[i] = 0]

Unpowered(p, next) ==
    IF next = "ABSENT"
    THEN [p EXCEPT !.contract = 0, !.silent = FALSE, !.st = NoStatus,
                   !.gen = "NONE", !.id = UnreadId, !.rounds = 0,
                   !.rewrite = FALSE, !.stuck = FALSE, !.held = FALSE]
    ELSE [p EXCEPT !.contract = 0, !.silent = FALSE, !.st = NoStatus]

\* Mutants: the reservation is kept; the enable line is.
power_down_holds(s, i, next, b) ==
    enter([EnOff(s, i, b) EXCEPT !.ctx[i] = Unpowered(s.ctx[i], next)], i, next)

power_down_lit(s, i, next, b) ==
    enter([s EXCEPT !.res[i] = 0, !.ctx[i] = Unpowered(s.ctx[i], next)], i, next)

power_down(s, i, next, b) ==
    enter([EnOff(s, i, b) EXCEPT !.res[i] = 0, !.ctx[i] = Unpowered(s.ctx[i], next)],
          i, next)

fault(s, i, b) ==
    [power_down(s, i, "FAULT", b) EXCEPT !.ctx[i].cooling = TRUE]

Fresh(p) ==
    [p EXCEPT !.attempts = 0, !.polls = 0, !.silent = FALSE, !.gen = "NONE",
              !.id = UnreadId, !.slot = 0, !.en_on = FALSE, !.denied = 0]

start_probe(s, i) == enter([s EXCEPT !.ctx[i] = Fresh(s.ctx[i])], i, "PROBE")

\* Either probe counts nothing while the blade may be between two modes.
Between(p, late) == p.switching /\ ~late

probe_failed(s, i, late, b) ==
    LET p == [s.ctx[i] EXCEPT !.switching = FALSE, !.attempts = @ + 1] IN
    CASE Between(s.ctx[i], late) -> s
      [] ~Between(s.ctx[i], late) /\ p.attempts < PROBE_MAX_ATTEMPTS ->
           [s EXCEPT !.ctx[i] = p]
      [] OTHER -> fault([s EXCEPT !.ctx[i] = [p EXCEPT !.warm = FALSE]], i, b)

warm_probe_failed(s, i, late) ==
    LET p == [s.ctx[i] EXCEPT !.switching = FALSE, !.attempts = @ + 1] IN
    CASE Between(s.ctx[i], late) -> s
      [] ~Between(s.ctx[i], late) /\ s.ctx[i].silent ->
           [s EXCEPT !.ctx[i].switching = FALSE]
      [] ~Between(s.ctx[i], late) /\ ~s.ctx[i].silent /\ p.attempts < PROBE_MAX_ATTEMPTS ->
           [s EXCEPT !.ctx[i] = p]
      [] OTHER -> [s EXCEPT !.ctx[i] = [p EXCEPT !.silent = TRUE],
                            !.res[i] = BASE_RESERVE]

go_idle(s, i) == enter(s, i, "IDLE")

attach_begin(s, i) ==
    [s EXCEPT !.ctx[i].renegotiating = FALSE, !.ctx[i].charged = FALSE]

switch_off(s, i, b) == power_down(s, i, "DISABLED", b)

auto_off(s, i, b) == switch_off([s EXCEPT !.ctx[i].admin = FALSE], i, b)

------------------------------------------------------------------------------
(* Bootloader trips *)

\* Mutants: the rounds are not counted; one round too many is made.
begin_update_free(s, i, b) ==
    enter([BladeDown(EnOff(s, i, b), i) EXCEPT
              !.ctx[i] = [@ EXCEPT !.warm = FALSE, !.silent = FALSE, !.rewrite = FALSE]],
          i, "UPDATE")

begin_update_again(s, i, b) ==
    enter([BladeDown(EnOff(s, i, b), i) EXCEPT
              !.ctx[i] = [@ EXCEPT !.warm = FALSE, !.silent = FALSE, !.rewrite = FALSE,
                                   !.rounds = @ + 1]],
          i, "UPDATE")

begin_update(s, i, b) ==
    LET p == [s.ctx[i] EXCEPT !.warm = FALSE, !.silent = FALSE]
        dark == BladeDown(EnOff(s, i, b), i)
    IN  IF p.rounds >= UPDATE_ROUNDS_MAX
        THEN fault([dark EXCEPT !.ctx[i] = [p EXCEPT !.held = TRUE]], i, b)
        ELSE enter([dark EXCEPT !.ctx[i] =
                      [p EXCEPT !.rounds = @ + 1, !.rewrite = FALSE]], i, "UPDATE")

\* The image and the boot option the blade's own words at the probe say are
\* not as wanted; nothing but an ordered rewrite while updates are held.
blade_wants(p) ==
    IF p.gen # "GEN_3" \/ ~p.id.cmds THEN {}
    ELSE {w \in Wants : \/ w = "rewrite" /\ p.rewrite
                        \/ ~hold_updates /\ ~p.stuck /\ w \in p.id.due}

\* send_to_loader() sends when this holds, gives up when the rounds are
\* spent, and else leaves the port as it is.
Sends(s, i, b) ==
    blade_wants(s.ctx[i]) # {} /\ s.ctx[i].rounds < UPDATE_ROUNDS_MAX /\ b.told

\* The command goes to the blade on the open channel.
Reboots(s, i) == IF s.mux = None THEN s ELSE BladeDown(s, s.mux)

Released(p) == [p EXCEPT !.contract = 0, !.st = NoStatus]

send_to_loader(s, i, b) ==
    LET p == s.ctx[i]
        boot_opt == "boot_opt" \in blade_wants(p)
        sent == [Released(p) EXCEPT !.rounds = IF boot_opt THEN @ + 1 ELSE @]
    IN  CASE Sends(s, i, b) ->
               [start_probe([Reboots(s, i) EXCEPT !.res[i] = 0, !.ctx[i] = sent], i)
                   EXCEPT !.ctx[i].switching = TRUE]
          [] blade_wants(p) # {} /\ p.rounds >= UPDATE_ROUNDS_MAX ->
               [s EXCEPT !.ctx[i] = [p EXCEPT !.stuck = TRUE, !.rewrite = FALSE, !.rounds = 0]]
          [] OTHER -> s

------------------------------------------------------------------------------
(* Sharing the budget *)

\* The limit apply_throttle() programs for a grant.
ThrottleLimit(i, grant) ==
    Least(IF grant < PORT_LIMIT_MIN_W THEN PORT_LIMIT_MIN_W ELSE grant, limit_for(i))

ThrottledCtx(p, i, grant, want) ==
    [Renegotiate(p, TRUE) EXCEPT
        !.granted = ThrottleLimit(i, grant), !.contract = grant,
        !.denied = IF want > @ THEN want ELSE @, !.state = "THROTTLED"]

apply_throttle(s, i, grant, want, b) ==
    [WriteLimits(s, i, ThrottleLimit(i, grant), port_max_w[i], b) EXCEPT
        !.ctx[i] = ThrottledCtx(s.ctx[i], i, grant, want), !.res[i] = grant]

throttle(s, i, want, b) ==
    LET room == budget_headroom(s.res, total) + s.res[i]
        floor == IF room < BASE_RESERVE THEN BASE_RESERVE ELSE room
    IN  apply_throttle(s, i, Least(floor, want), want, b)

\* shed_lower_priority() picks the worst priority first, then the biggest
\* reservation, then the lowest slot; picking one changes nothing about the
\* others, so the order is fixed before the loop starts.
\* Mutant: peers and betters are shed as well.
Victims_any(s, i) ==
    {j \in Ports \ {i} : /\ s.ctx[j].state \in {"ACTIVE", "THROTTLED"}
                         /\ ~s.ctx[j].silent
                         /\ s.res[j] > BASE_RESERVE}

Victims(s, i) ==
    {j \in Ports \ {i} : /\ s.ctx[j].state \in {"ACTIVE", "THROTTLED"}
                         /\ ~s.ctx[j].silent
                         /\ Prio[j] > Prio[i]
                         /\ s.res[j] > BASE_RESERVE}

Before(s, u, v) ==
    \/ Prio[u] > Prio[v]
    \/ Prio[u] = Prio[v] /\ s.res[u] > s.res[v]
    \/ Prio[u] = Prio[v] /\ s.res[u] = s.res[v] /\ u < v

Shortfall(s, i, want) == (budget_reserved(s.res) - s.res[i]) + want - total

\* What is taken from v: its watts above the base, as far as those picked
\* before it have not made up the shortfall.
Reclaim(s, i, want, V, v) ==
    LET earlier == OverSlots([u \in Ports |->
                      IF u \in V /\ Before(s, u, v) THEN s.res[u] - BASE_RESERVE ELSE 0])
        open == Shortfall(s, i, want) - earlier
    IN  IF v \notin V \/ open <= 0 THEN 0 ELSE Least(s.res[v] - BASE_RESERVE, open)

shed_lower_priority(s, i, want, b) ==
    LET V == Victims(s, i) \cap b.reach
        take == [v \in Ports |-> Reclaim(s, i, want, V, v)]
        hit == {v \in Ports : take[v] > 0}
        last == {v \in hit : \A u \in hit \ {v} : Before(s, u, v)}
        grant == [v \in Ports |-> s.res[v] - take[v]]
    IN  [s EXCEPT
           !.ctx = [v \in Ports |->
                      IF v \in hit
                      THEN ThrottledCtx(s.ctx[v], v, grant[v], s.ctx[v].contract)
                      ELSE s.ctx[v]],
           !.res = grant,
           !.offer = [v \in Ports |->
                        IF v \in hit /\ v \in b.wrote
                        THEN [w |-> ThrottleLimit(v, grant[v]), v |-> port_max_w[v]]
                        ELSE s.offer[v]],
           !.mux = IF last = {} \/ b.back THEN s.mux ELSE CHOOSE v \in last : TRUE]

track_contract(s, i, late, b) ==
    LET p == s.ctx[i]
        want == IF p.st.contract < BASE_RESERVE THEN BASE_RESERVE ELSE p.st.contract
        heard == [s EXCEPT !.ctx[i].renegotiating = FALSE]
        shed == IF budget_fits(s.res, total, i, want) THEN heard
                ELSE shed_lower_priority(heard, i, want, b)
    IN  CASE p.renegotiating /\ p.st.contract = p.renego_from /\ ~late -> s
          [] ~(p.renegotiating /\ p.st.contract = p.renego_from /\ ~late)
             /\ want = p.contract -> heard
          [] OTHER ->
               IF budget_fits(shed.res, total, i, want)
               THEN [shed EXCEPT !.res[i] = want, !.ctx[i].contract = want]
               ELSE throttle(shed, i, want, b)

\* Mutants: no regard for priority; a port that yields to itself.
recovery_first_come(s, i) ==
    \E j \in Ports :
        s.ctx[j].warm \/ (s.ctx[j].state = "IDLE" /\ s.ctx[j].st.attached)

recovery_yields_to_peers(s, i) ==
    \E j \in Ports :
        \/ s.ctx[j].warm
        \/ s.ctx[j].state = "IDLE" /\ s.ctx[j].st.attached
        \/ /\ s.ctx[j].state = "THROTTLED" /\ Prio[j] <= Prio[i]
           /\ s.ctx[j].denied > s.res[j]

recovery_should_yield(s, i) ==
    \E j \in Ports :
        \/ s.ctx[j].warm
        \/ s.ctx[j].state = "IDLE" /\ s.ctx[j].st.attached
        \/ /\ j # i /\ s.ctx[j].state = "THROTTLED"
           /\ Prio[j] < Prio[i]
           /\ s.ctx[j].denied > s.res[j]

unthrottle(s, i, b) ==
    enter(IF s.ctx[i].granted = limit_for(i) THEN s
          ELSE [set_limits(s, i, limit_for(i), port_max_w[i], TRUE, b)
                  EXCEPT !.ctx[i].granted = limit_for(i)],
          i, "ACTIVE")

\* Mutant: any headroom restores the whole ask.
Recover_whole(s, i, due, b) ==
    LET p == s.ctx[i] IN
    IF /\ p.state = "THROTTLED" /\ p.denied > s.res[i] /\ ~recovery_should_yield(s, i)
       /\ budget_headroom(s.res, total) > 0
    THEN unthrottle([s EXCEPT !.res[i] = p.denied, !.ctx[i].contract = p.denied,
                              !.ctx[i].denied = 0], i, b)
    ELSE s

\* The end of a throttled port's tick: all of what it was refused, or a step
\* towards it once the holdoff is over (a step the chassis ceiling turns
\* into the limit it already has is skipped).
Recover(s, i, due, b) ==
    LET p == s.ctx[i]
        need == p.denied - s.res[i]
        room == budget_headroom(s.res, total)
        open == p.state = "THROTTLED" /\ need > 0 /\ ~recovery_should_yield(s, i)
    IN  CASE open /\ room >= need ->
               unthrottle([s EXCEPT !.res[i] = p.denied, !.ctx[i].contract = p.denied,
                                    !.ctx[i].denied = 0], i, b)
          [] /\ open /\ room < need /\ room >= UNTHROTTLE_STEP_MIN /\ due
             /\ ThrottleLimit(i, s.res[i] + room) > p.granted ->
               apply_throttle(s, i, s.res[i] + room, p.denied, b)
          [] OTHER -> s

------------------------------------------------------------------------------
(* One port's tick in a powered state *)

\* What the passing of time brings to a tick: the wait for a renegotiation
\* or a mode change is over (late), the charged and sleep rules, and every
\* other deadline of the port's state has passed (due).
Waiting(p) == p.renegotiating \/ p.switching

Chances(p) == [late : IF Waiting(p) THEN BOOLEAN ELSE {FALSE},
               charge : {"same"} \cup ChargeRules, due : BOOLEAN]

charge_track(s, i, charge, b) ==
    CASE charge = "done" -> [s EXCEPT !.ctx[i].charged = TRUE]
      [] charge = "resumed" -> [s EXCEPT !.ctx[i].charged = FALSE]
      [] charge = "off" -> auto_off(s, i, b)
      [] OTHER -> s

ServeIdle(s, i, c, b) ==
    LET t == sync_limit(s, i, b) IN
    IF t.ctx[i].st.attached
    THEN track_contract(enter(attach_begin(t, i), i, "ACTIVE"), i, FALSE, b)
    ELSE IF c.due THEN send_to_loader(t, i, b) ELSE t

\* Mutant: the contract outlives the device.
Detached_stale(s, i) == [s EXCEPT !.res[i] = BASE_RESERVE, !.ctx[i].denied = 0]

Detached(s, i) ==
    [s EXCEPT !.res[i] = BASE_RESERVE, !.ctx[i].contract = 0, !.ctx[i].denied = 0]

ServeAttached(s, i, c, b) ==
    LET l == sync_limit(s, i, b)
        late == c.late /\ l.ctx[i].granted = s.ctx[i].granted  \* not a wait just begun
        t == track_contract(l, i, late, b)
        u == charge_track(t, i, c.charge, b)
        asked == u.ctx[i].charged
    IN  CASE c.charge = "off" -> u
          [] c.charge # "off" /\ asked /\ Sends(u, i, b) -> send_to_loader(u, i, b)
          [] OTHER -> Recover(IF asked THEN send_to_loader(u, i, b) ELSE u, i, c.due, b)

\* The rest of a tick once the poll has let it go on.
Serve(s, i, c, b) ==
    IF s.ctx[i].state = "IDLE" THEN ServeIdle(s, i, c, b)
    ELSE IF s.ctx[i].st.attached THEN ServeAttached(s, i, c, b)
         ELSE go_idle(sync_limit(Detached(s, i), i, b), i)

\* A blade back from a silence is adopted first: its limits are written if
\* they are not what the port should have.
Heard(s, i) ==
    [s EXCEPT !.ctx[i].st = [attached |-> s.sink[i] # 0, contract |-> s.sink[i]],
              !.ctx[i].polls = 0, !.ctx[i].silent = FALSE]

Readopted(s, i) ==
    IF ~s.ctx[i].silent THEN s
    ELSE [s EXCEPT !.offer[i] = [w |-> s.ctx[i].granted, v |-> port_max_w[i]]]

\* What a silent blade should have is put within its limit before it is asked.
Recheck(s, i) ==
    IF s.ctx[i].silent /\ s.ctx[i].granted > limit_for(i)
    THEN [s EXCEPT !.ctx[i].granted = limit_for(i)] ELSE s

\* A gen-3 blade that restarted has no limits and says so.
Unconfigured(s, i) == s.ctx[i].gen = "GEN_3" /\ s.offer[i].w = 0

Reprobed(s, i) ==
    start_probe([s EXCEPT !.res[i] = BASE_RESERVE, !.ctx[i].contract = 0], i)

\* Mutant: silence takes the port down.
blade_silent_cuts(s, i, loader, c, b) ==
    [EnOff(s, i, b) EXCEPT !.ctx[i].silent = TRUE]

\* blade_silent(): the first misses are let pass, then the bootloader is
\* looked for, then the port is left as it is.
blade_silent(s, i, loader, c, b) ==
    LET p == s.ctx[i] IN
    CASE ~p.silent /\ p.polls + 1 < SILENT_POLLS_MAX ->
           Serve([s EXCEPT !.ctx[i].polls = @ + 1], i, c, b)
      [] (p.silent \/ p.polls + 1 >= SILENT_POLLS_MAX) /\ p.gen = "GEN_3" /\ loader ->
           begin_update([s EXCEPT !.res[i] = 0, !.ctx[i] = Released(p)], i, b)
      [] OTHER -> [s EXCEPT !.ctx[i].silent = TRUE,
                            !.ctx[i].polls = IF p.silent THEN @ ELSE @ + 1]

TickPowered(i, present, c) ==
    /\ ctx[i].state \in Powered
    /\ \E b \in BusOutcomes :
         LET s == Recheck(Select(Now, i, b), i)
             asked == ~ctx[i].silent \/ c.due         \* it is looked for now
         IN
         \/ ~present /\ Becomes(power_down(Now, i, "ABSENT", b))
         \/ present /\ ~asked /\ Becomes(Now)
         \/ present /\ asked /\ i \notin b.reach
            /\ Becomes(IF ctx[i].silent THEN Now ELSE Serve(Now, i, c, b))
         \/ /\ present /\ asked /\ i \in b.reach /\ "silent" \in Flaky
            /\ \E loader \in BOOLEAN :
                 (loader => InLoader(s, i)) /\ Becomes(blade_silent(s, i, loader, c, b))
         \/ present /\ asked /\ i \in b.reach /\ "fault" \in Flaky
            /\ Becomes(fault(Heard(s, i), i, b))
         \/ present /\ asked /\ i \in b.reach
            /\ LET h == Heard(Readopted(s, i), i) IN
               Becomes(IF Unconfigured(s, i) THEN Reprobed(h, i) ELSE Serve(h, i, c, b))

------------------------------------------------------------------------------
(* The ticks of the other states *)

TickAbsent(i, present) ==
    /\ ctx[i].state = "ABSENT"
    /\ \/ ~present /\ Becomes(Now)
       \/ present /\ ~ctx[i].admin /\ Becomes(enter(Now, i, "DISABLED"))
       \/ present /\ ctx[i].admin /\ ctx[i].slot <= hour /\ Becomes(start_probe(Now, i))
       \/ present /\ ctx[i].admin /\ ctx[i].slot > hour /\ Becomes(Now)

\* A mode change just asked for is timed from this probe's clock.
Probing(i) ==
    IF ctx[i].grace
    THEN [Now EXCEPT !.ctx[i].grace = FALSE, !.ctx[i].switching = TRUE] ELSE Now

\* The rounds start over for a blade that runs what it should.
Identified(s, i, g, id) ==
    LET p == [s.ctx[i] EXCEPT !.gen = g, !.id = id] IN
    [s EXCEPT !.ctx[i] = [p EXCEPT
        !.rounds = IF id.ok /\ blade_wants(p) = {} THEN 0 ELSE @]]

ReadIds(g) == IF g = "GEN_3" THEN Identities \cup {UnreadId} ELSE {UnreadId}

Configured(s, i) ==
    go_idle([s EXCEPT !.ctx[i].granted = limit_for(i), !.res[i] = BASE_RESERVE,
                      !.offer[i] = [w |-> limit_for(i), v |-> port_max_w[i]]], i)

\* blade_detect() answered the cold probe.
ColdAnswer(s, i, late, b) ==
    \E g \in Answering(s, i), id \in ReadIds(IF "GEN_3" \in Found THEN "GEN_3" ELSE "NONE") :
        /\ g # "GEN_3" => id = UnreadId
        /\ LET k == Identified(s, i, g, id)
               l == send_to_loader(k, i, b)
           IN  \/ g = "LOADER" /\ Becomes(begin_update([s EXCEPT !.ctx[i].gen = g], i, b))
               \/ g # "LOADER" /\ Sends(k, i, b) /\ Becomes(l)
               \/ g \in {"GEN_2", "GEN_3"} /\ ~Sends(k, i, b) /\ i \in b.wrote
                  /\ Becomes(Configured(l, i))
               \/ g # "LOADER" /\ ~Sends(k, i, b) /\ (g = "NONE" \/ i \notin b.wrote)
                  /\ Becomes(probe_failed(l, i, late, b))

ColdProbe(i, c) ==
    /\ ~ctx[i].warm
    /\ \E b \in BusOutcomes :
         LET s == Probing(i)
             awake == ctx[i].en_on /\ c.due
         IN
         \/ ~ctx[i].en_on /\ ~en[i] /\ ~b.exp /\ Becomes(probe_failed(s, i, c.late, b))
         \/ ~ctx[i].en_on /\ (en[i] \/ b.exp)
            /\ Becomes([s EXCEPT !.en[i] = TRUE, !.ctx[i].en_on = TRUE])
         \/ ctx[i].en_on /\ ~c.due /\ Becomes(s)       \* the blade is waking up
         \/ awake /\ i \notin b.reach /\ Becomes(probe_failed(s, i, c.late, b))
         \/ awake /\ i \in b.reach /\ ColdAnswer(Select(s, i, b), i, c.late, b)

\* A powered blade taken under supervision.  The offer it runs with a device
\* attached is kept when it is within the settings.
Adopted(s, i) ==
    LET max == limit_for(i)
        keep == /\ s.ctx[i].gen = "GEN_3" /\ s.sink[i] # 0 /\ s.offer[i].w # 0
                /\ s.offer[i].v = port_max_w[i] /\ s.offer[i].w <= max
        w == IF keep THEN s.offer[i].w ELSE max
        p == [Heard(s, i).ctx[i] EXCEPT !.polls = s.ctx[i].polls, !.warm = FALSE, !.granted = w]
        t == [s EXCEPT !.ctx[i] = p, !.res[i] = BASE_RESERVE,
                       !.offer[i] = [w |-> w, v |-> port_max_w[i]]]
    IN  IF keep /\ w < max
        THEN enter([attach_begin(t, i) EXCEPT !.ctx[i].denied = offer_w(i, max)], i, "THROTTLED")
        ELSE go_idle(t, i)

\* blade_detect() is asked again only of a blade not yet known, or silent.
WarmAnswer(s, i, late, b) ==
    \E g \in IF s.ctx[i].gen = "NONE" \/ s.ctx[i].silent THEN Answering(s, i) ELSE {s.ctx[i].gen} :
    \E id \in ReadIds(g) :
        LET k == IF g = "GEN_3" THEN Identified(s, i, g, id) ELSE [s EXCEPT !.ctx[i].gen = g] IN
        \/ g = "LOADER" /\ Becomes(begin_update(k, i, b))
        \/ g \in {"GEN_2", "GEN_3"} \cap Answering(s, i) /\ i \in b.wrote /\ Becomes(Adopted(k, i))
        \/ g \in {"GEN_2", "GEN_3"} /\ "fault" \in Flaky
           /\ Becomes(fault([k EXCEPT !.ctx[i].warm = FALSE], i, b))
        \/ /\ g # "LOADER"
           /\ g \notin Answering(s, i) \/ g = "NONE" \/ i \notin b.wrote \/ "silent" \in Flaky
           /\ Becomes(warm_probe_failed(k, i, late))

WarmProbe(i, c) ==
    /\ ctx[i].warm
    /\ \E b \in BusOutcomes :
         LET s == Probing(i)
             asked == ~ctx[i].silent \/ c.due
         IN
         \/ ~asked /\ Becomes(s)
         \/ asked /\ i \notin b.reach /\ Becomes(warm_probe_failed(s, i, c.late))
         \/ asked /\ i \in b.reach /\ WarmAnswer(Select(s, i, b), i, c.late, b)

TickProbe(i, present, c) ==
    /\ ctx[i].state = "PROBE"
    /\ \/ ~present /\ \E b \in BusOutcomes : Becomes(power_down(Now, i, "ABSENT", b))
       \/ present /\ ColdProbe(i, c)
       \/ present /\ WarmProbe(i, c)

\* A faulted port is looked at again after its cooldown, unless it is held;
\* a blade that still holds its fault waits for another one.
TickFault(i, present, c) ==
    /\ ctx[i].state = "FAULT"
    /\ \E b \in BusOutcomes :
         LET p == ctx[i]
             s == IF p.gen = "GEN_3" THEN Select(Now, i, b) ELSE Now
             again == ~p.held /\ p.admin /\ (~p.cooling \/ c.due)
         IN
         \/ ~present /\ Becomes(power_down(Now, i, "ABSENT", b))
         \/ present /\ ~again /\ Becomes(s)
         \/ /\ present /\ again /\ ~p.rewrite
            /\ p.gen = "GEN_3" /\ i \in b.reach /\ "fault" \in Flaky
            /\ Becomes([s EXCEPT !.ctx[i].cooling = TRUE])
         \/ present /\ again
            /\ Becomes(start_probe([s EXCEPT !.ctx[i].cooling = FALSE], i))

\* One bootloader at a time; the others wait for their turn.
TickUpdate(i, present, c) ==
    /\ ctx[i].state = "UPDATE"
    /\ \E b \in BusOutcomes :
         LET s == [Select(Now, i, b) EXCEPT !.loader = i]
             mine == loader_port \in {None, i}
             over == i \in b.reach /\ c.due
         IN
         \/ ~present /\ Becomes(power_down(Now, i, "ABSENT", b))
         \/ present /\ ~mine /\ Becomes(Now)
         \/ present /\ mine /\ ~over /\ Becomes(s)    \* no channel, or still busy
         \/ present /\ mine /\ over
            /\ Becomes([start_probe(s, i) EXCEPT !.ctx[i].grace = TRUE])
         \/ present /\ mine /\ over /\ "fault" \in Flaky /\ Becomes(fault(s, i, b))

TickDisabled(i, present) ==
    /\ ctx[i].state = "DISABLED"
    /\ \E b \in BusOutcomes :
         \/ ~present /\ Becomes(power_down(Now, i, "ABSENT", b))
         \/ present /\ ctx[i].admin /\ Becomes(start_probe(Now, i))
         \/ present /\ ~ctx[i].admin
            /\ Becomes(IF ctx[i].gen = "GEN_3" THEN Select(Now, i, b) ELSE Now)

port_fsm_tick(i, present, c) ==
    \/ TickAbsent(i, present) \/ TickProbe(i, present, c) \/ TickPowered(i, present, c)
    \/ TickFault(i, present, c) \/ TickUpdate(i, present, c) \/ TickDisabled(i, present)

------------------------------------------------------------------------------
(* Commands from core 0, and the fault line *)

CmdEnable(i) ==
    LET p == [ctx[i] EXCEPT !.admin = TRUE, !.stuck = FALSE] IN
    Becomes([Now EXCEPT !.ctx[i] =
        IF p.held THEN [p EXCEPT !.held = FALSE, !.rounds = 0, !.cooling = FALSE] ELSE p])

CmdUpdate(i) ==
    /\ ctx[i].gen # "GEN_2"
    /\ \E b \in BusOutcomes :
         LET p == [ctx[i] EXCEPT !.rewrite = TRUE, !.rounds = 0, !.stuck = FALSE, !.held = FALSE]
             s == [Now EXCEPT !.ctx[i] = p]
             powered == p.state \in Powered
             told == powered /\ i \in b.reach /\ p.gen = "GEN_3" /\ b.told
         IN
         \/ p.silent /\ Becomes([power_down([s EXCEPT !.ctx[i].warm = FALSE], i, "FAULT", b)
                                   EXCEPT !.ctx[i].cooling = FALSE])
         \/ ~p.silent /\ told
            /\ Becomes([start_probe([BladeDown(Select(s, i, b), i)
                                       EXCEPT !.res[i] = 0, !.ctx[i] = Released(p)], i)
                          EXCEPT !.ctx[i].grace = TRUE])
         \/ ~p.silent /\ ~told
            /\ Becomes([(IF powered THEN Select(s, i, b) ELSE s) EXCEPT
                          !.ctx[i].cooling = IF p.state = "FAULT" THEN FALSE ELSE @])

CmdDisable(i) ==
    \E b \in BusOutcomes :
        LET s == [Now EXCEPT !.ctx[i].admin = FALSE] IN
        Becomes(IF ctx[i].state = "ABSENT" THEN s ELSE switch_off(s, i, b))

CmdLimit(i) ==
    \E b \in BusOutcomes :
        LET s == Select(Now, i, b)
            p == ctx[i]
        IN  IF p.state \notin Powered \/ i \notin b.reach THEN Becomes(Now)
            ELSE IF p.state = "THROTTLED" /\ p.granted <= limit_for(i) THEN Becomes(s)
            ELSE Becomes([set_limits(s, i, limit_for(i), port_max_w[i], p.st.attached, b)
                            EXCEPT !.ctx[i].granted = limit_for(i)])

CmdVolt(i) ==
    \E b \in BusOutcomes :
        IF ctx[i].state \notin Powered \/ i \notin b.reach THEN Becomes(Now)
        ELSE Becomes(set_limits(Select(Now, i, b), i, ctx[i].granted, port_max_w[i],
                                ctx[i].st.attached, b))

\* One powered port's part of the sweep after GLOBAL_ALERT#; it changes
\* nothing but what the port last heard, unless its blade holds a fault.
port_fsm_alert_sweep(i) ==
    /\ ctx[i].state \in Powered
    /\ \E b \in BusOutcomes :
         LET s == Select(Now, i, b)
             h == [s EXCEPT !.ctx[i].st = [attached |-> sink[i] # 0, contract |-> sink[i]]]
         IN
         \/ i \in b.reach /\ Becomes(h)
         \/ i \in b.reach /\ "fault" \in Flaky /\ Becomes(fault(h, i, b))

------------------------------------------------------------------------------
(* Power-up *)

ResetCtx(admin) ==
    [state |-> "ABSENT", gen |-> "NONE", admin |-> admin, warm |-> FALSE,
     attempts |-> 0, polls |-> 0, silent |-> FALSE, id |-> UnreadId, slot |-> 0,
     en_on |-> FALSE, cooling |-> FALSE, switching |-> FALSE, grace |-> FALSE,
     rounds |-> 0, rewrite |-> FALSE, held |-> FALSE, stuck |-> FALSE,
     charged |-> FALSE, contract |-> 0, denied |-> 0, granted |-> 0,
     renegotiating |-> FALSE, renego_from |-> 0, st |-> NoStatus]

\* The place of port i in the queue of the ports in Q: priority, then slot.
Rank(i, Q) ==
    Cardinality({j \in Q \ {i} : Prio[j] < Prio[i] \/ (Prio[j] = Prio[i] /\ j < i)})

\* port_fsm_init() and port_fsm_boot_inventory() on the outputs found on.
\* The adopted ports come first, then the rest; slots count from 1.
BootCtx(i, present, powered, admin) ==
    LET up == {j \in Ports : present[j] /\ admin[j]}
        warm == up \cap powered
        slot == IF i \notin up THEN 0
                ELSE IF i \in warm THEN 1 + Rank(i, warm)
                ELSE 1 + Cardinality(warm) + Rank(i, up \ warm)
    IN  [ResetCtx(admin[i]) EXCEPT
           !.warm = i \in warm, !.slot = slot,
           !.state = IF i \in powered /\ present[i] /\ ~admin[i] THEN "DISABLED" ELSE @]

\* Mutants: the boot policy is not asked; a blade the policy leaves on is cut.
StaysOn_any(i, present, powered, admin) == i \in powered /\ present[i]

StaysOn_none(i, present, powered, admin) == FALSE

StaysOn(i, present, powered, admin) == i \in powered /\ present[i] /\ admin[i]
================================================================================
