---------------------------- MODULE Holding_proofs ----------------------------
(***************************************************************************)
(* What a port holds of the budget follows from where it is, and the one    *)
(* bootloader conversation belongs to a port that is in it: HoldsByState    *)
(* and LoaderLock, proved together as an invariant of the worlds the state *)
(* machine goes through (Well).                                            *)
(*                                                                         *)
(* Inside a handler a port is often not in order (its watts are let go     *)
(* before its state changes), so the lemmas speak of a world that is well  *)
(* but for one port (WellBut), and every handler ends by putting that port *)
(* in order.  Most helpers do not touch the books at all (Books).          *)
(*                                                                         *)
(* Watts are taken from the bottom of the priorities and given back from   *)
(* the top (from Aside on).  A tick serves one port and leaves every other *)
(* as it is, but for what shed_lower_priority() takes, the one handler     *)
(* that reaches into another port: whom it takes from yields (Yields).     *)
(* That a shed port remembers what it had rests on HoldsByState: what it   *)
(* had was its contract.                                                   *)
(***************************************************************************)
EXTENDS Chassis_proofs

\* HoldsByState for one port: its context and its reservation.
Holding(p, n) ==
    /\ p.state \in {"ABSENT", "FAULT", "DISABLED"} => n = 0
    /\ p.state \in {"PROBE", "UPDATE"} => n \in {0, BASE_RESERVE}
    /\ p.state \notin {"ACTIVE", "THROTTLED"} => p.contract = 0
    /\ p.state \in Powered => n = IF p.contract = 0 THEN BASE_RESERVE ELSE p.contract

Lock(s) == s.loader # None => s.ctx[s.loader].state = "UPDATE"

WellBut(s, i) ==
    s \in World /\ Lock(s) /\ \A j \in Ports \ {i} : Holding(s.ctx[j], s.res[j])

Well(s) == s \in World /\ Lock(s) /\ \A j \in Ports : Holding(s.ctx[j], s.res[j])

\* The port holds nothing, or its base, and no contract.
Resting(s, i) == s.ctx[i].contract = 0 /\ s.res[i] \in {0, BASE_RESERVE}

\* From s to t the books are as they were.
Books(s, t) ==
    /\ t \in World /\ t.res = s.res /\ t.loader = s.loader
    /\ \A j \in Ports : /\ t.ctx[j].state = s.ctx[j].state
                        /\ t.ctx[j].contract = s.ctx[j].contract

------------------------------------------------------------------------------
(* Moving between the worlds *)

LEMMA WellParts ==
    ASSUME NEW s, NEW i \in Ports
    PROVE  Well(s) <=> WellBut(s, i) /\ Holding(s.ctx[i], s.res[i])
BY DEF Well, WellBut

LEMMA LoaderPort ==
    ASSUME NEW s \in World
    PROVE  s.loader # None => s.loader \in Ports
BY DEF World

LEMMA BooksSame ==
    ASSUME NEW s \in World
    PROVE  Books(s, s)
BY DEF Books

LEMMA BooksTrans ==
    ASSUME NEW s, NEW t, NEW u, Books(s, t), Books(t, u)
    PROVE  Books(s, u)
BY DEF Books

LEMMA BooksWell ==
    ASSUME NEW s, NEW t, Well(s), Books(s, t)
    PROVE  Well(t)
<1>1. s \in World /\ t \in World /\ Lock(s)
  BY DEF Well, Books
<1>2. Lock(t)
  BY <1>1, LoaderPort DEF Books, Lock
<1>3. QED
  BY <1>1, <1>2 DEF Well, Books, Holding

LEMMA BooksWellBut ==
    ASSUME NEW s, NEW t, NEW i \in Ports, WellBut(s, i), Books(s, t)
    PROVE  /\ WellBut(t, i)
           /\ Resting(s, i) => Resting(t, i)
<1>1. s \in World /\ t \in World /\ Lock(s)
  BY DEF WellBut, Books
<1>2. Lock(t)
  BY <1>1, LoaderPort DEF Books, Lock
<1>3. QED
  BY <1>1, <1>2 DEF WellBut, Books, Holding, Resting

\* A new context for a port, with the state and the contract it had.
LEMMA CtxBooks ==
    ASSUME NEW s \in World, NEW i \in Ports, NEW p \in PortCtx,
           p.state = s.ctx[i].state, p.contract = s.ctx[i].contract
    PROVE  Books(s, [s EXCEPT !.ctx[i] = p])
<1>1. [s EXCEPT !.ctx[i] = p] \in World
  BY CtxUpdate
<1>2. QED
  BY <1>1 DEF Books, World

LEMMA SameCtxBooks ==
    ASSUME NEW s \in World, NEW t \in World, t.ctx = s.ctx, t.res = s.res, t.loader = s.loader
    PROVE  Books(s, t)
BY DEF Books

\* A new context and a new reservation for the port that is out of order.
LEMMA OutOfOrder ==
    ASSUME NEW s, NEW i \in Ports, WellBut(s, i), NEW p \in PortCtx, NEW n \in Nat,
           p.state = s.ctx[i].state
    PROVE  /\ WellBut([s EXCEPT !.res[i] = n, !.ctx[i] = p], i)
           /\ WellBut([s EXCEPT !.ctx[i] = p, !.res[i] = n], i)
<1> DEFINE t == [s EXCEPT !.res[i] = n, !.ctx[i] = p]
<1>1. s \in World /\ Lock(s)
  BY DEF WellBut
<1>2. t \in World
  BY <1>1, CtxResUpdate
<1>3. t = [s EXCEPT !.ctx[i] = p, !.res[i] = n]
  BY <1>1 DEF World
<1>4. /\ t.loader = s.loader /\ t.ctx[i].state = s.ctx[i].state
      /\ \A j \in Ports \ {i} : t.ctx[j] = s.ctx[j] /\ t.res[j] = s.res[j]
  BY <1>1 DEF World
<1> HIDE DEF t
<1>5. Lock(t)
  BY <1>1, <1>4, LoaderPort DEF Lock
<1>6. WellBut(t, i)
  BY <1>2, <1>4, <1>5 DEF WellBut
<1>7. QED
  BY <1>3, <1>6 DEF t

------------------------------------------------------------------------------
(* Helpers that do not touch the books *)

LEMMA SelectBooks ==
    ASSUME NEW s \in World, NEW i \in Ports, NEW b \in BusOutcomes
    PROVE  Books(s, Select(s, i, b))
<1>1. Select(s, i, b) \in World
  BY SelectType
<1>2. QED
  BY <1>1, SameCtxBooks DEF Select, World

LEMMA EnOffBooks ==
    ASSUME NEW s \in World, NEW i \in Ports, NEW b \in BusOutcomes
    PROVE  Books(s, EnOff(s, i, b))
<1>1. EnOff(s, i, b) \in World /\ EnOff(s, i, b).ctx = s.ctx
  BY EnOffType
<1>2. EnOff(s, i, b).res = s.res /\ EnOff(s, i, b).loader = s.loader
  BY DEF EnOff, World
<1>3. QED
  BY <1>1, <1>2, SameCtxBooks

LEMMA BladeDownBooks ==
    ASSUME NEW s \in World, NEW i \in Ports
    PROVE  Books(s, BladeDown(s, i))
<1>1. BladeDown(s, i) \in World /\ BladeDown(s, i).ctx = s.ctx
  BY BladeDownType
<1>2. BladeDown(s, i).res = s.res /\ BladeDown(s, i).loader = s.loader
  BY DEF BladeDown, World
<1>3. QED
  BY <1>1, <1>2, SameCtxBooks

LEMMA RebootsBooks ==
    ASSUME NEW s \in World, NEW i \in Ports
    PROVE  Books(s, Reboots(s, i))
<1>1. s.mux # None => s.mux \in Ports
  BY DEF World
<1>2. QED
  BY <1>1, BladeDownBooks, BooksSame DEF Reboots

LEMMA RenegotiateBooks ==
    ASSUME NEW p \in PortCtx, NEW r
    PROVE  Renegotiate(p, r).state = p.state /\ Renegotiate(p, r).contract = p.contract
BY DEF Renegotiate, PortCtx

LEMMA GrantedBooks ==
    ASSUME NEW s \in World, NEW i \in Ports, NEW w \in Nat
    PROVE  Books(s, [s EXCEPT !.ctx[i].granted = w])
<1> DEFINE p == [s.ctx[i] EXCEPT !.granted = w]
<1>1. p \in PortCtx /\ p.state = s.ctx[i].state /\ p.contract = s.ctx[i].contract
  BY PartsType DEF PortCtx
<1>2. [s EXCEPT !.ctx[i].granted = w] = [s EXCEPT !.ctx[i] = p]
  BY DEF World
<1> HIDE DEF p
<1>3. QED
  BY <1>1, <1>2, CtxBooks

LEMMA set_limitsBooks ==
    ASSUME NEW s \in World, NEW i \in Ports, NEW w \in Nat, NEW v \in Nat,
           NEW r \in BOOLEAN, NEW b \in BusOutcomes
    PROVE  Books(s, set_limits(s, i, w, v, r, b))
<1> DEFINE t == WriteLimits(s, i, w, v, b)
           p == Renegotiate(s.ctx[i], r)
<1>1. t \in World /\ t.ctx = s.ctx /\ t.res = s.res
  BY WriteLimitsType
<1>2. t.loader = s.loader
  BY DEF WriteLimits, World
<1>3. set_limits(s, i, w, v, r, b) = [t EXCEPT !.ctx[i] = p]
  BY DEF set_limits
<1>4. p \in PortCtx /\ p.state = s.ctx[i].state /\ p.contract = s.ctx[i].contract
  BY PartsType, RenegotiateType, RenegotiateBooks
<1> HIDE DEF t, p
<1>5. Books(s, t)
  BY <1>1, <1>2, SameCtxBooks
<1>6. Books(t, [t EXCEPT !.ctx[i] = p])
  BY <1>1, <1>4, CtxBooks
<1>7. QED
  BY <1>3, <1>5, <1>6, BooksTrans

\* The limits written and noted.
LEMMA LimitedBooks ==
    ASSUME SettingsOK, NEW s \in World, NEW i \in Ports, NEW r \in BOOLEAN, NEW b \in BusOutcomes
    PROVE  Books(s, [set_limits(s, i, limit_for(i), port_max_w[i], r, b)
                       EXCEPT !.ctx[i].granted = limit_for(i)])
<1> DEFINE t == set_limits(s, i, limit_for(i), port_max_w[i], r, b)
<1>1. limit_for(i) \in Nat /\ port_max_w[i] \in Nat
  BY LimitType
<1>2. Books(s, t)
  BY <1>1, set_limitsBooks
<1> HIDE DEF t
<1>3. t \in World
  BY <1>2 DEF Books
<1>4. Books(t, [t EXCEPT !.ctx[i].granted = limit_for(i)])
  BY <1>1, <1>3, GrantedBooks
<1>5. Books(s, [t EXCEPT !.ctx[i].granted = limit_for(i)])
  BY <1>2, <1>4, BooksTrans
<1>6. QED
  BY <1>5 DEF t

LEMMA sync_limitBooks ==
    ASSUME SettingsOK, NEW s \in World, NEW i \in Ports, NEW b \in BusOutcomes
    PROVE  Books(s, sync_limit(s, i, b))
<1> DEFINE r == s.ctx[i].st.attached
           t == [set_limits(s, i, limit_for(i), port_max_w[i], r, b)
                   EXCEPT !.ctx[i].granted = limit_for(i)]
<1>1. r \in BOOLEAN
  BY PartsType, CtxParts
<1>2. sync_limit(s, i, b) \in {s, t}
  BY DEF sync_limit
<1> HIDE DEF r
<1>3. Books(s, t)
  BY <1>1, LimitedBooks
<1> HIDE DEF t
<1>4. QED
  BY <1>2, <1>3, BooksSame

LEMMA FlagBooks ==
    ASSUME NEW s \in World, NEW i \in Ports, NEW f \in BOOLEAN
    PROVE  /\ Books(s, [s EXCEPT !.ctx[i].cooling = f])
           /\ Books(s, [s EXCEPT !.ctx[i].switching = f])
           /\ Books(s, [s EXCEPT !.ctx[i].grace = f])
           /\ Books(s, [s EXCEPT !.ctx[i].charged = f])
           /\ Books(s, [s EXCEPT !.ctx[i].renegotiating = f])
           /\ Books(s, [s EXCEPT !.ctx[i].warm = f])
           /\ Books(s, [s EXCEPT !.ctx[i].admin = f])
<1> DEFINE p == s.ctx[i]
<1>1. /\ [s EXCEPT !.ctx[i].cooling = f] = [s EXCEPT !.ctx[i] = [p EXCEPT !.cooling = f]]
      /\ [s EXCEPT !.ctx[i].switching = f] = [s EXCEPT !.ctx[i] = [p EXCEPT !.switching = f]]
      /\ [s EXCEPT !.ctx[i].grace = f] = [s EXCEPT !.ctx[i] = [p EXCEPT !.grace = f]]
      /\ [s EXCEPT !.ctx[i].charged = f] = [s EXCEPT !.ctx[i] = [p EXCEPT !.charged = f]]
  BY DEF World
<1>2. /\ [s EXCEPT !.ctx[i].renegotiating = f]
           = [s EXCEPT !.ctx[i] = [p EXCEPT !.renegotiating = f]]
      /\ [s EXCEPT !.ctx[i].warm = f] = [s EXCEPT !.ctx[i] = [p EXCEPT !.warm = f]]
      /\ [s EXCEPT !.ctx[i].admin = f] = [s EXCEPT !.ctx[i] = [p EXCEPT !.admin = f]]
  BY DEF World
<1>3. p \in PortCtx
  BY PartsType
<1>4. \A q \in {[p EXCEPT !.cooling = f], [p EXCEPT !.switching = f], [p EXCEPT !.grace = f],
                [p EXCEPT !.charged = f]} :
        q \in PortCtx /\ q.state = p.state /\ q.contract = p.contract
  BY <1>3 DEF PortCtx
<1>5. \A q \in {[p EXCEPT !.renegotiating = f], [p EXCEPT !.warm = f], [p EXCEPT !.admin = f]} :
        q \in PortCtx /\ q.state = p.state /\ q.contract = p.contract
  BY <1>3 DEF PortCtx
<1>6. \A q \in PortCtx : q.state = p.state /\ q.contract = p.contract
        => Books(s, [s EXCEPT !.ctx[i] = q])
  BY CtxBooks
<1> HIDE DEF p
<1>7. QED
  BY <1>1, <1>2, <1>4, <1>5, <1>6

------------------------------------------------------------------------------
(* State changes put a port in order *)

LEMMA enterParts ==
    ASSUME NEW s \in World, NEW i \in Ports, NEW next \in States
    PROVE  /\ enter(s, i, next) \in World
           /\ enter(s, i, next).res = s.res
           /\ enter(s, i, next).ctx[i] = [s.ctx[i] EXCEPT !.state = next]
           /\ \A j \in Ports \ {i} : enter(s, i, next).ctx[j] = s.ctx[j]
           /\ enter(s, i, next).loader
                = IF s.loader = i /\ s.ctx[i].state # next THEN None ELSE s.loader
<1>1. enter(s, i, next) \in World
  BY enterType
<1>2. QED
  BY <1>1 DEF enter, World

LEMMA enterWell ==
    ASSUME NEW s, NEW i \in Ports, NEW next \in States, WellBut(s, i),
           Holding([s.ctx[i] EXCEPT !.state = next], s.res[i])
    PROVE  Well(enter(s, i, next))
<1> DEFINE t == enter(s, i, next)
           p == [s.ctx[i] EXCEPT !.state = next]
<1>1. s \in World /\ Lock(s) /\ \A j \in Ports \ {i} : Holding(s.ctx[j], s.res[j])
  BY DEF WellBut
<1>2. /\ t \in World /\ t.res = s.res /\ t.ctx[i] = p
      /\ \A j \in Ports \ {i} : t.ctx[j] = s.ctx[j]
      /\ t.loader = IF s.loader = i /\ s.ctx[i].state # next THEN None ELSE s.loader
  BY <1>1, enterParts
<1>3. p.state = next
  BY <1>1, PartsType DEF PortCtx
<1> HIDE DEF t, p
<1>4. Lock(t)
  <2>1. SUFFICES ASSUME t.loader # None PROVE t.ctx[t.loader].state = "UPDATE"
    BY DEF Lock
  <2>2. t.loader = s.loader /\ s.loader \in Ports /\ s.ctx[s.loader].state = "UPDATE"
    BY <1>1, <1>2, <2>1, LoaderPort DEF Lock
  <2>3. CASE s.loader # i
    BY <1>2, <2>2, <2>3
  <2>4. CASE s.loader = i
    BY <1>2, <1>3, <2>1, <2>2, <2>4
  <2>5. QED
    BY <2>3, <2>4
<1>5. Holding(t.ctx[i], t.res[i])
  BY <1>2 DEF p
<1>6. QED
  BY <1>1, <1>2, <1>4, <1>5 DEF Well, t

\* What a port that has been entered into a state must hold.
LEMMA HoldingAfter ==
    ASSUME NEW p \in PortCtx, NEW n \in Nat, NEW next \in States
    PROVE  /\ next \in {"ABSENT", "FAULT", "DISABLED"} /\ p.contract = 0 /\ n = 0
                => Holding([p EXCEPT !.state = next], n)
           /\ next \in {"PROBE", "UPDATE"} /\ p.contract = 0 /\ n \in {0, BASE_RESERVE}
                => Holding([p EXCEPT !.state = next], n)
           /\ next \in Powered /\ p.contract = 0 /\ n = BASE_RESERVE
                => Holding([p EXCEPT !.state = next], n)
           /\ next \in {"ACTIVE", "THROTTLED"} /\ p.contract # 0 /\ n = p.contract
                => Holding([p EXCEPT !.state = next], n)
<1> DEFINE q == [p EXCEPT !.state = next]
<1>1. q.state = next /\ q.contract = p.contract
  BY DEF PortCtx
<1> HIDE DEF q
<1>2. next \in {"ABSENT", "FAULT", "DISABLED"} /\ p.contract = 0 /\ n = 0 => Holding(q, n)
  BY <1>1 DEF Holding, Powered
<1>3. next \in {"PROBE", "UPDATE"} /\ p.contract = 0 /\ n \in {0, BASE_RESERVE} => Holding(q, n)
  BY <1>1 DEF Holding, Powered
<1>4. next \in Powered /\ p.contract = 0 /\ n = BASE_RESERVE => Holding(q, n)
  BY <1>1 DEF Holding, Powered
<1>5. next \in {"ACTIVE", "THROTTLED"} /\ p.contract # 0 /\ n = p.contract => Holding(q, n)
  BY <1>1 DEF Holding, Powered
<1>6. QED
  BY <1>2, <1>3, <1>4, <1>5 DEF q

LEMMA UnpoweredContract ==
    ASSUME NEW p \in PortCtx, NEW next
    PROVE  Unpowered(p, next).contract = 0 /\ Unpowered(p, next).state = p.state
BY DEF Unpowered, PortCtx

\* Whatever was the matter with a port, taking it down puts it in order.
LEMMA power_downWell ==
    ASSUME NEW s, NEW i \in Ports, WellBut(s, i), NEW next \in {"ABSENT", "FAULT", "DISABLED"},
           NEW b \in BusOutcomes
    PROVE  Well(power_down(s, i, next, b))
<1> DEFINE p == Unpowered(s.ctx[i], next)
           e == EnOff(s, i, b)
           t == [e EXCEPT !.res[i] = 0, !.ctx[i] = p]
<1>1. s \in World /\ s.ctx[i] \in PortCtx /\ next \in States
  BY PartsType, StateNames DEF WellBut
<1>2. p \in PortCtx /\ p.contract = 0 /\ p.state = s.ctx[i].state
  BY <1>1, UnpoweredType, UnpoweredContract
<1>3. power_down(s, i, next, b) = enter(t, i, next)
  BY DEF power_down
<1> HIDE DEF p
<1>4. Books(s, e)
  BY <1>1, EnOffBooks
<1>5. WellBut(e, i) /\ p.state = e.ctx[i].state /\ e \in World
  BY <1>2, <1>4, BooksWellBut DEF Books
<1> HIDE DEF e
<1>6. WellBut(t, i)
  BY <1>2, <1>5, OutOfOrder
<1>7. t.ctx[i] = p /\ t.res[i] = 0
  BY <1>5 DEF World
<1> HIDE DEF t
<1>8. Holding([p EXCEPT !.state = next], 0)
  BY <1>1, <1>2, HoldingAfter
<1>9. QED
  BY <1>1, <1>3, <1>6, <1>7, <1>8, enterWell

LEMMA faultWell ==
    ASSUME NEW s, NEW i \in Ports, WellBut(s, i), NEW b \in BusOutcomes
    PROVE  Well(fault(s, i, b))
<1> DEFINE t == power_down(s, i, "FAULT", b)
<1>1. Well(t)
  BY power_downWell
<1>2. fault(s, i, b) = [t EXCEPT !.ctx[i].cooling = TRUE]
  BY DEF fault
<1> HIDE DEF t
<1>3. Books(t, [t EXCEPT !.ctx[i].cooling = TRUE])
  BY <1>1, FlagBooks DEF Well
<1>4. QED
  BY <1>1, <1>2, <1>3, BooksWell

LEMMA switch_offWell ==
    ASSUME NEW s, NEW i \in Ports, WellBut(s, i), NEW b \in BusOutcomes
    PROVE  Well(switch_off(s, i, b)) /\ Well(auto_off(s, i, b))
<1> DEFINE t == [s EXCEPT !.ctx[i].admin = FALSE]
<1>1. Books(s, t)
  BY FlagBooks DEF WellBut
<1>2. switch_off(s, i, b) = power_down(s, i, "DISABLED", b)
      /\ auto_off(s, i, b) = power_down(t, i, "DISABLED", b)
  BY DEF switch_off, auto_off
<1> HIDE DEF t
<1>3. WellBut(t, i)
  BY <1>1, BooksWellBut
<1>4. Well(power_down(s, i, "DISABLED", b)) /\ Well(power_down(t, i, "DISABLED", b))
  BY <1>3, power_downWell
<1>5. QED
  BY <1>2, <1>4

LEMMA FreshContract ==
    ASSUME NEW p \in PortCtx
    PROVE  Fresh(p).contract = p.contract /\ Fresh(p).state = p.state
BY DEF Fresh, PortCtx

LEMMA start_probeWell ==
    ASSUME NEW s, NEW i \in Ports, WellBut(s, i), Resting(s, i)
    PROVE  /\ Well(start_probe(s, i))
           /\ start_probe(s, i).ctx[i].state = "PROBE"
<1> DEFINE p == Fresh(s.ctx[i])
           t == [s EXCEPT !.ctx[i] = p]
<1>1. s \in World /\ s.ctx[i] \in PortCtx
  BY PartsType DEF WellBut
<1>2. p \in PortCtx /\ p.contract = s.ctx[i].contract /\ p.state = s.ctx[i].state
  BY <1>1, FreshType, FreshContract
<1>3. start_probe(s, i) = enter(t, i, "PROBE")
  BY DEF start_probe
<1> HIDE DEF p
<1>4. Books(s, t)
  BY <1>1, <1>2, CtxBooks
<1> HIDE DEF t
<1>5. WellBut(t, i) /\ Resting(t, i) /\ t \in World
  BY <1>4, BooksWellBut DEF Books
<1>6. t.ctx[i] \in PortCtx /\ t.res[i] \in Nat
  BY <1>5, PartsType
<1>7. Holding([t.ctx[i] EXCEPT !.state = "PROBE"], t.res[i])
  BY <1>5, <1>6, HoldingAfter, StateNames DEF Resting
<1>8. enter(t, i, "PROBE").ctx[i].state = "PROBE"
  <2>1. enter(t, i, "PROBE").ctx[i] = [t.ctx[i] EXCEPT !.state = "PROBE"]
    BY <1>5, enterParts, StateNames
  <2>2. [t.ctx[i] EXCEPT !.state = "PROBE"].state = "PROBE"
    BY <1>6 DEF PortCtx
  <2>3. QED
    BY <2>1, <2>2
<1>9. QED
  BY <1>3, <1>5, <1>7, <1>8, enterWell, StateNames

LEMMA go_idleWell ==
    ASSUME NEW s, NEW i \in Ports, WellBut(s, i), s.ctx[i].contract = 0, s.res[i] = BASE_RESERVE
    PROVE  Well(go_idle(s, i))
<1>1. s \in World /\ s.ctx[i] \in PortCtx /\ s.res[i] \in Nat
  BY PartsType DEF WellBut
<1>2. "IDLE" \in States /\ "IDLE" \in Powered
  BY DEF States, Powered
<1>3. Holding([s.ctx[i] EXCEPT !.state = "IDLE"], s.res[i])
  BY <1>1, <1>2, HoldingAfter
<1>4. Well(enter(s, i, "IDLE"))
  BY <1>2, <1>3, enterWell
<1>5. QED
  BY <1>4 DEF go_idle

\* Either probe is about a port that waits in PROBE.
LEMMA probe_failedWell ==
    ASSUME NEW s, NEW i \in Ports, Well(s), NEW late \in BOOLEAN, NEW b \in BusOutcomes
    PROVE  Well(probe_failed(s, i, late, b))
<1> DEFINE p == [s.ctx[i] EXCEPT !.switching = FALSE, !.attempts = @ + 1]
           q == [p EXCEPT !.warm = FALSE]
           t == [s EXCEPT !.ctx[i] = p]
           u == [s EXCEPT !.ctx[i] = q]
<1>0. s \in World /\ s.ctx[i] \in PortCtx
  BY PartsType DEF Well
<1>1. p \in PortCtx
  BY <1>0, ProbeCtx
<1>2. p.state = s.ctx[i].state /\ p.contract = s.ctx[i].contract
  BY <1>0 DEF PortCtx
<1>3. probe_failed(s, i, late, b) \in {s, t, fault(u, i, b)}
  BY DEF probe_failed
<1> HIDE DEF p
<1>4. q \in PortCtx /\ q.state = p.state /\ q.contract = p.contract
  <2>1. q \in PortCtx
    BY <1>1, FlagCtx
  <2>2. q.state = p.state /\ q.contract = p.contract
    BY <1>1 DEF PortCtx
  <2>3. QED
    BY <2>1, <2>2
<1> HIDE DEF q
<1>5. Books(s, t) /\ Books(s, u)
  BY <1>0, <1>1, <1>2, <1>4, CtxBooks
<1> HIDE DEF t, u
<1>6. Well(t) /\ Well(u)
  BY <1>5, BooksWell
<1>7. Well(fault(u, i, b))
  BY <1>6, WellParts, faultWell
<1>8. QED
  BY <1>3, <1>6, <1>7

LEMMA warm_probe_failedWell ==
    ASSUME NEW s, NEW i \in Ports, Well(s), s.ctx[i].state = "PROBE", NEW late \in BOOLEAN
    PROVE  Well(warm_probe_failed(s, i, late))
<1> DEFINE p == [s.ctx[i] EXCEPT !.switching = FALSE, !.attempts = @ + 1]
           q == [p EXCEPT !.silent = TRUE]
           t == [s EXCEPT !.ctx[i] = p]
           u == [s EXCEPT !.ctx[i].switching = FALSE]
           v == [s EXCEPT !.ctx[i] = q, !.res[i] = BASE_RESERVE]
<1>0. s \in World /\ s.ctx[i] \in PortCtx
  BY PartsType DEF Well
<1>1. p \in PortCtx
  BY <1>0, ProbeCtx
<1>2. p.state = s.ctx[i].state /\ p.contract = s.ctx[i].contract
  BY <1>0 DEF PortCtx
<1>3. warm_probe_failed(s, i, late) \in {s, t, u, v}
  BY DEF warm_probe_failed
<1> HIDE DEF p
<1>4. q \in PortCtx /\ q.state = p.state /\ q.contract = p.contract
  <2>1. q \in PortCtx
    BY <1>1, FlagCtx
  <2>2. q.state = p.state /\ q.contract = p.contract
    BY <1>1 DEF PortCtx
  <2>3. QED
    BY <2>1, <2>2
<1> HIDE DEF q
<1>5. Books(s, t) /\ Books(s, u)
  BY <1>0, <1>1, <1>2, CtxBooks, FlagBooks
<1>6. WellBut(v, i)
  BY <1>2, <1>4, NatParameters, WellParts, OutOfOrder
<1>7. v.ctx[i] = q /\ v.res[i] = BASE_RESERVE
  BY <1>0 DEF World
<1> HIDE DEF t, u, v
<1>8. Well(t) /\ Well(u)
  BY <1>5, BooksWell
<1>9. Holding(s.ctx[i], s.res[i])
  BY DEF Well
<1>10. Holding(v.ctx[i], v.res[i])
  BY <1>2, <1>4, <1>7, <1>9 DEF Holding, Powered
<1>11. Well(v)
  BY <1>6, <1>10, WellParts
<1>12. QED
  BY <1>3, <1>8, <1>11

------------------------------------------------------------------------------
(* Bootloader trips *)

LEMMA begin_updateWell ==
    ASSUME NEW s, NEW i \in Ports, WellBut(s, i), Resting(s, i), NEW b \in BusOutcomes
    PROVE  Well(begin_update(s, i, b))
<1> DEFINE p == [s.ctx[i] EXCEPT !.warm = FALSE, !.silent = FALSE]
           e == EnOff(s, i, b)
           dark == BladeDown(e, i)
           q == [p EXCEPT !.held = TRUE]
           r == [p EXCEPT !.rounds = @ + 1, !.rewrite = FALSE]
           t == [dark EXCEPT !.ctx[i] = q]
           u == [dark EXCEPT !.ctx[i] = r]
<1>0. s \in World /\ s.ctx[i] \in PortCtx
  BY PartsType DEF WellBut
<1>1. p \in PortCtx /\ p.state = s.ctx[i].state /\ p.contract = s.ctx[i].contract
  BY <1>0 DEF PortCtx
<1>2. Books(s, dark)
  <2>1. Books(s, e) /\ e \in World
    BY <1>0, EnOffBooks DEF Books
  <2> HIDE DEF e
  <2>2. Books(e, dark)
    BY <2>1, BladeDownBooks
  <2>3. QED
    BY <2>1, <2>2, BooksTrans
<1> HIDE DEF dark
<1>3. /\ WellBut(dark, i) /\ Resting(dark, i) /\ dark \in World
      /\ dark.ctx[i].state = s.ctx[i].state /\ dark.ctx[i].contract = s.ctx[i].contract
  BY <1>2, BooksWellBut DEF Books
<1>4. CASE p.rounds >= UPDATE_ROUNDS_MAX
  <2>1. begin_update(s, i, b) = fault(t, i, b)
    BY <1>4 DEF begin_update, dark, e
  <2> HIDE DEF p
  <2>2. q \in PortCtx /\ q.state = p.state /\ q.contract = p.contract
    <3>1. q \in PortCtx
      BY <1>1, FlagCtx
    <3>2. q.state = p.state /\ q.contract = p.contract
      BY <1>1 DEF PortCtx
    <3>3. QED
      BY <3>1, <3>2
  <2> HIDE DEF q
  <2>3. Books(dark, t)
    BY <1>1, <1>3, <2>2, CtxBooks
  <2> HIDE DEF t
  <2>4. WellBut(t, i)
    BY <1>3, <2>3, BooksWellBut
  <2>5. QED
    BY <2>1, <2>4, faultWell
<1>5. CASE ~(p.rounds >= UPDATE_ROUNDS_MAX)
  <2>1. begin_update(s, i, b) = enter(u, i, "UPDATE")
    BY <1>5 DEF begin_update, dark, e
  <2> HIDE DEF p
  <2>2. r \in PortCtx
    <3>1. p.rounds \in 0..UPDATE_ROUNDS_MAX
      BY <1>1, CtxParts
    <3>2. p.rounds + 1 \in 0..UPDATE_ROUNDS_MAX
      BY <1>5, <3>1, NatParameters
    <3>3. QED
      BY <1>1, <3>2 DEF PortCtx
  <2>3. r.state = p.state /\ r.contract = p.contract
    BY <1>1 DEF PortCtx
  <2> HIDE DEF r
  <2>4. Books(dark, u)
    BY <1>1, <1>3, <2>2, <2>3, CtxBooks
  <2> HIDE DEF u
  <2>5. WellBut(u, i) /\ Resting(u, i) /\ u \in World
    BY <1>3, <2>4, BooksWellBut DEF Books
  <2>6. u.ctx[i] \in PortCtx /\ u.res[i] \in Nat
    BY <2>5, PartsType
  <2>7. Holding([u.ctx[i] EXCEPT !.state = "UPDATE"], u.res[i])
    BY <2>5, <2>6, HoldingAfter, StateNames DEF Resting
  <2>8. QED
    BY <2>1, <2>5, <2>7, enterWell, StateNames
<1>6. QED
  BY <1>4, <1>5

LEMMA ReleasedContract ==
    ASSUME NEW p \in PortCtx
    PROVE  /\ Released(p).contract = 0 /\ Released(p).state = p.state
           /\ Released(p).rounds = p.rounds
BY DEF Released, PortCtx

\* A port whose watts and contract are let go.
LEMMA LetGo ==
    ASSUME NEW s, NEW i \in Ports, WellBut(s, i), NEW p \in PortCtx,
           p.state = s.ctx[i].state, p.contract = 0
    PROVE  /\ WellBut([s EXCEPT !.res[i] = 0, !.ctx[i] = p], i)
           /\ Resting([s EXCEPT !.res[i] = 0, !.ctx[i] = p], i)
<1>1. [s EXCEPT !.res[i] = 0, !.ctx[i] = p].ctx[i] = p
      /\ [s EXCEPT !.res[i] = 0, !.ctx[i] = p].res[i] = 0
  BY DEF World, WellBut
<1>2. QED
  BY <1>1, OutOfOrder DEF Resting

LEMMA send_to_loaderWell ==
    ASSUME NEW s, NEW i \in Ports, Well(s), NEW b \in BusOutcomes
    PROVE  /\ Well(send_to_loader(s, i, b))
           /\ send_to_loader(s, i, b).ctx[i].state \in {s.ctx[i].state, "PROBE"}
<1> DEFINE p == s.ctx[i]
           boot_opt == "boot_opt" \in blade_wants(p)
           sent == [Released(p) EXCEPT !.rounds = IF boot_opt THEN @ + 1 ELSE @]
           away == Reboots(s, i)
           gone == [away EXCEPT !.res[i] = 0, !.ctx[i] = sent]
           probe == start_probe(gone, i)
           again == [probe EXCEPT !.ctx[i].switching = TRUE]
           stuck == [p EXCEPT !.stuck = TRUE, !.rewrite = FALSE, !.rounds = 0]
           kept == [s EXCEPT !.ctx[i] = stuck]
<1>0. s \in World /\ p \in PortCtx
  BY PartsType DEF Well
<1>1. CASE Sends(s, i, b)
  <2>1. p.rounds < UPDATE_ROUNDS_MAX /\ p.rounds \in 0..UPDATE_ROUNDS_MAX
    BY <1>0, <1>1, CtxParts DEF Sends
  <2>2. send_to_loader(s, i, b) = again
    <3>1. ~(p.rounds >= UPDATE_ROUNDS_MAX)
      BY <2>1, NatParameters
    <3>2. QED
      BY <1>1, <3>1 DEF send_to_loader
  <2>3. /\ Released(p) \in PortCtx /\ Released(p).contract = 0
        /\ Released(p).state = p.state /\ Released(p).rounds = p.rounds
    BY <1>0, ReleasedType, ReleasedContract
  <2>4. sent \in PortCtx /\ sent.contract = 0 /\ sent.state = p.state
    <3>1. (IF boot_opt THEN Released(p).rounds + 1 ELSE Released(p).rounds) \in 0..UPDATE_ROUNDS_MAX
      BY <2>1, <2>3, NatParameters
    <3>2. sent \in PortCtx
      BY <2>3, <3>1 DEF PortCtx
    <3>3. sent.contract = 0 /\ sent.state = p.state
      BY <2>3 DEF PortCtx
    <3>4. QED
      BY <3>2, <3>3
  <2> HIDE DEF sent
  <2>5. Books(s, away)
    BY <1>0, RebootsBooks
  <2> HIDE DEF away
  <2>6. WellBut(away, i) /\ away.ctx[i].state = p.state
    BY <2>5, BooksWellBut, WellParts DEF Books
  <2>7. WellBut(gone, i) /\ Resting(gone, i)
    BY <2>4, <2>6, LetGo
  <2> HIDE DEF gone
  <2>8. Well(probe) /\ probe.ctx[i].state = "PROBE"
    BY <2>7, start_probeWell
  <2> HIDE DEF probe
  <2>9. Books(probe, again)
    BY <2>8, FlagBooks DEF Well
  <2> HIDE DEF again
  <2>10. Well(again) /\ again.ctx[i].state = "PROBE"
    BY <2>8, <2>9, BooksWell DEF Books
  <2>11. QED
    BY <2>2, <2>10
<1>2. CASE ~Sends(s, i, b)
  <2>1. send_to_loader(s, i, b) \in {s, kept}
    BY <1>2 DEF send_to_loader
  <2>2. \A z \in 0..UPDATE_ROUNDS_MAX :
          [p EXCEPT !.stuck = TRUE, !.rewrite = FALSE, !.rounds = z] \in PortCtx
    BY <1>0 DEF PortCtx
  <2>3. stuck \in PortCtx
    BY <2>2, NatParameters
  <2>4. stuck.state = p.state /\ stuck.contract = p.contract
    BY <1>0 DEF PortCtx
  <2> HIDE DEF stuck
  <2>5. Books(s, kept)
    BY <1>0, <2>3, <2>4, CtxBooks
  <2> HIDE DEF kept
  <2>6. Well(kept) /\ kept.ctx[i].state = s.ctx[i].state
    BY <2>5, BooksWell DEF Books
  <2>7. QED
    BY <2>1, <2>6
<1>3. QED
  BY <1>1, <1>2

------------------------------------------------------------------------------
(* Sharing the budget *)

LEMMA PutInOrder ==
    ASSUME NEW s, NEW i \in Ports, WellBut(s, i), s.loader # i,
           NEW t \in World, t.loader = s.loader, Holding(t.ctx[i], t.res[i]),
           \A j \in Ports \ {i} : t.ctx[j] = s.ctx[j] /\ t.res[j] = s.res[j]
    PROVE  Well(t)
<1>1. s \in World /\ Lock(s)
  BY DEF WellBut
<1>2. Lock(t)
  BY <1>1, LoaderPort DEF Lock
<1>3. QED
  BY <1>2 DEF Well, WellBut

\* A powered port is not in a conversation with its bootloader.
LEMMA PoweredAway ==
    ASSUME NEW s, NEW i \in Ports, Well(s), s.ctx[i].state # "UPDATE"
    PROVE  s.loader # i
BY DEF Well, Lock, None, Ports

LEMMA ThrottledHolding ==
    ASSUME SettingsOK, NEW p \in PortCtx, NEW i \in Ports, NEW grant \in Nat, NEW want \in Nat,
           grant > 0
    PROVE  /\ Holding(ThrottledCtx(p, i, grant, want), grant)
           /\ ThrottledCtx(p, i, grant, want).state = "THROTTLED"
<1> DEFINE q == Renegotiate(p, TRUE)
           d == IF want > q.denied THEN want ELSE q.denied
           g == ThrottleLimit(i, grant)
           t == [q EXCEPT !.granted = g, !.contract = grant, !.denied = d, !.state = "THROTTLED"]
<1>1. q \in PortCtx
  BY RenegotiateType
<1>2. ThrottledCtx(p, i, grant, want) = t
  BY DEF ThrottledCtx
<1> HIDE DEF q, g, d
<1>3. t.state = "THROTTLED" /\ t.contract = grant
  BY <1>1 DEF PortCtx
<1> HIDE DEF t
<1>4. QED
  BY <1>2, <1>3 DEF Holding

LEMMA apply_throttleWell ==
    ASSUME SettingsOK, NEW s, NEW i \in Ports, WellBut(s, i), s.loader # i,
           NEW grant \in Nat, NEW want \in Nat, grant > 0, NEW b \in BusOutcomes
    PROVE  /\ Well(apply_throttle(s, i, grant, want, b))
           /\ apply_throttle(s, i, grant, want, b).ctx[i].state = "THROTTLED"
<1> DEFINE g == ThrottleLimit(i, grant)
           t == WriteLimits(s, i, g, port_max_w[i], b)
           p == ThrottledCtx(s.ctx[i], i, grant, want)
<1>0. s \in World /\ s.ctx[i] \in PortCtx
  BY PartsType DEF WellBut
<1>1. t \in World /\ t.ctx = s.ctx /\ t.res = s.res
  <2>1. g \in Nat /\ port_max_w[i] \in Nat
    BY ThrottleLimitType, LimitType
  <2> HIDE DEF g
  <2>2. QED
    BY <1>0, <2>1, WriteLimitsType
<1>2. t.loader = s.loader
  BY <1>0 DEF WriteLimits, World
<1>3. apply_throttle(s, i, grant, want, b) = [t EXCEPT !.res[i] = grant, !.ctx[i] = p]
  BY <1>1 DEF apply_throttle, World
<1>4. p \in PortCtx /\ Holding(p, grant) /\ p.state = "THROTTLED"
  BY <1>0, ThrottledCtxType, ThrottledHolding
<1> HIDE DEF t, p
<1>5. Books(s, t)
  BY <1>0, <1>1, <1>2, SameCtxBooks
<1>6. WellBut(t, i)
  BY <1>5, BooksWellBut
<1> DEFINE u == [t EXCEPT !.res[i] = grant, !.ctx[i] = p]
<1>7. u = [t EXCEPT !.res[i] = grant, !.ctx[i] = p]
  OBVIOUS
<1> HIDE DEF u
<1>8. /\ u \in World /\ u.loader = t.loader /\ u.ctx[i] = p /\ u.res[i] = grant
      /\ \A j \in Ports \ {i} : u.ctx[j] = t.ctx[j] /\ u.res[j] = t.res[j]
  BY <1>1, <1>4, <1>7 DEF World
<1>9. Well(u)
  BY <1>2, <1>4, <1>6, <1>8, PutInOrder
<1>10. QED
  BY <1>3, <1>4, <1>7, <1>8, <1>9

LEMMA throttleWell ==
    ASSUME SettingsOK, NEW s, NEW i \in Ports, WellBut(s, i), s.loader # i,
           NEW want \in Nat, want > 0, NEW b \in BusOutcomes
    PROVE  /\ Well(throttle(s, i, want, b))
           /\ throttle(s, i, want, b).ctx[i].state = "THROTTLED"
<1> DEFINE room == budget_headroom(s.res, total) + s.res[i]
           floor == IF room < BASE_RESERVE THEN BASE_RESERVE ELSE room
           n == Least(floor, want)
<1>0. s \in World
  BY DEF WellBut
<1>1. room \in Nat
  BY <1>0, HeadroomType, PartsType
<1>2. throttle(s, i, want, b) = apply_throttle(s, i, n, want, b)
  BY DEF throttle
<1> HIDE DEF room
<1>3. n \in Nat /\ n > 0
  BY <1>1, BaseAssumption DEF Least
<1> HIDE DEF n
<1>4. QED
  BY <1>2, <1>3, apply_throttleWell

\* A shed takes no port below its base, and touches neither the claimant nor
\* a port in its bootloader.
LEMMA shed_lower_priorityWell ==
    ASSUME SettingsOK, NEW s, NEW i \in Ports, Well(s), NEW want \in Nat, NEW b \in BusOutcomes
    PROVE  /\ Well(shed_lower_priority(s, i, want, b))
           /\ shed_lower_priority(s, i, want, b).ctx[i] = s.ctx[i]
<1> DEFINE V == Victims(s, i) \cap b.reach
           take == [v \in Ports |-> Reclaim(s, i, want, V, v)]
           hit == {v \in Ports : take[v] > 0}
           grant == [v \in Ports |-> s.res[v] - take[v]]
           c == [v \in Ports |->
                   IF v \in hit THEN ThrottledCtx(s.ctx[v], v, grant[v], s.ctx[v].contract)
                   ELSE s.ctx[v]]
           t == shed_lower_priority(s, i, want, b)
<1>1. s \in World /\ Lock(s)
  BY DEF Well
<1>2. t \in World
  BY <1>1, shed_lower_priorityType
<1>3. t.ctx = c /\ t.res = grant /\ t.loader = s.loader
  BY <1>1 DEF shed_lower_priority, World
<1>4. V \in SUBSET Victims(s, i)
  OBVIOUS
<1>5. \A v \in Ports : take[v] = Reclaim(s, i, want, V, v) /\ grant[v] = s.res[v] - take[v]
                       /\ (v \in hit <=> take[v] > 0)
  OBVIOUS
<1>6. \A v \in Ports \ V : take[v] = 0
  BY DEF Reclaim
<1>7. \A v \in V : /\ v # i /\ v \in Ports
                   /\ s.ctx[v].state \in {"ACTIVE", "THROTTLED"}
  BY DEF Victims
<1> HIDE DEF V, take, hit, grant, t
<1>8. \A v \in Ports : take[v] \in Nat /\ s.res[v] \in Nat /\ grant[v] \in Nat
                       /\ (v \in hit => grant[v] >= BASE_RESERVE)
  <2> SUFFICES ASSUME NEW v \in Ports
               PROVE  take[v] \in Nat /\ s.res[v] \in Nat /\ grant[v] \in Nat
                      /\ (v \in hit => grant[v] >= BASE_RESERVE)
    OBVIOUS
  <2>1. /\ Reclaim(s, i, want, V, v) \in Nat
        /\ Reclaim(s, i, want, V, v) > 0 => s.res[v] - Reclaim(s, i, want, V, v) >= BASE_RESERVE
        /\ s.res[v] - Reclaim(s, i, want, V, v) \in Nat
    BY <1>1, <1>4, ReclaimBound
  <2>2. s.res[v] \in Nat
    BY <1>1, PartsType
  <2>3. QED
    BY <1>5, <2>1, <2>2
<1>9. \A v \in hit \cap Ports : v # i /\ s.ctx[v].state \in {"ACTIVE", "THROTTLED"}
  BY <1>5, <1>6, <1>7
<1>10. \A v \in Ports : Holding(c[v], grant[v])
  <2> SUFFICES ASSUME NEW v \in Ports PROVE Holding(c[v], grant[v])
    OBVIOUS
  <2>1. CASE v \in hit
    <3>1. s.ctx[v] \in PortCtx /\ s.ctx[v].contract \in Nat
      BY <1>1, PartsType, CtxParts
    <3>2. grant[v] \in Nat /\ grant[v] > 0
      BY <1>8, <2>1, BaseAssumption
    <3>3. Holding(ThrottledCtx(s.ctx[v], v, grant[v], s.ctx[v].contract), grant[v])
      BY <3>1, <3>2, ThrottledHolding
    <3>4. QED
      BY <2>1, <3>3
  <2>2. CASE v \notin hit
    <3>1. grant[v] = s.res[v]
      BY <1>5, <1>8, <2>2
    <3>2. QED
      BY <2>2, <3>1 DEF Well
  <2>3. QED
    BY <2>1, <2>2
<1>11. i \notin hit
  BY <1>9
<1>12. t.ctx[i] = s.ctx[i]
  BY <1>3, <1>11
<1>13. Lock(t)
  BY <1>1, <1>3, <1>9, LoaderPort DEF Lock
<1>14. Well(t)
  BY <1>2, <1>3, <1>10, <1>13 DEF Well
<1>15. QED
  BY <1>12, <1>14 DEF t

LEMMA ContractParts ==
    ASSUME NEW p \in PortCtx, NEW m \in Nat
    PROVE  /\ [p EXCEPT !.contract = m].state = p.state
           /\ [p EXCEPT !.contract = m].contract = m
           /\ [p EXCEPT !.contract = m, !.denied = 0].state = p.state
           /\ [p EXCEPT !.contract = m, !.denied = 0].contract = m
BY DEF PortCtx

LEMMA track_contractWell ==
    ASSUME SettingsOK, NEW s, NEW i \in Ports, Well(s), s.ctx[i].state \in {"ACTIVE", "THROTTLED"},
           NEW late \in BOOLEAN, NEW b \in BusOutcomes
    PROVE  /\ Well(track_contract(s, i, late, b))
           /\ track_contract(s, i, late, b).ctx[i].state \in {"ACTIVE", "THROTTLED"}
<1> DEFINE p == s.ctx[i]
           want == IF p.st.contract < BASE_RESERVE THEN BASE_RESERVE ELSE p.st.contract
           heard == [s EXCEPT !.ctx[i].renegotiating = FALSE]
           shed == IF budget_fits(s.res, total, i, want) THEN heard
                   ELSE shed_lower_priority(heard, i, want, b)
           q == [shed.ctx[i] EXCEPT !.contract = want]
           given == [shed EXCEPT !.res[i] = want, !.ctx[i].contract = want]
           cut == throttle(shed, i, want, b)
<1>0. s \in World
  BY DEF Well
<1>1. want \in Nat /\ want > 0
  <2>1. p.st.contract \in Nat
    BY <1>0, PartsType, CtxParts
  <2>2. QED
    BY <2>1, BaseAssumption
<1>2. Books(s, heard)
  BY <1>0, FlagBooks
<1>3. track_contract(s, i, late, b) \in {s, heard, given, cut}
  BY DEF track_contract
<1> HIDE DEF want, heard
<1>4. Well(heard) /\ heard.ctx[i].state = p.state
  BY <1>2, BooksWell DEF Books
<1>5. Well(shed) /\ shed.ctx[i].state = p.state
  BY <1>1, <1>4, shed_lower_priorityWell
<1> HIDE DEF shed
<1>6. shed \in World /\ WellBut(shed, i) /\ shed.loader # i /\ shed.ctx[i] \in PortCtx
  <2>1. shed \in World /\ WellBut(shed, i)
    BY <1>5, WellParts DEF Well
  <2>2. shed.loader # i
    BY <1>5, PoweredAway
  <2>3. QED
    BY <2>1, <2>2, PartsType
<1>7. Well(cut) /\ cut.ctx[i].state = "THROTTLED"
  BY <1>1, <1>6, throttleWell
<1>8. Well(given) /\ given.ctx[i].state = p.state
  <2>1. q \in PortCtx /\ q.state = p.state /\ q.contract = want
    BY <1>1, <1>5, <1>6, ContractCtx, ContractParts
  <2>2. given = [shed EXCEPT !.res[i] = want, !.ctx[i] = q]
    BY <1>6 DEF World
  <2> HIDE DEF q, given
  <2>3. Holding(q, want)
    BY <1>1, <2>1 DEF Holding
  <2>4. /\ given \in World /\ given.loader = shed.loader /\ given.ctx[i] = q /\ given.res[i] = want
        /\ \A j \in Ports \ {i} : given.ctx[j] = shed.ctx[j] /\ given.res[j] = shed.res[j]
    BY <1>1, <1>6, <2>1, <2>2 DEF World
  <2>5. Well(given)
    BY <1>6, <2>3, <2>4, PutInOrder
  <2>6. QED
    BY <1>5, <2>1, <2>4, <2>5
<1> HIDE DEF given, cut
<1>9. QED
  BY <1>3, <1>4, <1>7, <1>8

LEMMA unthrottleWell ==
    ASSUME SettingsOK, NEW s, NEW i \in Ports, Well(s), s.ctx[i].contract # 0,
           s.ctx[i].state = "THROTTLED", NEW b \in BusOutcomes
    PROVE  Well(unthrottle(s, i, b))
<1> DEFINE yes == TRUE
           t == [set_limits(s, i, limit_for(i), port_max_w[i], yes, b)
                   EXCEPT !.ctx[i].granted = limit_for(i)]
<1>0. s \in World /\ yes \in BOOLEAN
  BY DEF Well
<1>1. unthrottle(s, i, b) \in {enter(s, i, "ACTIVE"), enter(t, i, "ACTIVE")}
  BY DEF unthrottle
<1> HIDE DEF yes
<1>2. Books(s, t)
  BY <1>0, LimitedBooks
<1> HIDE DEF t
<1>3. \A u : Books(s, u) => Well(enter(u, i, "ACTIVE"))
  <2> SUFFICES ASSUME NEW u, Books(s, u) PROVE Well(enter(u, i, "ACTIVE"))
    OBVIOUS
  <2>1. Well(u)
    BY BooksWell
  <2>2. u.ctx[i].contract # 0 /\ u.ctx[i].state = "THROTTLED" /\ u \in World
    BY DEF Books
  <2>3. u.ctx[i] \in PortCtx /\ u.res[i] \in Nat /\ u.res[i] = u.ctx[i].contract
    BY <2>1, <2>2, PartsType DEF Well, Holding, Powered
  <2>4. "ACTIVE" \in States /\ "ACTIVE" \in {"ACTIVE", "THROTTLED"}
    BY StateNames
  <2>5. Holding([u.ctx[i] EXCEPT !.state = "ACTIVE"], u.res[i])
    BY <2>2, <2>3, <2>4, HoldingAfter
  <2>6. QED
    BY <2>1, <2>4, <2>5, WellParts, enterWell
<1>4. QED
  BY <1>0, <1>1, <1>2, <1>3, BooksSame

LEMMA RecoverWell ==
    ASSUME SettingsOK, NEW s, NEW i \in Ports, Well(s), NEW due \in BOOLEAN, NEW b \in BusOutcomes
    PROVE  Well(Recover(s, i, due, b))
<1> DEFINE n == s.ctx[i].denied
           room == budget_headroom(s.res, total)
           more == s.res[i] + room
           q == [s.ctx[i] EXCEPT !.contract = n, !.denied = 0]
           all == [s EXCEPT !.res[i] = n, !.ctx[i].contract = n, !.ctx[i].denied = 0]
<1>0. s \in World /\ WellBut(s, i) /\ s.ctx[i] \in PortCtx
  BY WellParts, PartsType DEF Well
<1>1. n \in Nat /\ room \in Nat /\ s.res[i] \in Nat
  BY <1>0, HeadroomType, PartsType, CtxParts
<1>2. \/ Recover(s, i, due, b) = s
      \/ s.ctx[i].state = "THROTTLED" /\ n - s.res[i] > 0
         /\ Recover(s, i, due, b) = unthrottle(all, i, b)
      \/ s.ctx[i].state = "THROTTLED" /\ room >= UNTHROTTLE_STEP_MIN
         /\ Recover(s, i, due, b) = apply_throttle(s, i, more, n, b)
  BY DEF Recover
<1>3. all = [s EXCEPT !.res[i] = n, !.ctx[i] = q]
  BY <1>0 DEF World
<1>4. q \in PortCtx /\ q.state = s.ctx[i].state /\ q.contract = n
  BY <1>0, <1>1, ContractCtx, ContractParts
<1> HIDE DEF n, room, q, all
<1>5. s.ctx[i].state = "THROTTLED" => s.loader # i
  BY PoweredAway
<1>6. CASE s.ctx[i].state = "THROTTLED" /\ n - s.res[i] > 0
           /\ Recover(s, i, due, b) = unthrottle(all, i, b)
  <2>1. n > 0
    BY <1>1, <1>6
  <2>2. Holding(q, n)
    BY <1>4, <1>6, <2>1 DEF Holding
  <2>3. /\ all \in World /\ all.loader = s.loader /\ all.ctx[i] = q /\ all.res[i] = n
        /\ \A j \in Ports \ {i} : all.ctx[j] = s.ctx[j] /\ all.res[j] = s.res[j]
    BY <1>0, <1>1, <1>3, <1>4 DEF World
  <2>4. Well(all) /\ all.ctx[i].contract # 0 /\ all.ctx[i].state = "THROTTLED"
    <3>1. Well(all)
      BY <1>0, <1>5, <1>6, <2>2, <2>3, PutInOrder
    <3>2. QED
      BY <1>1, <1>4, <1>6, <2>1, <2>3, <3>1
  <2>5. QED
    BY <1>6, <2>4, unthrottleWell
<1>7. CASE s.ctx[i].state = "THROTTLED" /\ room >= UNTHROTTLE_STEP_MIN
           /\ Recover(s, i, due, b) = apply_throttle(s, i, more, n, b)
  <2>1. more \in Nat /\ more > 0
    BY <1>1, <1>7, FsmAssumption
  <2> HIDE DEF more
  <2>2. QED
    BY <1>0, <1>1, <1>5, <1>7, <2>1, apply_throttleWell
<1>8. QED
  BY <1>2, <1>6, <1>7

------------------------------------------------------------------------------
(* A powered port's tick *)

LEMMA charge_trackWell ==
    ASSUME NEW s, NEW i \in Ports, Well(s), NEW charge, NEW b \in BusOutcomes
    PROVE  Well(charge_track(s, i, charge, b))
<1> DEFINE t == [s EXCEPT !.ctx[i].charged = TRUE]
           u == [s EXCEPT !.ctx[i].charged = FALSE]
<1>0. s \in World /\ WellBut(s, i)
  BY WellParts DEF Well
<1>1. charge_track(s, i, charge, b) \in {s, t, u, auto_off(s, i, b)}
  BY DEF charge_track
<1>2. Books(s, t) /\ Books(s, u)
  BY <1>0, FlagBooks
<1> HIDE DEF t, u
<1>3. Well(t) /\ Well(u)
  BY <1>2, BooksWell
<1>4. Well(auto_off(s, i, b))
  BY <1>0, switch_offWell
<1>5. QED
  BY <1>1, <1>3, <1>4

LEMMA attach_beginBooks ==
    ASSUME NEW s \in World, NEW i \in Ports
    PROVE  Books(s, attach_begin(s, i))
<1> DEFINE p == [s.ctx[i] EXCEPT !.renegotiating = FALSE, !.charged = FALSE]
<1>0. s.ctx[i] \in PortCtx
  BY PartsType
<1>1. p \in PortCtx /\ p.state = s.ctx[i].state /\ p.contract = s.ctx[i].contract
  BY <1>0 DEF PortCtx
<1>2. attach_begin(s, i) = [s EXCEPT !.ctx[i] = p]
  BY DEF attach_begin, World
<1> HIDE DEF p
<1>3. QED
  BY <1>1, <1>2, CtxBooks

LEMMA ServeIdleWell ==
    ASSUME SettingsOK, NEW s, NEW i \in Ports, Well(s), s.ctx[i].state = "IDLE",
           NEW c \in Chance, NEW b \in BusOutcomes
    PROVE  Well(ServeIdle(s, i, c, b))
<1> DEFINE t == sync_limit(s, i, b)
           k == attach_begin(t, i)
           a == enter(k, i, "ACTIVE")
           l == send_to_loader(t, i, b)
           r == track_contract(a, i, FALSE, b)
<1>0. s \in World
  BY DEF Well
<1>1. Books(s, t)
  BY <1>0, sync_limitBooks
<1>2. ServeIdle(s, i, c, b) \in {t, l, r}
  BY DEF ServeIdle
<1> HIDE DEF t
<1>3. Well(t) /\ t \in World
  BY <1>1, BooksWell DEF Books
<1>4. Books(t, k)
  BY <1>3, attach_beginBooks
<1> HIDE DEF k
<1>5. Well(k) /\ k \in World /\ k.ctx[i].state = "IDLE"
  BY <1>1, <1>3, <1>4, BooksWell DEF Books
<1>6. k.ctx[i].contract = 0 /\ k.res[i] = BASE_RESERVE /\ k.ctx[i] \in PortCtx
  BY <1>5, PartsType DEF Well, Holding, Powered
<1>7. "ACTIVE" \in States /\ "ACTIVE" \in Powered
  BY DEF States, Powered
<1>8. Holding([k.ctx[i] EXCEPT !.state = "ACTIVE"], k.res[i])
  BY <1>6, <1>7, NatParameters, HoldingAfter
<1>9. Well(a) /\ a.ctx[i].state = "ACTIVE"
  <2>1. Well(a)
    BY <1>5, <1>7, <1>8, WellParts, enterWell
  <2>2. a.ctx[i] = [k.ctx[i] EXCEPT !.state = "ACTIVE"]
    BY <1>5, <1>7, enterParts
  <2>3. [k.ctx[i] EXCEPT !.state = "ACTIVE"].state = "ACTIVE"
    BY <1>6 DEF PortCtx
  <2>4. QED
    BY <2>1, <2>2, <2>3
<1> HIDE DEF a
<1>10. Well(r)
  BY <1>9, track_contractWell
<1>11. Well(l)
  BY <1>3, send_to_loaderWell
<1>12. QED
  BY <1>2, <1>3, <1>10, <1>11

LEMMA ServeAttachedWell ==
    ASSUME SettingsOK, NEW s, NEW i \in Ports, Well(s), s.ctx[i].state \in {"ACTIVE", "THROTTLED"},
           NEW c \in Chance, NEW b \in BusOutcomes
    PROVE  Well(ServeAttached(s, i, c, b))
<1> DEFINE l == sync_limit(s, i, b)
           late == c.late /\ l.ctx[i].granted = s.ctx[i].granted
           t == track_contract(l, i, late, b)
           u == charge_track(t, i, c.charge, b)
           v == send_to_loader(u, i, b)
           r == Recover(u, i, c.due, b)
           w == Recover(v, i, c.due, b)
<1>0. s \in World
  BY DEF Well
<1>1. c.late \in BOOLEAN /\ c.due \in BOOLEAN
  BY DEF Chance
<1>2. late \in BOOLEAN
  BY <1>1
<1>3. ServeAttached(s, i, c, b) \in {u, v, r, w}
  BY DEF ServeAttached
<1> HIDE DEF late
<1>4. Books(s, l)
  BY <1>0, sync_limitBooks
<1> HIDE DEF l
<1>5. Well(l) /\ l.ctx[i].state \in {"ACTIVE", "THROTTLED"}
  BY <1>4, BooksWell DEF Books
<1>6. Well(t)
  BY <1>2, <1>5, track_contractWell
<1> HIDE DEF t
<1>7. Well(u)
  BY <1>6, charge_trackWell
<1> HIDE DEF u
<1>8. Well(v)
  BY <1>7, send_to_loaderWell
<1> HIDE DEF v
<1>9. Well(r) /\ Well(w)
  BY <1>1, <1>7, <1>8, RecoverWell
<1> HIDE DEF r, w
<1>10. QED
  BY <1>3, <1>7, <1>8, <1>9

LEMMA DetachedBut ==
    ASSUME NEW s, NEW i \in Ports, WellBut(s, i)
    PROVE  /\ WellBut(Detached(s, i), i)
           /\ Detached(s, i).ctx[i].contract = 0 /\ Detached(s, i).res[i] = BASE_RESERVE
<1> DEFINE p == [s.ctx[i] EXCEPT !.contract = 0, !.denied = 0]
           t == [s EXCEPT !.res[i] = BASE_RESERVE, !.ctx[i] = p]
           z == 0
<1>0. s \in World /\ s.ctx[i] \in PortCtx /\ z \in Nat
  BY PartsType DEF WellBut
<1>1. p \in PortCtx /\ p.state = s.ctx[i].state /\ p.contract = 0
  BY <1>0, ContractCtx, ContractParts
<1>2. Detached(s, i) = t
  BY <1>0 DEF Detached, World
<1> HIDE DEF p
<1>3. t.ctx[i] = p /\ t.res[i] = BASE_RESERVE
  BY <1>0 DEF World
<1>4. WellBut(t, i)
  BY <1>1, NatParameters, OutOfOrder
<1>5. QED
  BY <1>1, <1>2, <1>3, <1>4

LEMMA ServeWell ==
    ASSUME SettingsOK, NEW s, NEW i \in Ports, Well(s), s.ctx[i].state \in Powered,
           NEW c \in Chance, NEW b \in BusOutcomes
    PROVE  Well(Serve(s, i, c, b))
<1> DEFINE e == Detached(s, i)
           d == sync_limit(e, i, b)
<1>1. \/ s.ctx[i].state = "IDLE" /\ Serve(s, i, c, b) = ServeIdle(s, i, c, b)
      \/ s.ctx[i].state # "IDLE" /\ Serve(s, i, c, b) = ServeAttached(s, i, c, b)
      \/ Serve(s, i, c, b) = go_idle(d, i)
  BY DEF Serve
<1>2. WellBut(e, i) /\ e.ctx[i].contract = 0 /\ e.res[i] = BASE_RESERVE
  BY WellParts, DetachedBut
<1> HIDE DEF e
<1>3. Books(e, d)
  BY <1>2, sync_limitBooks DEF WellBut
<1> HIDE DEF d
<1>4. WellBut(d, i) /\ d.ctx[i].contract = 0 /\ d.res[i] = BASE_RESERVE
  BY <1>2, <1>3, BooksWellBut DEF Books
<1>5. Well(go_idle(d, i))
  BY <1>4, go_idleWell
<1>6. CASE s.ctx[i].state = "IDLE" /\ Serve(s, i, c, b) = ServeIdle(s, i, c, b)
  BY <1>6, ServeIdleWell
<1>7. CASE s.ctx[i].state # "IDLE" /\ Serve(s, i, c, b) = ServeAttached(s, i, c, b)
  <2>1. s.ctx[i].state \in {"ACTIVE", "THROTTLED"}
    BY <1>7 DEF Powered
  <2>2. QED
    BY <1>7, <2>1, ServeAttachedWell
<1>8. QED
  BY <1>1, <1>5, <1>6, <1>7

LEMMA HeardBooks ==
    ASSUME NEW s \in World, NEW i \in Ports
    PROVE  Books(s, Heard(s, i))
<1> DEFINE t == [attached |-> s.sink[i] # 0, contract |-> s.sink[i]]
           p == [s.ctx[i] EXCEPT !.st = t, !.polls = 0, !.silent = FALSE]
<1>1. t \in [attached : BOOLEAN, contract : Nat]
  BY PlugType
<1>2. Heard(s, i) = [s EXCEPT !.ctx[i] = p]
  BY ZenonT(40) DEF Heard, World
<1> HIDE DEF t
<1>3. s.ctx[i] \in PortCtx
  BY PartsType
<1>4. p \in PortCtx
  BY <1>1, <1>3, HeardCtx
<1>5. p.state = s.ctx[i].state /\ p.contract = s.ctx[i].contract
  BY <1>3 DEF PortCtx
<1> HIDE DEF p
<1>6. QED
  BY <1>2, <1>4, <1>5, CtxBooks

LEMMA ReadoptedBooks ==
    ASSUME SettingsOK, NEW s \in World, NEW i \in Ports
    PROVE  Books(s, Readopted(s, i))
<1>1. Readopted(s, i) \in World
  BY ReadoptedType
<1>2. /\ Readopted(s, i).ctx = s.ctx /\ Readopted(s, i).res = s.res
      /\ Readopted(s, i).loader = s.loader
  BY DEF Readopted, World
<1>3. QED
  BY <1>1, <1>2, SameCtxBooks

LEMMA RecheckBooks ==
    ASSUME SettingsOK, NEW s \in World, NEW i \in Ports
    PROVE  Books(s, Recheck(s, i))
BY LimitType, GrantedBooks, BooksSame DEF Recheck

LEMMA PollsBooks ==
    ASSUME NEW s \in World, NEW i \in Ports, NEW n \in Nat
    PROVE  /\ Books(s, [s EXCEPT !.ctx[i].polls = n])
           /\ Books(s, [s EXCEPT !.ctx[i].silent = TRUE, !.ctx[i].polls = n])
<1> DEFINE m == [s.ctx[i] EXCEPT !.polls = n]
           q == [s.ctx[i] EXCEPT !.silent = TRUE, !.polls = n]
<1>1. s.ctx[i] \in PortCtx
  BY PartsType
<1>2. m \in PortCtx /\ q \in PortCtx
  BY <1>1, PollsCtx
<1>3. m.state = s.ctx[i].state /\ m.contract = s.ctx[i].contract
  BY <1>1 DEF PortCtx
<1>4. q.state = s.ctx[i].state /\ q.contract = s.ctx[i].contract
  BY <1>1 DEF PortCtx
<1>5. [s EXCEPT !.ctx[i].polls = n] = [s EXCEPT !.ctx[i] = m]
  BY DEF World
<1>6. [s EXCEPT !.ctx[i].silent = TRUE, !.ctx[i].polls = n] = [s EXCEPT !.ctx[i] = q]
  BY DEF World
<1> HIDE DEF m, q
<1>7. Books(s, [s EXCEPT !.ctx[i] = m])
  BY <1>2, <1>3, CtxBooks
<1>8. Books(s, [s EXCEPT !.ctx[i] = q])
  BY <1>2, <1>4, CtxBooks
<1>9. QED
  BY <1>5, <1>6, <1>7, <1>8

\* A port that serves nobody yet holds no contract.
LEMMA UnpoweredResting ==
    ASSUME NEW s, NEW i \in Ports, Well(s), s.ctx[i].state \notin Powered
    PROVE  WellBut(s, i) /\ Resting(s, i)
<1>1. s \in World /\ WellBut(s, i) /\ Holding(s.ctx[i], s.res[i])
  BY WellParts DEF Well
<1>2. s.ctx[i].state \in States
  BY <1>1, PartsType, CtxParts
<1>3. QED
  BY <1>1, <1>2 DEF Holding, Resting, States, Powered

LEMMA ReprobedWell ==
    ASSUME NEW s, NEW i \in Ports, Well(s)
    PROVE  Well(Reprobed(s, i))
<1> DEFINE p == [s.ctx[i] EXCEPT !.contract = 0]
           t == [s EXCEPT !.res[i] = BASE_RESERVE, !.ctx[i] = p]
<1>0. s \in World /\ WellBut(s, i) /\ s.ctx[i] \in PortCtx /\ 0 \in Nat
  BY WellParts, PartsType DEF Well
<1>1. p \in PortCtx /\ p.state = s.ctx[i].state /\ p.contract = 0
  BY <1>0, ContractCtx, ContractParts
<1>2. [s EXCEPT !.res[i] = BASE_RESERVE, !.ctx[i].contract = 0] = t
  BY <1>0 DEF World
<1>3. Reprobed(s, i) = start_probe(t, i)
  BY <1>2 DEF Reprobed
<1> HIDE DEF p
<1>4. t.ctx[i] = p /\ t.res[i] = BASE_RESERVE
  BY <1>0 DEF World
<1>5. WellBut(t, i)
  BY <1>0, <1>1, NatParameters, OutOfOrder
<1> HIDE DEF t
<1>6. Resting(t, i)
  BY <1>1, <1>4 DEF Resting
<1>7. QED
  BY <1>3, <1>5, <1>6, start_probeWell

LEMMA blade_silentWell ==
    ASSUME SettingsOK, NEW s, NEW i \in Ports, Well(s), s.ctx[i].state \in Powered,
           NEW loader \in BOOLEAN, NEW c \in Chance, NEW b \in BusOutcomes
    PROVE  Well(blade_silent(s, i, loader, c, b))
<1> DEFINE p == s.ctx[i]
           more == p.polls + 1
           n == IF p.silent THEN p.polls ELSE more
           r == Released(p)
           missed == [s EXCEPT !.ctx[i].polls = more]
           quiet == [s EXCEPT !.ctx[i].silent = TRUE, !.ctx[i].polls = n]
           gone == [s EXCEPT !.res[i] = 0, !.ctx[i] = r]
           serves == Serve(missed, i, c, b)
           loads == begin_update(gone, i, b)
<1>0. s \in World /\ WellBut(s, i)
  BY WellParts DEF Well
<1>1. p \in PortCtx /\ p.polls \in Nat
  BY <1>0, PartsType, CtxParts
<1>2. more \in Nat /\ n \in Nat
  BY <1>1
<1>3. [s EXCEPT !.ctx[i].polls = @ + 1] = missed
  BY <1>0 DEF World
<1>4. [s EXCEPT !.ctx[i].silent = TRUE, !.ctx[i].polls = IF p.silent THEN @ ELSE @ + 1] = quiet
  BY <1>0 DEF World
<1>5. blade_silent(s, i, loader, c, b) \in {serves, loads, quiet}
  BY <1>3, <1>4 DEF blade_silent
<1> HIDE DEF more, n
<1>6. Books(s, missed) /\ Books(s, quiet)
  BY <1>0, <1>2, PollsBooks
<1> HIDE DEF missed, quiet
<1>7. Well(missed) /\ Well(quiet) /\ missed.ctx[i].state \in Powered
  BY <1>6, BooksWell DEF Books
<1>8. Well(serves)
  BY <1>7, ServeWell
<1>9. r \in PortCtx /\ r.contract = 0 /\ r.state = p.state
  BY <1>1, ReleasedType, ReleasedContract
<1> HIDE DEF r
<1>10. WellBut(gone, i) /\ Resting(gone, i)
  BY <1>0, <1>9, LetGo
<1> HIDE DEF gone
<1>11. Well(loads)
  BY <1>10, begin_updateWell
<1> HIDE DEF serves, loads
<1>12. QED
  BY <1>5, <1>7, <1>8, <1>11

------------------------------------------------------------------------------
(* The ticks *)

\* A world in order is put in place.
Ordered(w) == Well(w) /\ Becomes(w)

LEMMA PowerDownOrdered ==
    ASSUME Well(Now), NEW i \in Ports, NEW b \in BusOutcomes,
           Becomes(power_down(Now, i, "ABSENT", b))
    PROVE  \E w : Ordered(w)
BY WellParts, power_downWell DEF Ordered

LEMMA TickPoweredOrdered ==
    ASSUME SettingsOK, Well(Now), NEW i \in Ports, NEW on, NEW c \in Chance,
           TickPowered(i, on, c)
    PROVE  \E w : Ordered(w)
<1>1. PICK b \in BusOutcomes :
         LET s == Recheck(Select(Now, i, b), i)
             h == Heard(Readopted(s, i), i)
         IN
         \/ Becomes(power_down(Now, i, "ABSENT", b))
         \/ Becomes(Now)
         \/ Becomes(Serve(Now, i, c, b))
         \/ \E loader \in BOOLEAN : Becomes(blade_silent(s, i, loader, c, b))
         \/ Becomes(fault(Heard(s, i), i, b))
         \/ Becomes(Reprobed(h, i))
         \/ Becomes(Serve(h, i, c, b))
  BY DEF TickPowered
<1> DEFINE a == Select(Now, i, b)
           s == Recheck(a, i)
           r == Readopted(s, i)
           h == Heard(r, i)
           g == Heard(s, i)
<1>2. Now \in World /\ Now.ctx[i].state \in Powered
  BY DEF Well, Now, TickPowered
<1>3. Books(Now, a)
  BY <1>2, SelectBooks
<1> HIDE DEF a
<1>4. Books(a, s)
  BY <1>3, RecheckBooks DEF Books
<1> HIDE DEF s
<1>5. Books(s, r) /\ Books(s, g)
  BY <1>4, ReadoptedBooks, HeardBooks DEF Books
<1> HIDE DEF r, g
<1>6. Books(r, h)
  BY <1>5, HeardBooks DEF Books
<1> HIDE DEF h
<1>7. Well(s) /\ s.ctx[i].state \in Powered
  <2>1. Books(Now, s)
    BY <1>3, <1>4, BooksTrans
  <2>2. QED
    BY <1>2, <2>1, BooksWell DEF Books
<1>8. Well(h) /\ h.ctx[i].state \in Powered /\ Well(g)
  <2>1. Books(s, h)
    BY <1>5, <1>6, BooksTrans
  <2>2. QED
    BY <1>5, <1>7, <2>1, BooksWell DEF Books
<1>9. Well(Serve(Now, i, c, b)) /\ Well(Serve(h, i, c, b))
  BY <1>2, <1>8, ServeWell
<1>10. \A loader \in BOOLEAN : Well(blade_silent(s, i, loader, c, b))
  BY <1>7, blade_silentWell
<1>11. Well(fault(g, i, b))
  BY <1>8, WellParts, faultWell
<1>12. Well(Reprobed(h, i))
  BY <1>8, ReprobedWell
<1>13. CASE Becomes(power_down(Now, i, "ABSENT", b))
  BY <1>13, PowerDownOrdered
<1>14. CASE \E w : Well(w) /\ Becomes(w)
  BY <1>14 DEF Ordered
<1>15. QED
  BY <1>1, <1>9, <1>10, <1>11, <1>12, <1>13, <1>14, Zenon DEF a, s, r, h, g

LEMMA TickAbsentOrdered ==
    ASSUME Well(Now), NEW i \in Ports, NEW on, TickAbsent(i, on)
    PROVE  \E w : Ordered(w)
<1> DEFINE e == enter(Now, i, "DISABLED")
           p == start_probe(Now, i)
<1>1. Now.ctx[i].state = "ABSENT" /\ Now \in World
  BY DEF TickAbsent, Now, Well
<1>2. WellBut(Now, i) /\ Resting(Now, i)
  BY <1>1, UnpoweredResting DEF Powered
<1>3. Well(p)
  BY <1>2, start_probeWell
<1>4. Well(e)
  <2>1. Now.ctx[i] \in PortCtx /\ Now.res[i] \in Nat
    BY <1>1, PartsType
  <2>2. Now.ctx[i].contract = 0 /\ Now.res[i] = 0
    BY <1>1, <1>2 DEF Resting, Well, Holding
  <2>3. Holding([Now.ctx[i] EXCEPT !.state = "DISABLED"], Now.res[i])
    BY <2>1, <2>2, HoldingAfter, StateNames
  <2>4. QED
    BY <1>2, <2>3, enterWell, StateNames
<1>5. Becomes(Now) \/ Becomes(e) \/ Becomes(p)
  BY DEF TickAbsent
<1> HIDE DEF e, p
<1>6. QED
  BY <1>3, <1>4, <1>5 DEF Ordered

LEMMA ProbingBooks ==
    ASSUME Now \in World, NEW i \in Ports
    PROVE  Books(Now, Probing(i))
<1> DEFINE p == [Now.ctx[i] EXCEPT !.grace = FALSE, !.switching = TRUE]
<1>1. Now.ctx[i] \in PortCtx
  BY PartsType
<1>2. p \in PortCtx
  BY <1>1 DEF PortCtx
<1>3. p.state = Now.ctx[i].state /\ p.contract = Now.ctx[i].contract
  BY <1>1 DEF PortCtx
<1>4. [Now EXCEPT !.ctx[i].grace = FALSE, !.ctx[i].switching = TRUE] = [Now EXCEPT !.ctx[i] = p]
  BY DEF World
<1>5. Probing(i) \in {Now, [Now EXCEPT !.ctx[i] = p]}
  BY <1>4 DEF Probing
<1> HIDE DEF p
<1>6. Books(Now, [Now EXCEPT !.ctx[i] = p])
  BY <1>2, <1>3, CtxBooks
<1>7. QED
  BY <1>5, <1>6, BooksSame

LEMMA IdentifiedBooks ==
    ASSUME NEW s \in World, NEW i \in Ports, NEW g \in Generations, NEW id \in Identity
    PROVE  Books(s, Identified(s, i, g, id))
<1> DEFINE p == [s.ctx[i] EXCEPT !.gen = g, !.id = id]
           n == IF id.ok /\ blade_wants(p) = {} THEN 0 ELSE p.rounds
           q == [p EXCEPT !.rounds = n]
<1>0. s.ctx[i] \in PortCtx
  BY PartsType
<1>1. p \in PortCtx
  BY <1>0 DEF PortCtx
<1>2. p.state = s.ctx[i].state /\ p.contract = s.ctx[i].contract
  BY <1>0 DEF PortCtx
<1>3. Identified(s, i, g, id) = [s EXCEPT !.ctx[i] = q]
  BY DEF Identified
<1> HIDE DEF p
<1>4. n \in 0..UPDATE_ROUNDS_MAX
  BY <1>1, CtxParts, NatParameters
<1> HIDE DEF n
<1>5. q \in PortCtx
  BY <1>1, <1>4 DEF PortCtx
<1>6. q.state = p.state /\ q.contract = p.contract
  BY <1>1 DEF PortCtx
<1> HIDE DEF q
<1>7. QED
  BY <1>2, <1>3, <1>5, <1>6, CtxBooks

LEMMA GenBooks ==
    ASSUME NEW s \in World, NEW i \in Ports, NEW g \in Generations
    PROVE  Books(s, [s EXCEPT !.ctx[i].gen = g])
<1> DEFINE p == [s.ctx[i] EXCEPT !.gen = g]
<1>0. s.ctx[i] \in PortCtx
  BY PartsType
<1>1. p \in PortCtx /\ p.state = s.ctx[i].state /\ p.contract = s.ctx[i].contract
  BY <1>0 DEF PortCtx
<1>2. [s EXCEPT !.ctx[i].gen = g] = [s EXCEPT !.ctx[i] = p]
  BY DEF World
<1> HIDE DEF p
<1>3. QED
  BY <1>1, <1>2, CtxBooks

\* What a port that is out of order has become does not matter to the others.
LEMMA OthersWell ==
    ASSUME NEW s, NEW i \in Ports, WellBut(s, i),
           NEW t \in World, t.loader = s.loader, t.ctx[i].state = s.ctx[i].state,
           \A j \in Ports \ {i} : t.ctx[j] = s.ctx[j] /\ t.res[j] = s.res[j]
    PROVE  WellBut(t, i)
<1>1. s \in World /\ Lock(s)
  BY DEF WellBut
<1>2. Lock(t)
  BY <1>1, LoaderPort DEF Lock
<1>3. QED
  BY <1>2 DEF WellBut

LEMMA ConfiguredWell ==
    ASSUME SettingsOK, NEW s, NEW i \in Ports, WellBut(s, i), Resting(s, i)
    PROVE  Well(Configured(s, i))
<1> DEFINE m == limit_for(i)
           o == [w |-> m, v |-> port_max_w[i]]
           p == [s.ctx[i] EXCEPT !.granted = m]
           t == [s EXCEPT !.ctx[i] = p, !.res[i] = BASE_RESERVE, !.offer[i] = o]
<1>0. s \in World /\ s.ctx[i] \in PortCtx /\ m \in Nat
  BY PartsType, LimitType DEF WellBut
<1>1. o \in [w : Nat, v : Nat]
  BY LimitType, OfferType
<1>2. [s EXCEPT !.ctx[i].granted = m, !.res[i] = BASE_RESERVE, !.offer[i] = o] = t
  BY <1>0 DEF World
<1>3. Configured(s, i) = go_idle(t, i)
  BY <1>2 DEF Configured
<1> HIDE DEF m, o
<1>4. p \in PortCtx
  BY <1>0 DEF PortCtx
<1>5. p.state = s.ctx[i].state /\ p.contract = s.ctx[i].contract
  BY <1>0 DEF PortCtx
<1> HIDE DEF p
<1>6. t \in World
  BY <1>0, <1>1, <1>4, ServedUpdate
<1>7. /\ t.loader = s.loader /\ t.ctx[i] = p /\ t.res[i] = BASE_RESERVE
      /\ \A j \in Ports \ {i} : t.ctx[j] = s.ctx[j] /\ t.res[j] = s.res[j]
  BY <1>0 DEF World
<1> HIDE DEF t
<1>8. WellBut(t, i)
  BY <1>5, <1>6, <1>7, OthersWell
<1>9. QED
  BY <1>3, <1>5, <1>7, <1>8, go_idleWell DEF Resting

LEMMA AdoptedWell ==
    ASSUME SettingsOK, NEW s, NEW i \in Ports, WellBut(s, i), Resting(s, i)
    PROVE  Well(Adopted(s, i))
<1> DEFINE max == limit_for(i)
           keep == /\ s.ctx[i].gen = "GEN_3" /\ s.sink[i] # 0 /\ s.offer[i].w # 0
                   /\ s.offer[i].v = port_max_w[i] /\ s.offer[i].w <= max
           w == IF keep THEN s.offer[i].w ELSE max
           h == Heard(s, i).ctx[i]
           n == s.ctx[i].polls
           p == [h EXCEPT !.polls = n, !.warm = FALSE, !.granted = w]
           o == [w |-> w, v |-> port_max_w[i]]
           t == [s EXCEPT !.ctx[i] = p, !.res[i] = BASE_RESERVE, !.offer[i] = o]
           k == attach_begin(t, i)
           m == offer_w(i, max)
           q == [k.ctx[i] EXCEPT !.denied = m]
           d == [k EXCEPT !.ctx[i].denied = m]
<1>0. s \in World
  BY DEF WellBut
<1>1. Adopted(s, i) \in {enter(d, i, "THROTTLED"), go_idle(t, i)}
  BY DEF Adopted
<1>2. w \in Nat /\ m \in Nat
  <2>1. s.offer[i].w \in Nat
    BY <1>0, PartsType
  <2>2. QED
    BY <2>1, LimitType
<1> HIDE DEF w, m
<1>3. o \in [w : Nat, v : Nat]
  BY <1>2, LimitType, OfferType
<1> HIDE DEF o
<1>4. h \in PortCtx /\ n \in Nat
  BY <1>0, HeardType, PartsType, CtxParts
<1>5. h.state = s.ctx[i].state /\ h.contract = s.ctx[i].contract
  BY <1>0, HeardBooks DEF Books
<1> HIDE DEF h, n
<1>6. p \in PortCtx
  BY <1>2, <1>4, AdoptedCtx
<1>7. p.state = s.ctx[i].state /\ p.contract = 0
  BY <1>4, <1>5 DEF PortCtx, Resting
<1> HIDE DEF p
<1>8. t \in World
  BY <1>0, <1>3, <1>6, ServedUpdate
<1>9. /\ t.loader = s.loader /\ t.ctx[i] = p /\ t.res[i] = BASE_RESERVE
      /\ \A j \in Ports \ {i} : t.ctx[j] = s.ctx[j] /\ t.res[j] = s.res[j]
  BY <1>0 DEF World
<1> HIDE DEF t
<1>10. WellBut(t, i)
  BY <1>7, <1>8, <1>9, OthersWell
<1>11. Well(go_idle(t, i))
  BY <1>7, <1>9, <1>10, go_idleWell
<1>12. Books(t, k)
  BY <1>8, attach_beginBooks
<1> HIDE DEF k
<1>13. Books(k, d)
  <2>1. k \in World /\ k.ctx[i] \in PortCtx
    BY <1>12, PartsType DEF Books
  <2>2. q \in PortCtx /\ q.state = k.ctx[i].state /\ q.contract = k.ctx[i].contract
    BY <1>2, <2>1 DEF PortCtx
  <2>3. d = [k EXCEPT !.ctx[i] = q]
    BY <2>1 DEF World
  <2> HIDE DEF q, d
  <2>4. QED
    BY <2>1, <2>2, <2>3, CtxBooks
<1> HIDE DEF d
<1>14. WellBut(d, i) /\ d.ctx[i].contract = 0 /\ d.res[i] = BASE_RESERVE /\ d.ctx[i] \in PortCtx
  <2>1. Books(t, d)
    BY <1>12, <1>13, BooksTrans
  <2>2. WellBut(d, i) /\ d.ctx[i].contract = 0 /\ d.res[i] = BASE_RESERVE /\ d \in World
    BY <1>7, <1>9, <1>10, <2>1, BooksWellBut DEF Books
  <2>3. QED
    BY <2>2, PartsType
<1>15. Well(enter(d, i, "THROTTLED"))
  <2>1. "THROTTLED" \in States /\ "THROTTLED" \in Powered
    BY DEF States, Powered
  <2>2. Holding([d.ctx[i] EXCEPT !.state = "THROTTLED"], d.res[i])
    BY <1>14, <2>1, NatParameters, HoldingAfter
  <2>3. QED
    BY <1>14, <2>1, <2>2, enterWell
<1>16. QED
  BY <1>1, <1>11, <1>15

LEMMA ColdAnswerOrdered ==
    ASSUME SettingsOK, NEW s, Well(s), NEW i \in Ports, s.ctx[i].state = "PROBE",
           NEW late \in BOOLEAN, NEW b \in BusOutcomes, ColdAnswer(s, i, late, b)
    PROVE  \E w : Ordered(w)
<1>1. PICK g \in Answering(s, i),
           id \in ReadIds(IF "GEN_3" \in Found THEN "GEN_3" ELSE "NONE") :
         LET k == Identified(s, i, g, id)
             l == send_to_loader(k, i, b)
         IN  \/ Becomes(begin_update([s EXCEPT !.ctx[i].gen = g], i, b))
             \/ Becomes(l)
             \/ Becomes(Configured(l, i))
             \/ Becomes(probe_failed(l, i, late, b))
  BY DEF ColdAnswer
<1> DEFINE k == Identified(s, i, g, id)
           l == send_to_loader(k, i, b)
           m == [s EXCEPT !.ctx[i].gen = g]
           u == begin_update(m, i, b)
           c == Configured(l, i)
           f == probe_failed(l, i, late, b)
<1>2. g \in Generations /\ id \in Identity /\ s \in World
  BY AnsweringType, ReadIdsType DEF Well
<1>3. Books(s, k) /\ Books(s, m)
  BY <1>2, IdentifiedBooks, GenBooks
<1> HIDE DEF k, m
<1>4. Well(k) /\ k.ctx[i].state = "PROBE" /\ Well(m) /\ m.ctx[i].state = "PROBE"
  BY <1>3, BooksWell DEF Books
<1>5. Well(l) /\ l.ctx[i].state = "PROBE"
  BY <1>4, send_to_loaderWell
<1> HIDE DEF l
<1>6. Well(u)
  BY <1>4, UnpoweredResting, begin_updateWell DEF Powered
<1>7. Well(c)
  BY <1>5, UnpoweredResting, ConfiguredWell DEF Powered
<1>8. Well(f)
  BY <1>5, probe_failedWell
<1>9. Becomes(u) \/ Becomes(l) \/ Becomes(c) \/ Becomes(f)
  BY <1>1, Zenon DEF k, l, m
<1> HIDE DEF u, c, f
<1>10. QED
  BY <1>5, <1>6, <1>7, <1>8, <1>9 DEF Ordered

LEMMA EnOnBooks ==
    ASSUME NEW s \in World, NEW i \in Ports
    PROVE  Books(s, [s EXCEPT !.en[i] = TRUE, !.ctx[i].en_on = TRUE])
<1> DEFINE p == [s.ctx[i] EXCEPT !.en_on = TRUE]
           t == [s EXCEPT !.en[i] = TRUE, !.ctx[i] = p]
<1>0. s.ctx[i] \in PortCtx
  BY PartsType
<1>1. p.state = s.ctx[i].state /\ p.contract = s.ctx[i].contract
  BY <1>0 DEF PortCtx
<1>2. [s EXCEPT !.en[i] = TRUE, !.ctx[i].en_on = TRUE] = t
  BY DEF World
<1>3. t \in World
  BY <1>2, EnOnUpdate
<1> HIDE DEF p
<1>4. /\ t.res = s.res /\ t.loader = s.loader /\ t.ctx[i] = p
      /\ \A j \in Ports \ {i} : t.ctx[j] = s.ctx[j]
  BY DEF World
<1> HIDE DEF t
<1>5. Books(s, t)
  BY <1>1, <1>3, <1>4 DEF Books
<1>6. QED
  BY <1>2, <1>5

LEMMA ColdProbeOrdered ==
    ASSUME SettingsOK, Well(Now), NEW i \in Ports, Now.ctx[i].state = "PROBE",
           NEW c \in Chance, ColdProbe(i, c)
    PROVE  \E w : Ordered(w)
<1>1. PICK b \in BusOutcomes :
         LET s == Probing(i) IN
         \/ Becomes(probe_failed(s, i, c.late, b))
         \/ Becomes([s EXCEPT !.en[i] = TRUE, !.ctx[i].en_on = TRUE])
         \/ Becomes(s)
         \/ ColdAnswer(Select(s, i, b), i, c.late, b)
  BY DEF ColdProbe
<1> DEFINE s == Probing(i)
           a == Select(s, i, b)
           f == probe_failed(s, i, c.late, b)
           e == [s EXCEPT !.en[i] = TRUE, !.ctx[i].en_on = TRUE]
<1>2. Books(Now, s) /\ c.late \in BOOLEAN
  BY ProbingBooks DEF Well, Chance
<1> HIDE DEF s
<1>3. Well(s) /\ s \in World /\ s.ctx[i].state = "PROBE"
  BY <1>2, BooksWell DEF Books
<1>4. Books(s, a) /\ Books(s, e)
  BY <1>3, SelectBooks, EnOnBooks
<1>5. Well(f)
  BY <1>2, <1>3, probe_failedWell
<1>6. Becomes(f) \/ Becomes(e) \/ Becomes(s) \/ ColdAnswer(a, i, c.late, b)
  BY <1>1, Zenon DEF s
<1> HIDE DEF a, f, e
<1>7. Well(a) /\ a.ctx[i].state = "PROBE" /\ Well(e)
  BY <1>3, <1>4, BooksWell DEF Books
<1>8. CASE ColdAnswer(a, i, c.late, b)
  BY <1>2, <1>7, <1>8, ColdAnswerOrdered
<1>9. CASE Becomes(f) \/ Becomes(e) \/ Becomes(s)
  BY <1>3, <1>5, <1>7, <1>9 DEF Ordered
<1>10. QED
  BY <1>6, <1>8, <1>9

LEMMA WarmAnswerOrdered ==
    ASSUME SettingsOK, NEW s, Well(s), NEW i \in Ports, s.ctx[i].state = "PROBE",
           NEW late \in BOOLEAN, NEW b \in BusOutcomes, WarmAnswer(s, i, late, b)
    PROVE  \E w : Ordered(w)
<1>1. PICK g \in IF s.ctx[i].gen = "NONE" \/ s.ctx[i].silent
                 THEN Answering(s, i) ELSE {s.ctx[i].gen} :
      \E id \in ReadIds(g) :
        LET k == IF g = "GEN_3" THEN Identified(s, i, g, id) ELSE [s EXCEPT !.ctx[i].gen = g] IN
        \/ Becomes(begin_update(k, i, b))
        \/ Becomes(Adopted(k, i))
        \/ Becomes(fault([k EXCEPT !.ctx[i].warm = FALSE], i, b))
        \/ Becomes(warm_probe_failed(k, i, late))
  BY ZenonT(40) DEF WarmAnswer
<1>2. PICK id \in ReadIds(g) :
        LET k == IF g = "GEN_3" THEN Identified(s, i, g, id) ELSE [s EXCEPT !.ctx[i].gen = g] IN
        \/ Becomes(begin_update(k, i, b))
        \/ Becomes(Adopted(k, i))
        \/ Becomes(fault([k EXCEPT !.ctx[i].warm = FALSE], i, b))
        \/ Becomes(warm_probe_failed(k, i, late))
  BY <1>1
<1> DEFINE k == IF g = "GEN_3" THEN Identified(s, i, g, id) ELSE [s EXCEPT !.ctx[i].gen = g]
           u == begin_update(k, i, b)
           a == Adopted(k, i)
           n == [k EXCEPT !.ctx[i].warm = FALSE]
           f == fault(n, i, b)
           p == warm_probe_failed(k, i, late)
<1>3. s \in World
  BY DEF Well
<1>4. g \in Generations /\ id \in Identity
  BY <1>3, AnsweringType, ReadIdsType, PartsType, CtxParts
<1>5. Books(s, k)
  BY <1>3, <1>4, IdentifiedBooks, GenBooks
<1> HIDE DEF k
<1>6. Well(k) /\ k \in World /\ k.ctx[i].state = "PROBE"
  BY <1>5, BooksWell DEF Books
<1>7. WellBut(k, i) /\ Resting(k, i)
  BY <1>6, UnpoweredResting DEF Powered
<1>8. Well(u) /\ Well(a) /\ Well(p)
  BY <1>6, <1>7, begin_updateWell, AdoptedWell, warm_probe_failedWell
<1>9. Books(k, n)
  BY <1>6, FlagBooks
<1> HIDE DEF n
<1>10. Well(f)
  BY <1>7, <1>9, BooksWellBut, faultWell
<1>11. Becomes(u) \/ Becomes(a) \/ Becomes(f) \/ Becomes(p)
  BY <1>2, Zenon DEF k, n
<1> HIDE DEF u, a, f, p
<1>12. QED
  BY <1>8, <1>10, <1>11 DEF Ordered

LEMMA WarmProbeOrdered ==
    ASSUME SettingsOK, Well(Now), NEW i \in Ports, Now.ctx[i].state = "PROBE",
           NEW c \in Chance, WarmProbe(i, c)
    PROVE  \E w : Ordered(w)
<1>1. PICK b \in BusOutcomes :
         LET s == Probing(i) IN
         \/ Becomes(s)
         \/ Becomes(warm_probe_failed(s, i, c.late))
         \/ WarmAnswer(Select(s, i, b), i, c.late, b)
  BY DEF WarmProbe
<1> DEFINE s == Probing(i)
           a == Select(s, i, b)
           f == warm_probe_failed(s, i, c.late)
<1>2. Books(Now, s) /\ c.late \in BOOLEAN
  BY ProbingBooks DEF Well, Chance
<1> HIDE DEF s
<1>3. Well(s) /\ s \in World /\ s.ctx[i].state = "PROBE"
  BY <1>2, BooksWell DEF Books
<1>4. Books(s, a)
  BY <1>3, SelectBooks
<1>5. Well(f)
  BY <1>2, <1>3, warm_probe_failedWell
<1>6. Becomes(s) \/ Becomes(f) \/ WarmAnswer(a, i, c.late, b)
  BY <1>1, Zenon DEF s
<1> HIDE DEF a, f
<1>7. Well(a) /\ a.ctx[i].state = "PROBE"
  BY <1>3, <1>4, BooksWell DEF Books
<1>8. CASE WarmAnswer(a, i, c.late, b)
  BY <1>2, <1>7, <1>8, WarmAnswerOrdered
<1>9. CASE Becomes(s) \/ Becomes(f)
  BY <1>3, <1>5, <1>9 DEF Ordered
<1>10. QED
  BY <1>6, <1>8, <1>9

LEMMA TickProbeOrdered ==
    ASSUME SettingsOK, Well(Now), NEW i \in Ports, NEW on, NEW c \in Chance, TickProbe(i, on, c)
    PROVE  \E w : Ordered(w)
<1>0. Now.ctx[i].state = "PROBE"
  BY DEF TickProbe, Now
<1>1. CASE ColdProbe(i, c)
  BY <1>0, <1>1, ColdProbeOrdered
<1>2. CASE WarmProbe(i, c)
  BY <1>0, <1>2, WarmProbeOrdered
<1>3. CASE \E b \in BusOutcomes : Becomes(power_down(Now, i, "ABSENT", b))
  BY <1>3, PowerDownOrdered
<1>4. QED
  BY <1>1, <1>2, <1>3 DEF TickProbe

LEMMA TickFaultOrdered ==
    ASSUME Well(Now), NEW i \in Ports, NEW on, NEW c \in Chance, TickFault(i, on, c)
    PROVE  \E w : Ordered(w)
<1>1. PICK b \in BusOutcomes :
         LET s == IF ctx[i].gen = "GEN_3" THEN Select(Now, i, b) ELSE Now IN
         \/ Becomes(power_down(Now, i, "ABSENT", b))
         \/ Becomes(s)
         \/ Becomes([s EXCEPT !.ctx[i].cooling = TRUE])
         \/ Becomes(start_probe([s EXCEPT !.ctx[i].cooling = FALSE], i))
  BY DEF TickFault
<1> DEFINE s == IF ctx[i].gen = "GEN_3" THEN Select(Now, i, b) ELSE Now
           hot == [s EXCEPT !.ctx[i].cooling = TRUE]
           cool == [s EXCEPT !.ctx[i].cooling = FALSE]
           p == start_probe(cool, i)
<1>2. Now \in World /\ Now.ctx[i].state = "FAULT"
  BY DEF Well, Now, TickFault
<1>3. Books(Now, s)
  BY <1>2, SelectBooks, BooksSame
<1> HIDE DEF s
<1>4. Books(s, hot) /\ Books(s, cool)
  <2>1. s \in World
    BY <1>3 DEF Books
  <2>2. Books(s, hot)
    BY <2>1, FlagBooks
  <2>3. Books(s, cool)
    BY <2>1, FlagBooks
  <2>4. QED
    BY <2>2, <2>3
<1>5. Well(s) /\ s.ctx[i].state = "FAULT"
  BY <1>2, <1>3, BooksWell DEF Books
<1> HIDE DEF hot, cool
<1>6. Well(hot) /\ Well(cool) /\ cool.ctx[i].state = "FAULT"
  BY <1>4, <1>5, BooksWell DEF Books
<1>7. Well(p)
  BY <1>6, UnpoweredResting, start_probeWell DEF Powered
<1> HIDE DEF p
<1>8. \/ Becomes(power_down(Now, i, "ABSENT", b))
      \/ Becomes(s) \/ Becomes(hot) \/ Becomes(p)
  BY <1>1, Zenon DEF s, hot, cool, p
<1>9. CASE Becomes(power_down(Now, i, "ABSENT", b))
  BY <1>9, PowerDownOrdered
<1>10. CASE Becomes(s) \/ Becomes(hot) \/ Becomes(p)
  BY <1>5, <1>6, <1>7, <1>10 DEF Ordered
<1>11. QED
  BY <1>8, <1>9, <1>10

LEMMA TickUpdateOrdered ==
    ASSUME Well(Now), NEW i \in Ports, NEW on, NEW c \in Chance, TickUpdate(i, on, c)
    PROVE  \E w : Ordered(w)
<1>1. PICK b \in BusOutcomes :
         LET s == [Select(Now, i, b) EXCEPT !.loader = i] IN
         \/ Becomes(power_down(Now, i, "ABSENT", b))
         \/ Becomes(Now)
         \/ Becomes(s)
         \/ Becomes([start_probe(s, i) EXCEPT !.ctx[i].grace = TRUE])
         \/ Becomes(fault(s, i, b))
  BY DEF TickUpdate
<1> DEFINE a == Select(Now, i, b)
           s == [a EXCEPT !.loader = i]
           p == start_probe(s, i)
           q == [p EXCEPT !.ctx[i].grace = TRUE]
           f == fault(s, i, b)
<1>2. Now \in World /\ Now.ctx[i].state = "UPDATE"
  BY DEF Well, Now, TickUpdate
<1>3. Books(Now, a)
  BY <1>2, SelectBooks
<1> HIDE DEF a
<1>4. Well(a) /\ a \in World /\ a.ctx[i].state = "UPDATE"
  BY <1>2, <1>3, BooksWell DEF Books
\* The conversation is this port's, which is in it.
<1>5. Well(s) /\ s.ctx[i].state = "UPDATE"
  <2>1. s \in World
    BY <1>4, LoaderUpdate
  <2>2. s.loader = i /\ s.ctx = a.ctx /\ s.res = a.res
    BY <1>4 DEF World
  <2> HIDE DEF s
  <2>3. QED
    BY <1>4, <2>1, <2>2 DEF Well, Lock
<1> HIDE DEF s
<1>6. WellBut(s, i) /\ Resting(s, i)
  BY <1>5, UnpoweredResting DEF Powered
<1>7. Well(p)
  BY <1>6, start_probeWell
<1> HIDE DEF p
<1>8. Books(p, q)
  BY <1>7, FlagBooks DEF Well
<1> HIDE DEF q
<1>9. Well(q)
  BY <1>7, <1>8, BooksWell
<1>10. Well(f)
  BY <1>6, faultWell
<1> HIDE DEF f
<1>11. \/ Becomes(power_down(Now, i, "ABSENT", b))
       \/ Becomes(Now) \/ Becomes(s) \/ Becomes(q) \/ Becomes(f)
  BY <1>1, Zenon DEF a, s, p, q, f
<1>12. CASE Becomes(power_down(Now, i, "ABSENT", b))
  BY <1>12, PowerDownOrdered
<1>13. CASE Becomes(Now) \/ Becomes(s) \/ Becomes(q) \/ Becomes(f)
  BY <1>5, <1>9, <1>10, <1>13 DEF Ordered
<1>14. QED
  BY <1>11, <1>12, <1>13

LEMMA TickDisabledOrdered ==
    ASSUME Well(Now), NEW i \in Ports, NEW on, TickDisabled(i, on)
    PROVE  \E w : Ordered(w)
<1>1. PICK b \in BusOutcomes :
         LET s == IF ctx[i].gen = "GEN_3" THEN Select(Now, i, b) ELSE Now IN
         \/ Becomes(power_down(Now, i, "ABSENT", b))
         \/ Becomes(start_probe(Now, i))
         \/ Becomes(s)
  BY DEF TickDisabled
<1> DEFINE s == IF ctx[i].gen = "GEN_3" THEN Select(Now, i, b) ELSE Now
           p == start_probe(Now, i)
<1>2. Now \in World /\ Now.ctx[i].state = "DISABLED"
  BY DEF Well, Now, TickDisabled
<1>3. Books(Now, s)
  BY <1>2, SelectBooks, BooksSame
<1>4. Well(p)
  BY <1>2, UnpoweredResting, start_probeWell DEF Powered
<1>5. Becomes(power_down(Now, i, "ABSENT", b)) \/ Becomes(p) \/ Becomes(s)
  BY <1>1
<1> HIDE DEF s, p
<1>6. Well(s)
  BY <1>3, BooksWell
<1>7. CASE Becomes(power_down(Now, i, "ABSENT", b))
  BY <1>7, PowerDownOrdered
<1>8. CASE Becomes(p) \/ Becomes(s)
  BY <1>4, <1>6, <1>8 DEF Ordered
<1>9. QED
  BY <1>5, <1>7, <1>8

LEMMA TickOrdered ==
    ASSUME SettingsOK, Well(Now), NEW i \in Ports, NEW on, NEW c \in Chance,
           port_fsm_tick(i, on, c)
    PROVE  \E w : Ordered(w)
BY TickAbsentOrdered, TickProbeOrdered, TickPoweredOrdered, TickFaultOrdered, TickUpdateOrdered,
   TickDisabledOrdered DEF port_fsm_tick

------------------------------------------------------------------------------
(* Commands and the sweep *)

LEMMA CmdEnableOrdered ==
    ASSUME Well(Now), NEW i \in Ports, CmdEnable(i)
    PROVE  \E w : Ordered(w)
<1> DEFINE p == [Now.ctx[i] EXCEPT !.admin = TRUE, !.stuck = FALSE]
           q == [p EXCEPT !.held = FALSE, !.rounds = 0, !.cooling = FALSE]
           r == IF p.held THEN q ELSE p
           t == [Now EXCEPT !.ctx[i] = r]
<1>1. Becomes(t)
  BY DEF CmdEnable, Now
<1>2. Now \in World /\ Now.ctx[i] \in PortCtx
  BY PartsType DEF Well
<1>3. p \in PortCtx
  BY <1>2 DEF PortCtx
<1>4. p.state = Now.ctx[i].state /\ p.contract = Now.ctx[i].contract
  BY <1>2 DEF PortCtx
<1> HIDE DEF p
<1>5. q \in PortCtx
  BY <1>3, NatParameters DEF PortCtx
<1>6. q.state = p.state /\ q.contract = p.contract
  BY <1>3 DEF PortCtx
<1> HIDE DEF q
<1>7. r \in PortCtx /\ r.state = Now.ctx[i].state /\ r.contract = Now.ctx[i].contract
  BY <1>3, <1>4, <1>5, <1>6
<1> HIDE DEF r
<1>8. Books(Now, t)
  BY <1>2, <1>7, CtxBooks
<1> HIDE DEF t
<1>9. QED
  BY <1>1, <1>8, BooksWell DEF Ordered

LEMMA CmdUpdateOrdered ==
    ASSUME Well(Now), NEW i \in Ports, CmdUpdate(i)
    PROVE  \E w : Ordered(w)
<1> DEFINE p == [ctx[i] EXCEPT !.rewrite = TRUE, !.rounds = 0, !.stuck = FALSE, !.held = FALSE]
           s == [Now EXCEPT !.ctx[i] = p]
           r == Released(p)
           cold == [s EXCEPT !.ctx[i].warm = FALSE]
<1>1. PICK b \in BusOutcomes :
         \/ Becomes([power_down(cold, i, "FAULT", b) EXCEPT !.ctx[i].cooling = FALSE])
         \/ Becomes([start_probe([BladeDown(Select(s, i, b), i)
                                    EXCEPT !.res[i] = 0, !.ctx[i] = r], i)
                       EXCEPT !.ctx[i].grace = TRUE])
         \/ Becomes([(IF p.state \in Powered THEN Select(s, i, b) ELSE s) EXCEPT
              !.ctx[i].cooling = IF p.state = "FAULT" THEN FALSE ELSE @])
  BY Zenon DEF CmdUpdate
<1> DEFINE down == power_down(cold, i, "FAULT", b)
           warm == [down EXCEPT !.ctx[i].cooling = FALSE]
           a == Select(s, i, b)
           d == BladeDown(a, i)
           gone == [d EXCEPT !.res[i] = 0, !.ctx[i] = r]
           again == start_probe(gone, i)
           asked == [again EXCEPT !.ctx[i].grace = TRUE]
           kept == IF p.state \in Powered THEN a ELSE s
           f == IF p.state = "FAULT" THEN FALSE ELSE kept.ctx[i].cooling
           soon == [kept EXCEPT !.ctx[i].cooling = f]
<1>2. Now \in World /\ ctx[i] \in PortCtx /\ ctx[i] = Now.ctx[i] /\ p \in PortCtx
  BY NowCtx, RewriteCtx DEF Well, Now
<1>3. p.state = ctx[i].state /\ p.contract = ctx[i].contract
  BY <1>2 DEF PortCtx
<1>4. r \in PortCtx /\ r.contract = 0 /\ r.state = p.state
  BY <1>2, ReleasedType, ReleasedContract
<1>5. Books(Now, s)
  <2> HIDE DEF p
  <2>1. QED
    BY <1>2, <1>3, CtxBooks
<1>6. [kept EXCEPT !.ctx[i].cooling = IF p.state = "FAULT" THEN FALSE ELSE @] = soon
  BY <1>2 DEF World, Select
<1>7. \/ Becomes(warm) \/ Becomes(asked) \/ Becomes(soon)
  BY <1>1, <1>6, Zenon
<1> HIDE DEF p, s, r
<1>8. Well(s) /\ s \in World /\ s.ctx[i].state = p.state
  BY <1>2, <1>3, <1>5, BooksWell DEF Books
<1>9. Books(s, cold) /\ Books(s, a)
  BY <1>8, FlagBooks, SelectBooks
<1> HIDE DEF cold, a
<1>10. WellBut(cold, i) /\ Well(a) /\ a \in World /\ a.ctx[i].state = p.state
  BY <1>8, <1>9, BooksWell, WellParts DEF Books
<1>11. Well(warm)
  <2>1. Well(down)
    BY <1>10, power_downWell
  <2> HIDE DEF down
  <2>2. Books(down, warm)
    BY <2>1, FlagBooks DEF Well
  <2> HIDE DEF warm
  <2>3. QED
    BY <2>1, <2>2, BooksWell
<1>12. Well(asked)
  <2>1. Books(a, d)
    BY <1>10, BladeDownBooks
  <2> HIDE DEF d
  <2>2. WellBut(d, i) /\ r.state = d.ctx[i].state
    BY <1>4, <1>10, <2>1, BooksWell, WellParts DEF Books
  <2>3. WellBut(gone, i) /\ Resting(gone, i)
    BY <1>4, <2>2, LetGo
  <2> HIDE DEF gone
  <2>4. Well(again)
    BY <2>3, start_probeWell
  <2> HIDE DEF again
  <2>5. Books(again, asked)
    BY <2>4, FlagBooks DEF Well
  <2> HIDE DEF asked
  <2>6. QED
    BY <2>4, <2>5, BooksWell
<1>13. Well(soon)
  <2>1. Well(kept) /\ kept \in World
    BY <1>8, <1>10
  <2> HIDE DEF kept
  <2>2. f \in BOOLEAN
    BY <2>1, PartsType DEF PortCtx
  <2> HIDE DEF f
  <2>3. Books(kept, soon)
    BY <2>1, <2>2, FlagBooks
  <2> HIDE DEF soon
  <2>4. QED
    BY <2>1, <2>3, BooksWell
<1> HIDE DEF warm, asked, soon
<1>14. QED
  BY <1>7, <1>11, <1>12, <1>13 DEF Ordered

LEMMA CmdDisableOrdered ==
    ASSUME Well(Now), NEW i \in Ports, CmdDisable(i)
    PROVE  \E w : Ordered(w)
<1> DEFINE s == [Now EXCEPT !.ctx[i].admin = FALSE]
<1>1. PICK b \in BusOutcomes : Becomes(s) \/ Becomes(switch_off(s, i, b))
  BY DEF CmdDisable
<1>2. Books(Now, s)
  BY FlagBooks DEF Well
<1> HIDE DEF s
<1>3. Well(s)
  BY <1>2, BooksWell
<1>4. Well(switch_off(s, i, b))
  BY <1>3, WellParts, switch_offWell
<1>5. QED
  BY <1>1, <1>3, <1>4 DEF Ordered

LEMMA CmdLimitOrdered ==
    ASSUME SettingsOK, Well(Now), NEW i \in Ports, CmdLimit(i)
    PROVE  \E w : Ordered(w)
<1>1. PICK b \in BusOutcomes :
        LET s == Select(Now, i, b) IN
        \/ Becomes(Now)
        \/ Becomes(s)
        \/ Becomes([set_limits(s, i, limit_for(i), port_max_w[i], ctx[i].st.attached, b)
                      EXCEPT !.ctx[i].granted = limit_for(i)])
  BY DEF CmdLimit
<1> DEFINE s == Select(Now, i, b)
           a == ctx[i].st.attached
           u == [set_limits(s, i, limit_for(i), port_max_w[i], a, b)
                   EXCEPT !.ctx[i].granted = limit_for(i)]
<1>2. Books(Now, s) /\ a \in BOOLEAN
  BY SelectBooks, NowCtx, CtxParts DEF Well
<1>3. Becomes(Now) \/ Becomes(s) \/ Becomes(u)
  BY <1>1
<1> HIDE DEF s, a
<1>4. Well(s) /\ s \in World
  BY <1>2, BooksWell DEF Books
<1>5. Books(s, u)
  BY <1>2, <1>4, LimitedBooks
<1> HIDE DEF u
<1>6. QED
  BY <1>3, <1>4, <1>5, BooksWell DEF Ordered

LEMMA CmdVoltOrdered ==
    ASSUME SettingsOK, Well(Now), NEW i \in Ports, CmdVolt(i)
    PROVE  \E w : Ordered(w)
<1> DEFINE a == ctx[i].st.attached
           g == ctx[i].granted
<1>1. PICK b \in BusOutcomes :
        \/ Becomes(Now)
        \/ Becomes(set_limits(Select(Now, i, b), i, g, port_max_w[i], a, b))
  BY DEF CmdVolt
<1> DEFINE s == Select(Now, i, b)
           t == set_limits(s, i, g, port_max_w[i], a, b)
<1>2. Books(Now, s) /\ a \in BOOLEAN /\ g \in Nat /\ port_max_w[i] \in Nat
  BY SelectBooks, NowCtx, CtxParts, LimitType DEF Well
<1>3. Becomes(Now) \/ Becomes(t)
  BY <1>1
<1> HIDE DEF s, a, g
<1>4. Well(s) /\ s \in World
  BY <1>2, BooksWell DEF Books
<1>5. Books(s, t)
  BY <1>2, <1>4, set_limitsBooks
<1> HIDE DEF t
<1>6. QED
  BY <1>3, <1>4, <1>5, BooksWell DEF Ordered

LEMMA port_fsm_alert_sweepOrdered ==
    ASSUME Well(Now), NEW i \in Ports, port_fsm_alert_sweep(i)
    PROVE  \E w : Ordered(w)
<1> DEFINE t == [attached |-> sink[i] # 0, contract |-> sink[i]]
<1>1. PICK b \in BusOutcomes :
        LET h == [Select(Now, i, b) EXCEPT !.ctx[i].st = t] IN
        Becomes(h) \/ Becomes(fault(h, i, b))
  BY DEF port_fsm_alert_sweep
<1> DEFINE s == Select(Now, i, b)
           h == [s EXCEPT !.ctx[i].st = t]
           p == [s.ctx[i] EXCEPT !.st = t]
<1>2. Books(Now, s)
  BY SelectBooks DEF Well
<1>3. t \in [attached : BOOLEAN, contract : Nat]
  BY DEF Now, World, Well
<1>4. Becomes(h) \/ Becomes(fault(h, i, b))
  BY <1>1, Zenon
<1> HIDE DEF s, t
<1>5. Well(s) /\ s \in World /\ s.ctx[i] \in PortCtx
  BY <1>2, BooksWell, PartsType DEF Books
<1>6. p \in PortCtx
  BY <1>3, <1>5, HeardCtx
<1>7. p.state = s.ctx[i].state /\ p.contract = s.ctx[i].contract
  BY <1>5 DEF PortCtx
<1>8. h = [s EXCEPT !.ctx[i] = p]
  BY <1>5 DEF World
<1> HIDE DEF p, h
<1>9. Books(s, h)
  BY <1>5, <1>6, <1>7, <1>8, CtxBooks
<1>10. Well(h)
  BY <1>5, <1>9, BooksWell
<1>11. Well(fault(h, i, b))
  BY <1>10, WellParts, faultWell
<1>12. QED
  BY <1>4, <1>10, <1>11 DEF Ordered

LEMMA CommandsOrdered ==
    ASSUME SettingsOK, Well(Now), NEW i \in Ports, Commands(i)
    PROVE  \E w : Ordered(w)
BY CmdEnableOrdered, CmdDisableOrdered, CmdUpdateOrdered, CmdLimitOrdered, CmdVoltOrdered
   DEF Commands

------------------------------------------------------------------------------
(* The theorems *)

\* The state machine's world is in order.
Order == Well(Now)

LEMMA OrderedOrder ==
    ASSUME NEW w, Ordered(w)
    PROVE  Order'
<1>1. Now' = [ctx |-> w.ctx, res |-> w.res, en |-> w.en, mux |-> w.mux,
              loader |-> w.loader, offer |-> w.offer, sink |-> w.sink]
  BY DEF Now, Becomes, Ordered
<1>2. w = [ctx |-> w.ctx, res |-> w.res, en |-> w.en, mux |-> w.mux,
           loader |-> w.loader, offer |-> w.offer, sink |-> w.sink]
  BY DEF World, Well, Ordered
<1>3. Now' = w
  BY <1>1, <1>2
<1>4. QED
  BY <1>3 DEF Order, Ordered

\* A port at power-up, whether or not the boot policy wants it.
LEMMA BootHolding ==
    ASSUME NEW i \in Ports, NEW read, NEW powered, NEW admin \in [Ports -> BOOLEAN]
    PROVE  Holding(BootCtx(i, read, powered, admin), 0)
<1> DEFINE p == BootCtx(i, read, powered, admin)
           r == ResetCtx(admin[i])
<1>1. r.state = "ABSENT" /\ r.contract = 0
  BY DEF ResetCtx
<1>2. r \in PortCtx
  BY ResetCtxType
<1>3. \E w, n : \/ p = [r EXCEPT !.warm = w, !.slot = n, !.state = "DISABLED"]
                \/ p = [r EXCEPT !.warm = w, !.slot = n, !.state = r.state]
  BY DEF BootCtx
<1> HIDE DEF p, r
<1>4. p.state \in {"ABSENT", "DISABLED"} /\ p.contract = 0
  BY <1>1, <1>2, <1>3 DEF PortCtx
<1>5. QED
  BY <1>4 DEF Holding, Powered, p

LEMMA BootOrder ==
    ASSUME NEW read, NEW powered, NEW admin \in [Ports -> BOOLEAN], NEW s \in World,
           s.ctx = [i \in Ports |-> BootCtx(i, read, powered, admin)],
           s.res = [i \in Ports |-> 0], s.loader = None
    PROVE  Well(s)
BY BootHolding DEF Well, Lock

LEMMA InitOrder == Init => Order
<1> SUFFICES ASSUME Init PROVE Well(Now)
  BY DEF Order
<1>1. PICK off \in BootOff :
        ctx = [i \in Ports |-> BootCtx(i, seated, {}, [j \in Ports |-> j \notin off])]
  BY DEF Init
<1> DEFINE admin == [j \in Ports |-> j \notin off]
           s == Now
           dark == {}
<1>2. admin \in [Ports -> BOOLEAN]
  OBVIOUS
<1>3. s \in World
  BY InitType DEF TypeOK
<1>4. /\ s.ctx = [i \in Ports |-> BootCtx(i, seated, dark, admin)]
      /\ s.res = [i \in Ports |-> 0] /\ s.loader = None
  BY <1>1 DEF Now, Init
<1> HIDE DEF admin, s, dark
<1>5. Well(s)
  BY <1>2, <1>3, <1>4, BootOrder
<1>6. QED
  BY <1>5 DEF s

LEMMA RebootOrder ==
    ASSUME TypeOK', Reboot
    PROVE  Order'
<1>0. PICK off \in BootOff : \E read : BootInventory(read, {i \in Ports : en[i]}, off)
  BY DEF Reboot
<1>1. PICK read : BootInventory(read, {i \in Ports : en[i]}, off)
  BY <1>0
<1> DEFINE admin == [j \in Ports |-> j \notin off]
           powered == {i \in Ports : en[i]}
           s == Now'
<1>2. admin \in [Ports -> BOOLEAN]
  OBVIOUS
<1>3. s \in World
  BY DEF TypeOK
<1>4. /\ s.ctx = [i \in Ports |-> BootCtx(i, read, powered, admin)]
      /\ s.res = [i \in Ports |-> 0] /\ s.loader = None
  BY <1>1 DEF Now, Reboot, BootInventory
<1> HIDE DEF admin, powered, s
<1>5. Well(s)
  BY <1>2, <1>3, <1>4, BootOrder
<1>6. QED
  BY <1>5 DEF Order, s

\* Only the blades, their devices or the settings move.
LEMMA SameOrder ==
    ASSUME Order, TypeOK', UNCHANGED <<ctx, reserved, loader_port>>
    PROVE  Order'
<1>1. Now' \in World /\ Now'.ctx = Now.ctx /\ Now'.res = Now.res /\ Now'.loader = Now.loader
  BY DEF TypeOK, Now
<1>2. Books(Now, Now')
  BY <1>1 DEF Books
<1>3. QED
  BY <1>2, BooksWell DEF Order

LEMMA StepOrder ==
    ASSUME TypeOK, TypeOK', Order, [Next]_vars
    PROVE  Order'
<1>1. SettingsOK /\ Well(Now)
  BY SettingsType DEF Order
<1>2. CASE Tick
  <2>1. PICK c \in Chances(ctx[turn]) : TickWith(c)
    BY <1>2 DEF Tick
  <2>2. turn \in Ports /\ c \in Chance
    BY <1>2, <2>1, ChancesType DEF Tick
  <2>3. PICK w : Ordered(w)
    BY <1>1, <2>1, <2>2, TickOrdered DEF TickWith
  <2>4. QED
    BY <2>3, OrderedOrder
<1>3. CASE Dispatch
  BY <1>1, <1>3, CommandsOrdered, OrderedOrder DEF Dispatch
<1>4. CASE AlertSweep
  BY <1>1, <1>4, port_fsm_alert_sweepOrdered, OrderedOrder DEF AlertSweep
<1>5. CASE Reboot
  BY <1>5, RebootOrder
<1>6. CASE UNCHANGED <<ctx, reserved, loader_port>>
  BY <1>6, SameOrder
<1>7. QED
  BY <1>2, <1>3, <1>4, <1>5, <1>6
     DEF Next, Others, Engine, SetCeiling, SetBudget, Committed, RefreshPresence, StartTicks,
         HourPasses, Surroundings, StoreLimit, StoreVolt, Seat, Unseat, Ask, Unplug, Restart,
         Outside, fsm_vars, vars

\* In every state the world is in order.
THEOREM AlwaysInOrder == Spec => []Order
<1>1. Init => Order
  BY InitOrder
<1>2. TypeOK /\ TypeOK' /\ Order /\ [Next]_vars => Order'
  BY StepOrder
<1>3. QED
  BY <1>1, <1>2, TypeCorrect, PTL DEF Spec

\* What a port holds follows from where it is: a port that is absent, faulted
\* or off has let all its watts go, one on its way up or in its bootloader
\* holds its base at most, and one in service exactly its contract.  No order
\* of probes, sheds, silences, bootloader trips, commands and restarts leaks
\* a watt of the budget or leaves a contract behind.
THEOREM HeldByState == Spec => []HoldsByState
<1>1. Order => HoldsByState
  BY DEF Order, Well, Holding, HoldsByState, Now
<1>2. QED
  BY <1>1, AlwaysInOrder, PTL

\* The lock on the bootloader conversation never outlives the update: when it
\* is held, its holder is in PORT_UPDATE, so no other port waits for a
\* conversation nobody leads.
THEOREM OneLoader == Spec => []LoaderLock
<1>1. Order => LoaderLock
  BY DEF Order, Well, Lock, LoaderLock, Now
<1>2. QED
  BY <1>1, AlwaysInOrder, PTL

------------------------------------------------------------------------------
(* Watts go by priority *)

\* From s to t only port i changes.
Aside(s, t, i) ==
    /\ t \in World
    /\ \A j \in Ports \ {i} : t.ctx[j] = s.ctx[j] /\ t.res[j] = s.res[j]

\* Port j, with p and n in its books, has yielded to port i.
Yielded(p, n, i, j) ==
    /\ Prio[i] < Prio[j] /\ n >= BASE_RESERVE
    /\ p.state = "THROTTLED" /\ p.denied > n

\* From s to t only port i changes, and what yields to it.
Yields(s, t, i) ==
    /\ t \in World
    /\ \A j \in Ports \ {i} :
         \/ t.ctx[j] = s.ctx[j] /\ t.res[j] = s.res[j]
         \/ Yielded(t.ctx[j], t.res[j], i, j)

\* Port j waits in s for watts that port i would get after it.
Waits(s, j, i) ==
    /\ j # i /\ Prio[j] < Prio[i]
    /\ s.ctx[j].state = "THROTTLED" /\ s.ctx[j].denied > s.res[j]

\* What port p is allowed is no more than g, than the base, or than its device asks.
Capped(p, g) ==
    p.state \in {"ACTIVE", "THROTTLED"} /\ p.granted > g /\ p.granted > BASE_RESERVE
        => p.st.contract >= p.granted

------------------------------------------------------------------------------
(* One port's handlers leave the others alone *)

LEMMA AsideSame ==
    ASSUME NEW s \in World, NEW i \in Ports
    PROVE  Aside(s, s, i)
  BY DEF Aside

LEMMA AsideTrans ==
    ASSUME NEW s, NEW t, NEW u, NEW i \in Ports, Aside(s, t, i), Aside(t, u, i)
    PROVE  Aside(s, u, i)
  BY DEF Aside

LEMMA AsideYields ==
    ASSUME NEW s, NEW t, NEW u, NEW i \in Ports, Aside(s, t, i), Yields(t, u, i)
    PROVE  Yields(s, u, i)
  BY DEF Aside, Yields

LEMMA YieldsAside ==
    ASSUME NEW s, NEW t, NEW u, NEW i \in Ports, Yields(s, t, i), Aside(t, u, i)
    PROVE  Yields(s, u, i)
  BY DEF Aside, Yields

LEMMA YieldsSame ==
    ASSUME NEW s, NEW t, NEW i \in Ports, Aside(s, t, i)
    PROVE  Yields(s, t, i)
  BY DEF Aside, Yields

LEMMA WaitsOn ==
    ASSUME NEW s \in World, NEW t, NEW i \in Ports, NEW j \in Ports, Yields(s, t, i), Waits(s, j, i)
    PROVE  Waits(t, j, i)
  <1>1. Prio[i] \in Nat /\ Prio[j] \in Nat
    BY FsmAssumption
  <1> QED
    BY <1>1 DEF Yields, Yielded, Waits

\* A world that differs in the books of port i.
LEMMA CtxAside ==
    ASSUME NEW s \in World, NEW i \in Ports, NEW p \in PortCtx
    PROVE  Aside(s, [s EXCEPT !.ctx[i] = p], i) /\ [s EXCEPT !.ctx[i] = p].ctx[i] = p
  <1>1. [s EXCEPT !.ctx[i] = p] \in World
    BY CtxUpdate
  <1> QED
    BY <1>1 DEF Aside, World

LEMMA CtxResAside ==
    ASSUME NEW s \in World, NEW i \in Ports, NEW p \in PortCtx, NEW n \in Nat
    PROVE  /\ Aside(s, [s EXCEPT !.ctx[i] = p, !.res[i] = n], i)
           /\ Aside(s, [s EXCEPT !.res[i] = n, !.ctx[i] = p], i)
           /\ [s EXCEPT !.ctx[i] = p, !.res[i] = n].ctx[i] = p
           /\ [s EXCEPT !.res[i] = n, !.ctx[i] = p].ctx[i] = p
  <1>1. /\ [s EXCEPT !.ctx[i] = p, !.res[i] = n] \in World
        /\ [s EXCEPT !.res[i] = n, !.ctx[i] = p] \in World
    BY CtxResUpdate
  <1> QED
    BY <1>1 DEF Aside, World

\* A world with the same books.
LEMMA BooksAside ==
    ASSUME NEW s, NEW t \in World, t.ctx = s.ctx, t.res = s.res, NEW i \in Ports
    PROVE  Aside(s, t, i)
  BY DEF Aside

LEMMA SelectAside ==
    ASSUME NEW s \in World, NEW i \in Ports, NEW b \in BusOutcomes
    PROVE  /\ Aside(s, Select(s, i, b), i)
           /\ Select(s, i, b).ctx = s.ctx
  <1>1. Select(s, i, b) \in World
    BY SelectType
  <1>2. Select(s, i, b).ctx = s.ctx /\ Select(s, i, b).res = s.res
    BY DEF Select, World
  <1> QED
    BY <1>1, <1>2, BooksAside

LEMMA EnOffAside ==
    ASSUME NEW s \in World, NEW i \in Ports, NEW b \in BusOutcomes
    PROVE  Aside(s, EnOff(s, i, b), i)
  <1>1. EnOff(s, i, b) \in World /\ EnOff(s, i, b).ctx = s.ctx
    BY EnOffType
  <1>2. EnOff(s, i, b).res = s.res
    BY DEF EnOff, World
  <1> QED
    BY <1>1, <1>2, BooksAside

LEMMA BladeDownAside ==
    ASSUME NEW s \in World, NEW i \in Ports, NEW k \in Ports
    PROVE  Aside(s, BladeDown(s, k), i)
  <1>1. BladeDown(s, k) \in World /\ BladeDown(s, k).ctx = s.ctx
    BY BladeDownType
  <1>2. BladeDown(s, k).res = s.res
    BY DEF BladeDown, World
  <1> QED
    BY <1>1, <1>2, BooksAside

LEMMA enterAside ==
    ASSUME NEW s \in World, NEW i \in Ports, NEW next \in States
    PROVE  /\ Aside(s, enter(s, i, next), i)
           /\ enter(s, i, next).ctx[i].state = next
           /\ enter(s, i, next).ctx[i].st = s.ctx[i].st
           /\ enter(s, i, next).ctx[i].granted = s.ctx[i].granted
  <1>1. enter(s, i, next).ctx[i] = [s.ctx[i] EXCEPT !.state = next]
    BY enterParts
  <1>2. s.ctx[i] \in PortCtx
    BY PartsType
  <1>3. /\ [s.ctx[i] EXCEPT !.state = next].state = next
        /\ [s.ctx[i] EXCEPT !.state = next].st = s.ctx[i].st
        /\ [s.ctx[i] EXCEPT !.state = next].granted = s.ctx[i].granted
    BY <1>2 DEF PortCtx
  <1> QED
    BY <1>1, <1>3, enterParts DEF Aside

LEMMA power_downAside ==
    ASSUME NEW s \in World, NEW i \in Ports, NEW next \in States, NEW b \in BusOutcomes
    PROVE  /\ Aside(s, power_down(s, i, next, b), i)
           /\ power_down(s, i, next, b).ctx[i].state = next
  <1> DEFINE p == Unpowered(s.ctx[i], next)
             e == EnOff(s, i, b)
             t == [e EXCEPT !.res[i] = 0, !.ctx[i] = p]
  <1>1. e \in World /\ p \in PortCtx /\ Aside(s, e, i) /\ 0 \in Nat
    BY PartsType, EnOffType, UnpoweredType, EnOffAside
  <1>2. power_down(s, i, next, b) = enter(t, i, next)
    BY DEF power_down
  <1> HIDE DEF p, e
  <1>3. t \in World /\ Aside(e, t, i)
    BY <1>1, CtxResAside, CtxResUpdate
  <1> HIDE DEF t
  <1>4. Aside(t, enter(t, i, next), i) /\ enter(t, i, next).ctx[i].state = next
    BY <1>3, enterAside
  <1> QED
    BY <1>1, <1>2, <1>3, <1>4, AsideTrans

LEMMA faultAside ==
    ASSUME NEW s \in World, NEW i \in Ports, NEW b \in BusOutcomes
    PROVE  /\ Aside(s, fault(s, i, b), i)
           /\ fault(s, i, b).ctx[i].state = "FAULT"
  <1> DEFINE t == power_down(s, i, "FAULT", b)
             p == [t.ctx[i] EXCEPT !.cooling = TRUE]
  <1>1. t \in World /\ Aside(s, t, i) /\ t.ctx[i].state = "FAULT"
    BY StateNames, power_downType, power_downAside
  <1>2. fault(s, i, b) \in World /\ fault(s, i, b) = [t EXCEPT !.ctx[i].cooling = TRUE]
    BY faultType DEF fault
  <1> HIDE DEF t
  <1>3. /\ [t EXCEPT !.ctx[i].cooling = TRUE].ctx[i].state = t.ctx[i].state
        /\ [t EXCEPT !.ctx[i].cooling = TRUE].res = t.res
        /\ \A j \in Ports \ {i} : [t EXCEPT !.ctx[i].cooling = TRUE].ctx[j] = t.ctx[j]
    BY <1>1 DEF World, PortCtx
  <1>4. Aside(t, fault(s, i, b), i)
    BY <1>2, <1>3 DEF Aside
  <1> QED
    BY <1>1, <1>2, <1>3, <1>4, AsideTrans

LEMMA start_probeAside ==
    ASSUME NEW s \in World, NEW i \in Ports
    PROVE  /\ Aside(s, start_probe(s, i), i)
           /\ start_probe(s, i).ctx[i].state = "PROBE"
  <1> DEFINE t == [s EXCEPT !.ctx[i] = Fresh(s.ctx[i])]
  <1>1. Fresh(s.ctx[i]) \in PortCtx
    BY PartsType, FreshType
  <1>2. t \in World /\ Aside(s, t, i)
    BY <1>1, CtxAside DEF Aside
  <1>3. start_probe(s, i) = enter(t, i, "PROBE")
    BY DEF start_probe
  <1> HIDE DEF t
  <1> QED
    BY <1>2, <1>3, StateNames, enterAside, AsideTrans

LEMMA FlagAside ==
    ASSUME NEW s \in World, NEW i \in Ports, NEW f \in BOOLEAN
    PROVE  /\ Aside(s, [s EXCEPT !.ctx[i].cooling = f], i)
           /\ Aside(s, [s EXCEPT !.ctx[i].switching = f], i)
           /\ Aside(s, [s EXCEPT !.ctx[i].grace = f], i)
           /\ Aside(s, [s EXCEPT !.ctx[i].charged = f], i)
           /\ Aside(s, [s EXCEPT !.ctx[i].renegotiating = f], i)
           /\ Aside(s, [s EXCEPT !.ctx[i].warm = f], i)
           /\ Aside(s, [s EXCEPT !.ctx[i].admin = f], i)
  <1>1. /\ [s EXCEPT !.ctx[i].cooling = f] \in World
        /\ [s EXCEPT !.ctx[i].switching = f] \in World
        /\ [s EXCEPT !.ctx[i].grace = f] \in World
        /\ [s EXCEPT !.ctx[i].charged = f] \in World
        /\ [s EXCEPT !.ctx[i].renegotiating = f] \in World
        /\ [s EXCEPT !.ctx[i].warm = f] \in World
        /\ [s EXCEPT !.ctx[i].admin = f] \in World
    BY FlagBooks, ZenonT(40) DEF Books
  <1> QED
    BY <1>1, ZenonT(40) DEF Aside, World

LEMMA GrantedAside ==
    ASSUME NEW s \in World, NEW i \in Ports, NEW w \in Nat
    PROVE  /\ Aside(s, [s EXCEPT !.ctx[i].granted = w], i)
           /\ [s EXCEPT !.ctx[i].granted = w].ctx[i].granted = w
           /\ [s EXCEPT !.ctx[i].granted = w].ctx[i].state = s.ctx[i].state
           /\ [s EXCEPT !.ctx[i].granted = w].ctx[i].st = s.ctx[i].st
  <1> DEFINE p == s.ctx[i]
             q == [p EXCEPT !.granted = w]
  <1>1. [s EXCEPT !.ctx[i].granted = w] = [s EXCEPT !.ctx[i] = q]
    BY DEF World
  <1>2. p \in PortCtx
    BY PartsType
  <1>3. q \in PortCtx /\ q.granted = w /\ q.state = p.state /\ q.st = p.st
    BY <1>2 DEF PortCtx
  <1> HIDE DEF q
  <1> QED
    BY <1>1, <1>3, CtxAside

LEMMA WriteLimitsAside ==
    ASSUME NEW s \in World, NEW i \in Ports, NEW w \in Nat, NEW v \in Nat, NEW b \in BusOutcomes
    PROVE  Aside(s, WriteLimits(s, i, w, v, b), i)
  BY WriteLimitsType, BooksAside

LEMMA RenegotiateKeeps ==
    ASSUME NEW p \in PortCtx, NEW r \in BOOLEAN
    PROVE  /\ Renegotiate(p, r) \in PortCtx
           /\ Renegotiate(p, r).state = p.state /\ Renegotiate(p, r).st = p.st
           /\ Renegotiate(p, r).granted = p.granted /\ Renegotiate(p, r).denied = p.denied
  <1>1. Renegotiate(p, r) \in PortCtx
    BY RenegotiateType
  <1> QED
    BY <1>1 DEF Renegotiate, PortCtx

LEMMA set_limitsAside ==
    ASSUME NEW s \in World, NEW i \in Ports, NEW w \in Nat, NEW v \in Nat,
           NEW r \in BOOLEAN, NEW b \in BusOutcomes
    PROVE  /\ Aside(s, set_limits(s, i, w, v, r, b), i)
           /\ set_limits(s, i, w, v, r, b).ctx[i].state = s.ctx[i].state
           /\ set_limits(s, i, w, v, r, b).ctx[i].st = s.ctx[i].st
           /\ set_limits(s, i, w, v, r, b).ctx[i].granted = s.ctx[i].granted
  <1> DEFINE p == Renegotiate(s.ctx[i], r)
             t == WriteLimits(s, i, w, v, b)
  <1>1. p \in PortCtx /\ p.state = s.ctx[i].state /\ p.st = s.ctx[i].st
        /\ p.granted = s.ctx[i].granted
    BY PartsType, RenegotiateKeeps
  <1>2. t \in World /\ Aside(s, t, i)
    BY WriteLimitsAside DEF Aside
  <1>3. set_limits(s, i, w, v, r, b) = [t EXCEPT !.ctx[i] = p]
    BY DEF set_limits
  <1> HIDE DEF p, t
  <1>4. Aside(t, [t EXCEPT !.ctx[i] = p], i) /\ [t EXCEPT !.ctx[i] = p].ctx[i] = p
    BY <1>1, <1>2, CtxAside
  <1> QED
    BY <1>1, <1>2, <1>3, <1>4, AsideTrans

\* set_limits() with the present limits, and what the port is allowed after it.
LEMMA LimitedAside ==
    ASSUME SettingsOK, NEW s \in World, NEW i \in Ports, NEW r \in BOOLEAN, NEW b \in BusOutcomes
    PROVE  LET t == [set_limits(s, i, limit_for(i), port_max_w[i], r, b)
                       EXCEPT !.ctx[i].granted = limit_for(i)] IN
           /\ Aside(s, t, i)
           /\ t.ctx[i].state = s.ctx[i].state /\ t.ctx[i].st = s.ctx[i].st
           /\ t.ctx[i].granted = limit_for(i)
  <1> DEFINE u == set_limits(s, i, limit_for(i), port_max_w[i], r, b)
  <1>1. limit_for(i) \in Nat /\ port_max_w[i] \in Nat
    BY LimitType
  <1>2. /\ u \in World /\ Aside(s, u, i)
        /\ u.ctx[i].state = s.ctx[i].state /\ u.ctx[i].st = s.ctx[i].st
    BY <1>1, set_limitsAside DEF Aside
  <1> DEFINE w == limit_for(i)
  <1>3. w \in Nat
    BY <1>1
  <1> HIDE DEF u, w
  <1> DEFINE z == [u EXCEPT !.ctx[i].granted = w]
  <1>4. /\ Aside(u, z, i) /\ z.ctx[i].granted = w
        /\ z.ctx[i].state = u.ctx[i].state /\ z.ctx[i].st = u.ctx[i].st
    BY <1>2, <1>3, GrantedAside
  <1> HIDE DEF z
  <1>5. Aside(s, z, i)
    BY <1>2, <1>4, AsideTrans
  <1>6. /\ Aside(s, z, i) /\ z.ctx[i].granted = w
        /\ z.ctx[i].state = s.ctx[i].state /\ z.ctx[i].st = s.ctx[i].st
    BY <1>2, <1>4, <1>5
  <1> QED
    BY <1>6 DEF z, u, w

LEMMA sync_limitAside ==
    ASSUME SettingsOK, NEW s \in World, NEW i \in Ports, NEW b \in BusOutcomes
    PROVE  /\ Aside(s, sync_limit(s, i, b), i)
           /\ sync_limit(s, i, b).ctx[i].state = s.ctx[i].state
           /\ sync_limit(s, i, b).ctx[i].st = s.ctx[i].st
           /\ s.ctx[i].state = "THROTTLED"
                => sync_limit(s, i, b).ctx[i].granted <= s.ctx[i].granted
  <1> DEFINE r == s.ctx[i].st.attached
             t == [set_limits(s, i, limit_for(i), port_max_w[i], r, b)
                     EXCEPT !.ctx[i].granted = limit_for(i)]
  <1> HIDE DEF r
  <1>1. limit_for(i) \in Nat /\ s.ctx[i].granted \in Nat /\ r \in BOOLEAN
    BY LimitType, PartsType, CtxParts DEF r
  <1>2. \/ sync_limit(s, i, b) = s
        \/ /\ sync_limit(s, i, b) = t
           /\ ~(s.ctx[i].state = "THROTTLED" /\ s.ctx[i].granted < limit_for(i))
    BY DEF sync_limit, r
  <1>3. /\ Aside(s, t, i) /\ t.ctx[i].state = s.ctx[i].state /\ t.ctx[i].st = s.ctx[i].st
        /\ t.ctx[i].granted = limit_for(i)
    BY <1>1, LimitedAside
  <1> HIDE DEF t
  <1>4. CASE sync_limit(s, i, b) = s
    <2>1. s.ctx[i].granted <= s.ctx[i].granted
      BY <1>1
    <2> QED
      BY <1>4, <2>1, AsideSame
  <1>5. CASE sync_limit(s, i, b) = t
             /\ ~(s.ctx[i].state = "THROTTLED" /\ s.ctx[i].granted < limit_for(i))
    <2>1. s.ctx[i].state = "THROTTLED" => limit_for(i) <= s.ctx[i].granted
      BY <1>1, <1>5
    <2> QED
      BY <1>3, <1>5, <2>1
  <1> QED
    BY <1>2, <1>4, <1>5

LEMMA attach_beginAside ==
    ASSUME NEW s \in World, NEW i \in Ports
    PROVE  Aside(s, attach_begin(s, i), i)
  <1>1. attach_begin(s, i) \in World
    BY attach_beginType
  <1>2. /\ attach_begin(s, i).res = s.res
        /\ \A j \in Ports \ {i} : attach_begin(s, i).ctx[j] = s.ctx[j]
    BY DEF attach_begin, World
  <1> QED
    BY <1>1, <1>2 DEF Aside

LEMMA auto_offAside ==
    ASSUME NEW s \in World, NEW i \in Ports, NEW b \in BusOutcomes
    PROVE  /\ Aside(s, auto_off(s, i, b), i)
           /\ auto_off(s, i, b).ctx[i].state = "DISABLED"
  <1> DEFINE t == [s EXCEPT !.ctx[i].admin = FALSE]
  <1>1. t \in World /\ Aside(s, t, i)
    BY FlagAside, ZenonT(40) DEF Aside
  <1>2. auto_off(s, i, b) = power_down(t, i, "DISABLED", b)
    BY DEF auto_off, switch_off
  <1> HIDE DEF t
  <1> QED
    BY <1>1, <1>2, StateNames, power_downAside, AsideTrans

LEMMA begin_updateAside ==
    ASSUME NEW s \in World, NEW i \in Ports, NEW b \in BusOutcomes
    PROVE  /\ Aside(s, begin_update(s, i, b), i)
           /\ begin_update(s, i, b).ctx[i].state \in {"UPDATE", "FAULT"}
  <1> DEFINE p == [s.ctx[i] EXCEPT !.warm = FALSE, !.silent = FALSE]
             e == EnOff(s, i, b)
             dark == BladeDown(e, i)
             q == [p EXCEPT !.held = TRUE]
             r == [p EXCEPT !.rounds = @ + 1, !.rewrite = FALSE]
             u == [dark EXCEPT !.ctx[i] = q]
             v == [dark EXCEPT !.ctx[i] = r]
  <1>1. e \in World /\ Aside(s, e, i)
    BY EnOffAside DEF Aside
  <1>2. dark \in World /\ Aside(e, dark, i)
    BY <1>1, BladeDownAside DEF Aside
  <1>3. s.ctx[i] \in PortCtx /\ p \in PortCtx
    BY PartsType, FlagCtx
  <1> HIDE DEF p, e
  <1>4. q \in PortCtx
    BY <1>3, FlagCtx
  <1>5. \/ p.rounds >= UPDATE_ROUNDS_MAX /\ begin_update(s, i, b) = fault(u, i, b)
        \/ p.rounds < UPDATE_ROUNDS_MAX /\ begin_update(s, i, b) = enter(v, i, "UPDATE")
    <2>1. p.rounds \in 0..UPDATE_ROUNDS_MAX /\ UPDATE_ROUNDS_MAX \in Nat
      BY <1>3, CtxParts, NatParameters
    <2> QED
      BY <2>1 DEF begin_update, p, e
  <1> HIDE DEF dark, q
  <1>6. Aside(s, dark, i)
    BY <1>1, <1>2, AsideTrans
  <1>7. CASE p.rounds >= UPDATE_ROUNDS_MAX /\ begin_update(s, i, b) = fault(u, i, b)
    <2>1. u \in World /\ Aside(dark, u, i)
      BY <1>2, <1>4, CtxAside DEF Aside
    <2> HIDE DEF u
    <2>2. Aside(u, fault(u, i, b), i) /\ fault(u, i, b).ctx[i].state = "FAULT"
      BY <2>1, faultAside
    <2> QED
      BY <1>6, <1>7, <2>1, <2>2, AsideTrans
  <1>8. CASE p.rounds < UPDATE_ROUNDS_MAX /\ begin_update(s, i, b) = enter(v, i, "UPDATE")
    <2>1. r \in PortCtx
      <3>1. p.rounds \in 0..UPDATE_ROUNDS_MAX /\ UPDATE_ROUNDS_MAX \in Nat
        BY <1>3, CtxParts, NatParameters
      <3>2. p.rounds + 1 \in 0..UPDATE_ROUNDS_MAX
        BY <3>1, <1>8
      <3> QED
        BY <1>3, <3>2 DEF PortCtx
    <2> HIDE DEF r
    <2>2. v \in World /\ Aside(dark, v, i)
      BY <1>2, <2>1, CtxAside DEF Aside
    <2> HIDE DEF v
    <2>3. Aside(v, enter(v, i, "UPDATE"), i) /\ enter(v, i, "UPDATE").ctx[i].state = "UPDATE"
      BY <2>2, StateNames, enterAside
    <2> QED
      BY <1>6, <1>8, <2>2, <2>3, AsideTrans
  <1> QED
    BY <1>5, <1>7, <1>8

LEMMA RebootsAside ==
    ASSUME NEW s \in World, NEW i \in Ports
    PROVE  Aside(s, Reboots(s, i), i)
  <1>1. s.mux = None \/ s.mux \in Ports
    BY PartsType
  <1> QED
    BY <1>1, AsideSame, BladeDownAside DEF Reboots

LEMMA ReleasedAside ==
    ASSUME NEW s \in World, NEW i \in Ports, NEW n \in Nat
    PROVE  Aside(s, [s EXCEPT !.res[i] = n, !.ctx[i] = Released(s.ctx[i])], i)
  <1>1. Released(s.ctx[i]) \in PortCtx
    BY PartsType, ReleasedType
  <1> QED
    BY <1>1, CtxResAside

LEMMA send_to_loaderAside ==
    ASSUME NEW s \in World, NEW i \in Ports, NEW b \in BusOutcomes
    PROVE  LET t == send_to_loader(s, i, b) IN
           /\ Aside(s, t, i)
           /\ \/ t.ctx[i].state = "PROBE"
              \/ /\ t.ctx[i].state = s.ctx[i].state /\ t.ctx[i].st = s.ctx[i].st
                 /\ t.ctx[i].granted = s.ctx[i].granted
  <1> DEFINE p == s.ctx[i]
             boot_opt == "boot_opt" \in blade_wants(p)
             sent == [Released(p) EXCEPT !.rounds = IF boot_opt THEN @ + 1 ELSE @]
             r == Reboots(s, i)
             u == [r EXCEPT !.res[i] = 0, !.ctx[i] = sent]
             v == start_probe(u, i)
             w == [v EXCEPT !.ctx[i].switching = TRUE]
             q == [p EXCEPT !.stuck = TRUE, !.rewrite = FALSE, !.rounds = 0]
             g == [s EXCEPT !.ctx[i] = q]
             t == send_to_loader(s, i, b)
  <1>1. p \in PortCtx /\ Released(p) \in PortCtx /\ Released(p).rounds = p.rounds /\ 0 \in Nat
    BY PartsType, ReleasedType, ReleasedContract
  <1>2. p.rounds \in 0..UPDATE_ROUNDS_MAX /\ UPDATE_ROUNDS_MAX \in Nat /\ 0 \in 0..UPDATE_ROUNDS_MAX
    BY <1>1, CtxParts, NatParameters
  <1>3. \/ Sends(s, i, b) /\ t = w
        \/ t = g
        \/ t = s
    <2> DEFINE A == Sends(s, i, b)
               B == blade_wants(p) # {} /\ p.rounds >= UPDATE_ROUNDS_MAX
    <2>1. t = CASE A -> w [] B -> g [] OTHER -> s
      BY Zenon DEF send_to_loader
    <2> HIDE DEF A, B, t, w, g
    <2>2. (A /\ t = w) \/ t = g \/ t = s
      BY <2>1
    <2> QED
      BY <2>2 DEF A
  <1>4. CASE Sends(s, i, b) /\ t = w
    <2>1. p.rounds < UPDATE_ROUNDS_MAX
      BY <1>4 DEF Sends
    <2>2. sent \in PortCtx
      <3>1. p.rounds + 1 \in 0..UPDATE_ROUNDS_MAX
        BY <1>2, <2>1
      <3>2. sent = Released(p) \/ sent = [Released(p) EXCEPT !.rounds = p.rounds + 1]
        BY <1>1 DEF PortCtx
      <3>3. [Released(p) EXCEPT !.rounds = p.rounds + 1] \in PortCtx
        BY <1>1, <3>1 DEF PortCtx
      <3> QED
        BY <1>1, <3>2, <3>3
    <2> HIDE DEF sent
    <2>3. r \in World /\ Aside(s, r, i)
      BY RebootsAside DEF Aside
    <2> HIDE DEF r
    <2>4. u \in World /\ Aside(r, u, i)
      BY <1>1, <2>2, <2>3, CtxResAside, CtxResUpdate
    <2> HIDE DEF u
    <2>5. v \in World /\ Aside(u, v, i) /\ v.ctx[i].state = "PROBE"
      BY <2>4, start_probeAside DEF Aside
    <2> HIDE DEF v
    <2>6. Aside(v, w, i)
      BY <2>5, FlagAside
    <2>7. w.ctx[i].state = "PROBE"
      BY <2>5 DEF World, PortCtx
    <2> HIDE DEF w
    <2>8. Aside(s, w, i)
      BY <2>3, <2>4, <2>5, <2>6, AsideTrans
    <2> QED
      BY <1>4, <2>7, <2>8
  <1>5. CASE t = g
    <2>1. q \in PortCtx /\ q.state = p.state /\ q.st = p.st /\ q.granted = p.granted
      BY <1>1, <1>2 DEF PortCtx
    <2> HIDE DEF q
    <2>2. Aside(s, g, i) /\ g.ctx[i] = q
      BY <2>1, CtxAside
    <2> HIDE DEF g
    <2> QED
      BY <1>5, <2>1, <2>2
  <1>6. CASE t = s
    BY <1>6, AsideSame
  <1> HIDE DEF t, g, w
  <1>7. /\ Aside(s, t, i)
        /\ \/ t.ctx[i].state = "PROBE"
           \/ /\ t.ctx[i].state = s.ctx[i].state /\ t.ctx[i].st = s.ctx[i].st
              /\ t.ctx[i].granted = s.ctx[i].granted
    BY <1>3, <1>4, <1>5, <1>6 DEF t, g, w
  <1> QED
    BY <1>7 DEF t

------------------------------------------------------------------------------
(* Who yields and who waits *)

LEMMA ThrottledParts ==
    ASSUME SettingsOK, NEW p \in PortCtx, NEW i \in Ports, NEW grant \in Nat, NEW want \in Nat
    PROVE  LET q == ThrottledCtx(p, i, grant, want) IN
           /\ q \in PortCtx /\ q.state = "THROTTLED" /\ q.st = p.st
           /\ q.granted = ThrottleLimit(i, grant) /\ q.denied >= want
  <1> DEFINE q == ThrottledCtx(p, i, grant, want)
             r == Renegotiate(p, TRUE)
             d == IF want > r.denied THEN want ELSE r.denied
  <1>1. q \in PortCtx
    BY ThrottledCtxType
  <1>2. r \in PortCtx /\ r.st = p.st /\ r.denied \in Nat
    BY RenegotiateKeeps, CtxParts
  <1>3. q = [r EXCEPT !.granted = ThrottleLimit(i, grant), !.contract = grant,
                      !.denied = d, !.state = "THROTTLED"]
    BY DEF ThrottledCtx
  <1> HIDE DEF r
  <1>4. d >= want
    BY <1>2
  <1> HIDE DEF d, q
  <1>5. /\ q.state = "THROTTLED" /\ q.st = r.st /\ q.denied = d
        /\ q.granted = ThrottleLimit(i, grant)
    BY <1>2, <1>3 DEF PortCtx
  <1> QED
    BY <1>1, <1>2, <1>4, <1>5 DEF q

LEMMA apply_throttleAside ==
    ASSUME SettingsOK, NEW s \in World, NEW i \in Ports, NEW grant \in Nat, NEW want \in Nat,
           NEW b \in BusOutcomes
    PROVE  LET t == apply_throttle(s, i, grant, want, b) IN
           /\ Aside(s, t, i)
           /\ t.ctx[i].st = s.ctx[i].st /\ t.ctx[i].granted = ThrottleLimit(i, grant)
  <1> DEFINE w == WriteLimits(s, i, ThrottleLimit(i, grant), port_max_w[i], b)
             q == ThrottledCtx(s.ctx[i], i, grant, want)
             t == [w EXCEPT !.ctx[i] = q, !.res[i] = grant]
  <1>1. ThrottleLimit(i, grant) \in Nat /\ port_max_w[i] \in Nat
    BY ThrottleLimitType, LimitType
  <1>2. w \in World /\ Aside(s, w, i)
    BY <1>1, WriteLimitsAside, SMTT(40) DEF Aside
  <1>3. q \in PortCtx /\ q.st = s.ctx[i].st /\ q.granted = ThrottleLimit(i, grant)
    BY PartsType, ThrottledParts
  <1>4. apply_throttle(s, i, grant, want, b) = t
    BY DEF apply_throttle
  <1> HIDE DEF w, q
  <1>5. Aside(w, t, i) /\ t.ctx[i] = q
    <2>1. t \in World
      BY <1>2, <1>3, CtxResUpdate
    <2> QED
      BY <1>2, <2>1 DEF Aside, World
  <1> HIDE DEF t
  <1>6. Aside(s, t, i)
    BY <1>2, <1>5, AsideTrans
  <1> QED
    BY <1>3, <1>4, <1>5, <1>6

\* A throttled port is allowed no more than its grant, or than the base.
LEMMA ThrottleLimitBound ==
    ASSUME SettingsOK, NEW i \in Ports, NEW grant \in Nat
    PROVE  ThrottleLimit(i, grant) <= grant \/ ThrottleLimit(i, grant) <= BASE_RESERVE
  <1>1. limit_for(i) \in Nat
    BY LimitType
  <1>2. PORT_LIMIT_MIN_W \in 1..BASE_RESERVE /\ BASE_RESERVE \in Nat
    BY FsmAssumption, BaseAssumption
  <1> QED
    BY <1>1, <1>2 DEF ThrottleLimit, Least

LEMMA throttleAside ==
    ASSUME SettingsOK, NEW s \in World, NEW i \in Ports, NEW want \in Nat, NEW b \in BusOutcomes
    PROVE  LET t == throttle(s, i, want, b) IN
           /\ Aside(s, t, i)
           /\ t.ctx[i].st = s.ctx[i].st
           /\ t.ctx[i].granted \in Nat
           /\ t.ctx[i].granted <= want \/ t.ctx[i].granted <= BASE_RESERVE
  <1> DEFINE room == budget_headroom(s.res, total) + s.res[i]
             floor == IF room < BASE_RESERVE THEN BASE_RESERVE ELSE room
             grant == Least(floor, want)
             t == apply_throttle(s, i, grant, want, b)
  <1>1. BASE_RESERVE \in Nat /\ s.res[i] \in Nat /\ budget_headroom(s.res, total) \in Nat
    BY NatParameters, PartsType, HeadroomType
  <1>2. room \in Nat
    BY <1>1
  <1> HIDE DEF room
  <1>3. floor \in Nat
    BY <1>1, <1>2
  <1> HIDE DEF floor
  <1>4. grant \in Nat /\ grant <= want
    BY <1>3 DEF Least
  <1>5. throttle(s, i, want, b) = t
    BY DEF throttle, room, floor
  <1> HIDE DEF grant
  <1>6. ThrottleLimit(i, grant) \in Nat
        /\ (ThrottleLimit(i, grant) <= grant \/ ThrottleLimit(i, grant) <= BASE_RESERVE)
    BY <1>4, ThrottleLimitType, ThrottleLimitBound
  <1>7. /\ Aside(s, t, i) /\ t.ctx[i].st = s.ctx[i].st
        /\ t.ctx[i].granted = ThrottleLimit(i, grant)
    BY <1>4, apply_throttleAside
  <1> HIDE DEF t
  <1>8. t.ctx[i].granted \in Nat
        /\ (t.ctx[i].granted <= want \/ t.ctx[i].granted <= BASE_RESERVE)
    BY <1>4, <1>6, <1>7
  <1> QED
    BY <1>5, <1>7, <1>8

\* What a shed takes, it takes from ports below, and they remember it: each had
\* its contract.
LEMMA shed_lower_priorityYields ==
    ASSUME SettingsOK, NEW s, NEW i \in Ports, Well(s), NEW want \in Nat, NEW b \in BusOutcomes
    PROVE  /\ Yields(s, shed_lower_priority(s, i, want, b), i)
           /\ shed_lower_priority(s, i, want, b).ctx[i] = s.ctx[i]
  <1> DEFINE V == Victims(s, i) \cap b.reach
             take == [v \in Ports |-> Reclaim(s, i, want, V, v)]
             hit == {v \in Ports : take[v] > 0}
             grant == [v \in Ports |-> s.res[v] - take[v]]
             c == [v \in Ports |->
                     IF v \in hit THEN ThrottledCtx(s.ctx[v], v, grant[v], s.ctx[v].contract)
                     ELSE s.ctx[v]]
             t == shed_lower_priority(s, i, want, b)
  <1>1. s \in World
    BY DEF Well
  <1>2. t \in World
    BY <1>1, shed_lower_priorityType
  <1>3. t.ctx = c /\ t.res = grant
    BY <1>1 DEF shed_lower_priority, World
  <1>4. V \in SUBSET Victims(s, i)
    OBVIOUS
  <1>5. \A v \in Ports : take[v] = Reclaim(s, i, want, V, v) /\ grant[v] = s.res[v] - take[v]
                         /\ (v \in hit <=> take[v] > 0)
    OBVIOUS
  <1>6. \A v \in Ports \ V : take[v] = 0
    BY DEF Reclaim
  <1>7. \A v \in V : /\ v \in Ports /\ Prio[v] > Prio[i] /\ s.res[v] > BASE_RESERVE
                     /\ s.ctx[v].state \in {"ACTIVE", "THROTTLED"}
    BY DEF Victims
  <1> HIDE DEF V, take, hit, grant, t
  <1>12. i \notin hit
    <2>1. i \notin V
      BY <1>4 DEF Victims
    <2>2. take[i] = 0
      BY <1>6, <2>1
    <2> QED
      BY <1>5, <2>2
  <1>13. c[i] = s.ctx[i]
    BY <1>12
  <1> SUFFICES ASSUME NEW j \in Ports \ {i}
               PROVE  \/ c[j] = s.ctx[j] /\ grant[j] = s.res[j]
                      \/ Yielded(c[j], grant[j], i, j)
    BY <1>2, <1>3, <1>13 DEF Yields, t
  <1>8. /\ take[j] \in Nat
        /\ take[j] > 0 => s.res[j] - take[j] >= BASE_RESERVE
        /\ s.res[j] - take[j] \in Nat
    <2>1. /\ Reclaim(s, i, want, V, j) \in Nat
          /\ Reclaim(s, i, want, V, j) > 0
               => s.res[j] - Reclaim(s, i, want, V, j) >= BASE_RESERVE
          /\ s.res[j] - Reclaim(s, i, want, V, j) \in Nat
      BY <1>1, <1>4, ReclaimBound
    <2>2. take[j] = Reclaim(s, i, want, V, j)
      BY <1>5
    <2> QED
      BY <2>1, <2>2
  <1>9. s.res[j] \in Nat /\ s.ctx[j] \in PortCtx /\ s.ctx[j].contract \in Nat
    BY <1>1, PartsType, CtxParts
  <1>10. CASE j \in hit
    <2>1. take[j] > 0 /\ j \in V
      BY <1>5, <1>6, <1>10
    <2>2. grant[j] = s.res[j] - take[j] /\ grant[j] \in Nat /\ grant[j] >= BASE_RESERVE
      BY <1>5, <1>8, <2>1
    <2>3. s.res[j] = s.ctx[j].contract
      <3>1. Holding(s.ctx[j], s.res[j])
        BY DEF Well
      <3>2. s.ctx[j].state \in Powered /\ s.res[j] > BASE_RESERVE /\ BASE_RESERVE \in Nat
        BY <1>7, <2>1, BaseAssumption DEF Powered
      <3>3. s.res[j] = IF s.ctx[j].contract = 0 THEN BASE_RESERVE ELSE s.ctx[j].contract
        BY <3>1, <3>2 DEF Holding
      <3> QED
        BY <1>9, <3>2, <3>3
    <2> DEFINE q == ThrottledCtx(s.ctx[j], j, grant[j], s.ctx[j].contract)
    <2>4. q \in PortCtx /\ q.state = "THROTTLED" /\ q.denied >= s.ctx[j].contract
      BY <1>9, <2>2, ThrottledParts, ZenonT(40)
    <2>5. c[j] = q
      BY <1>10
    <2> HIDE DEF q, c
    <2>6. q.denied \in Nat
      BY <2>4, CtxParts
    <2>7. grant[j] < s.ctx[j].contract
      BY <1>8, <1>9, <2>1, <2>2, <2>3
    <2>8. q.denied > grant[j]
      BY <1>9, <2>2, <2>4, <2>6, <2>7
    <2>9. Prio[i] < Prio[j]
      <3>1. Prio[i] \in Nat /\ Prio[j] \in Nat /\ Prio[j] > Prio[i]
        BY <1>7, <2>1, FsmAssumption
      <3> QED
        BY <3>1
    <2> QED
      BY <2>2, <2>4, <2>5, <2>8, <2>9 DEF Yielded
  <1>11. CASE j \notin hit
    <2>1. take[j] = 0
      BY <1>5, <1>8, <1>11
    <2>2. grant[j] = s.res[j]
      BY <1>5, <1>9, <2>1
    <2> QED
      BY <1>11, <2>2
  <1> QED
    BY <1>10, <1>11

LEMMA CappedUp ==
    ASSUME NEW p \in PortCtx, NEW m \in Nat, NEW g \in Nat, m <= g, Capped(p, m)
    PROVE  Capped(p, g)
  <1>1. p.granted \in Nat
    BY CtxParts
  <1> QED
    BY <1>1 DEF Capped

LEMMA CappedSame ==
    ASSUME NEW p, NEW q, NEW g, Capped(p, g), q.state = p.state, q.st = p.st, q.granted = p.granted
    PROVE  Capped(q, g)
  BY DEF Capped

LEMMA CappedLow ==
    ASSUME NEW p \in PortCtx, NEW g \in Nat, p.granted <= g
    PROVE  Capped(p, g)
  <1>1. p.granted \in Nat
    BY CtxParts
  <1> QED
    BY <1>1 DEF Capped

\* A port follows its device's contract: what it takes from others it takes from
\* below, and its limit rises only to what the device asks.
LEMMA track_contractYields ==
    ASSUME SettingsOK, NEW s, NEW i \in Ports, Well(s), s.ctx[i].state \in {"ACTIVE", "THROTTLED"},
           NEW late \in BOOLEAN, NEW b \in BusOutcomes
    PROVE  /\ Yields(s, track_contract(s, i, late, b), i)
           /\ Capped(track_contract(s, i, late, b).ctx[i], s.ctx[i].granted)
  <1> DEFINE p == s.ctx[i]
             want == IF p.st.contract < BASE_RESERVE THEN BASE_RESERVE ELSE p.st.contract
             heard == [s EXCEPT !.ctx[i].renegotiating = FALSE]
             shed == IF budget_fits(s.res, total, i, want) THEN heard
                     ELSE shed_lower_priority(heard, i, want, b)
             q == [shed.ctx[i] EXCEPT !.contract = want]
             given == [shed EXCEPT !.res[i] = want, !.ctx[i].contract = want]
             cut == throttle(shed, i, want, b)
  <1>1. s \in World /\ p \in PortCtx
    BY PartsType DEF Well
  <1>2. p.st.contract \in Nat /\ p.granted \in Nat /\ BASE_RESERVE \in Nat
    BY <1>1, CtxParts, NatParameters
  <1>3. /\ want \in Nat
        /\ want <= BASE_RESERVE \/ want <= p.st.contract
    BY <1>2
  <1>4. track_contract(s, i, late, b) \in {s, heard, given, cut}
    BY DEF track_contract
  <1>5. /\ Aside(s, heard, i) /\ heard.ctx[i] \in PortCtx
        /\ heard.ctx[i].st = p.st /\ heard.ctx[i].granted = p.granted
    <2>1. Aside(s, heard, i)
      BY <1>1, FlagAside
    <2>2. heard.ctx[i].st = p.st /\ heard.ctx[i].granted = p.granted
      BY <1>1 DEF World, PortCtx
    <2> QED
      BY <2>1, <2>2, PartsType DEF Aside
  <1>6. Well(heard)
    BY <1>1, FlagBooks, BooksWell
  <1> HIDE DEF want, heard
  <1>7. /\ Yields(heard, shed, i) /\ shed.ctx[i] = heard.ctx[i]
    <2>1. heard \in World
      BY <1>5 DEF Aside
    <2> QED
      BY <1>3, <1>6, <2>1, AsideSame, YieldsSame, shed_lower_priorityYields
  <1> HIDE DEF shed, p
  <1>8. Yields(s, heard, i) /\ Yields(s, shed, i) /\ shed \in World
    BY <1>5, <1>7, AsideYields, YieldsSame DEF Yields
  <1>9. Capped(p, p.granted) /\ Capped(heard.ctx[i], p.granted)
    <2>1. p.granted <= p.granted
      BY <1>2
    <2> QED
      BY <1>1, <1>2, <1>5, <2>1, CappedLow DEF p
  <1>10. Yields(s, given, i) /\ Capped(given.ctx[i], p.granted)
    <2>1. /\ q \in PortCtx /\ q.granted = p.granted
      <3>1. q \in PortCtx
        BY <1>3, <1>5, <1>7, ContractCtx
      <3>2. q.granted = shed.ctx[i].granted
        BY <1>5, <1>7 DEF PortCtx
      <3> QED
        BY <1>5, <1>7, <3>1, <3>2
    <2>2. given = [shed EXCEPT !.res[i] = want, !.ctx[i] = q]
      BY <1>8 DEF World
    <2> HIDE DEF q
    <2>3. Aside(shed, given, i) /\ given.ctx[i] = q
      <3> HIDE DEF given
      <3>1. given \in World
        BY <1>3, <1>8, <2>1, <2>2, CtxResUpdate
      <3>2. /\ given.ctx[i] = q
            /\ \A j \in Ports \ {i} : given.ctx[j] = shed.ctx[j] /\ given.res[j] = shed.res[j]
        BY <1>3, <1>8, <2>1, <2>2 DEF World
      <3> QED
        BY <3>1, <3>2 DEF Aside
    <2>4. q.granted <= p.granted
      BY <1>2, <2>1
    <2> HIDE DEF given
    <2> QED
      BY <1>2, <1>8, <2>1, <2>3, <2>4, YieldsAside, CappedLow
  <1>11. Yields(s, cut, i) /\ Capped(cut.ctx[i], p.granted)
    <2>1. /\ Aside(shed, cut, i)
          /\ cut.ctx[i].st = shed.ctx[i].st
          /\ cut.ctx[i].granted \in Nat
          /\ cut.ctx[i].granted <= want \/ cut.ctx[i].granted <= BASE_RESERVE
      BY <1>3, <1>8, throttleAside
    <2>2. cut.ctx[i].st = p.st
      BY <1>5, <1>7, <2>1
    <2> HIDE DEF cut
    <2>3. cut.ctx[i].granted > BASE_RESERVE => cut.ctx[i].st.contract >= cut.ctx[i].granted
      <3> DEFINE m == cut.ctx[i].granted
                 n == p.st.contract
      <3>1. m \in Nat /\ n \in Nat /\ (m <= want \/ m <= BASE_RESERVE)
        BY <1>2, <2>1
      <3>2. cut.ctx[i].st.contract = n
        BY <2>2
      <3>3. want <= BASE_RESERVE \/ want <= n
        BY <1>3
      <3> HIDE DEF m, n
      <3>4. m > BASE_RESERVE => n >= m
        BY <1>2, <1>3, <3>1, <3>3
      <3> QED
        BY <3>2, <3>4 DEF m
    <2> QED
      BY <1>8, <2>1, <2>3, YieldsAside DEF Capped
  <1> HIDE DEF given, cut
  <1>12. Yields(s, s, i)
    BY <1>1, AsideSame, YieldsSame
  <1>13. \A t \in {s, heard, given, cut} : Yields(s, t, i) /\ Capped(t.ctx[i], p.granted)
    BY <1>8, <1>9, <1>10, <1>11, <1>12 DEF p
  <1> QED
    BY <1>4, <1>13 DEF p

LEMMA unthrottleAside ==
    ASSUME SettingsOK, NEW s \in World, NEW i \in Ports, NEW b \in BusOutcomes
    PROVE  Aside(s, unthrottle(s, i, b), i)
  <1> DEFINE yes == TRUE
             t == [set_limits(s, i, limit_for(i), port_max_w[i], yes, b)
                     EXCEPT !.ctx[i].granted = limit_for(i)]
  <1>1. unthrottle(s, i, b) \in {enter(s, i, "ACTIVE"), enter(t, i, "ACTIVE")} /\ yes \in BOOLEAN
    BY DEF unthrottle
  <1> HIDE DEF yes
  <1>2. Aside(s, t, i)
    BY <1>1, LimitedAside
  <1> HIDE DEF t
  <1>3. \A u : Aside(s, u, i) => Aside(s, enter(u, i, "ACTIVE"), i)
    <2> SUFFICES ASSUME NEW u, Aside(s, u, i) PROVE Aside(s, enter(u, i, "ACTIVE"), i)
      OBVIOUS
    <2>1. Aside(u, enter(u, i, "ACTIVE"), i)
      BY StateNames, enterAside DEF Aside
    <2> QED
      BY <2>1, AsideTrans
  <1> QED
    BY <1>1, <1>2, <1>3, AsideSame

LEMMA RecoverAside ==
    ASSUME SettingsOK, NEW s \in World, NEW i \in Ports, NEW due \in BOOLEAN, NEW b \in BusOutcomes
    PROVE  Aside(s, Recover(s, i, due, b), i)
  <1> DEFINE n == s.ctx[i].denied
             room == budget_headroom(s.res, total)
             more == s.res[i] + room
             q == [s.ctx[i] EXCEPT !.contract = n, !.denied = 0]
             all == [s EXCEPT !.res[i] = n, !.ctx[i].contract = n, !.ctx[i].denied = 0]
             whole == unthrottle(all, i, b)
             some == apply_throttle(s, i, more, n, b)
  <1>1. s.ctx[i] \in PortCtx /\ n \in Nat /\ room \in Nat /\ s.res[i] \in Nat
    BY HeadroomType, PartsType, CtxParts
  <1>2. Recover(s, i, due, b) \in {s, whole, some}
    BY DEF Recover
  <1>3. all = [s EXCEPT !.res[i] = n, !.ctx[i] = q]
    BY DEF World
  <1>4. q \in PortCtx
    BY <1>1, ContractCtx
  <1>5. more \in Nat
    BY <1>1
  <1> HIDE DEF n, room, more, q
  <1>6. Aside(s, all, i)
    <2> HIDE DEF all
    <2>1. all \in World
      BY <1>1, <1>3, <1>4, CtxResUpdate
    <2>2. \A j \in Ports \ {i} : all.ctx[j] = s.ctx[j] /\ all.res[j] = s.res[j]
      BY <1>1, <1>3, <1>4 DEF World
    <2> QED
      BY <2>1, <2>2 DEF Aside
  <1> HIDE DEF all
  <1>7. Aside(s, whole, i)
    <2>1. Aside(all, whole, i)
      BY <1>6, unthrottleAside DEF Aside
    <2> QED
      BY <1>6, <2>1, AsideTrans
  <1>8. Aside(s, some, i)
    BY <1>1, <1>5, apply_throttleAside
  <1> HIDE DEF whole, some
  <1> QED
    BY <1>2, <1>7, <1>8, AsideSame

\* A port does not recover while another waits that goes before it.
LEMMA RecoverWaits ==
    ASSUME NEW s, NEW i \in Ports, NEW j \in Ports, Waits(s, j, i), NEW due, NEW b
    PROVE  Recover(s, i, due, b) = s
  <1>1. recovery_should_yield(s, i)
    BY DEF Waits, recovery_should_yield
  <1> QED
    BY <1>1 DEF Recover
\* From s to t port i gets no more than it had, or than its device asks, while
\* another waits that goes before it.
Bounded(s, t, i) ==
    s.ctx[i].state = "THROTTLED" /\ (\E j \in Ports : Waits(s, j, i))
        => Capped(t.ctx[i], s.ctx[i].granted)

Fair(s, t, i) == Yields(s, t, i) /\ Bounded(s, t, i)

\* From s to t only port i changes, stays where it is and is allowed no more.
Down(s, t, i) ==
    /\ Aside(s, t, i)
    /\ t.ctx[i].state = s.ctx[i].state /\ t.ctx[i].granted <= s.ctx[i].granted

LEMMA GrantedType ==
    ASSUME NEW s \in World, NEW i \in Ports
    PROVE  s.ctx[i] \in PortCtx /\ s.ctx[i].granted \in Nat
  BY PartsType, CtxParts

LEMMA DownSame ==
    ASSUME NEW s \in World, NEW i \in Ports
    PROVE  Down(s, s, i)
  BY GrantedType, AsideSame DEF Down

LEMMA DownTrans ==
    ASSUME NEW s \in World, NEW t, NEW u, NEW i \in Ports, Down(s, t, i), Down(t, u, i)
    PROVE  Down(s, u, i)
  <1>1. t \in World /\ u \in World
    BY DEF Down, Aside
  <1>2. s.ctx[i].granted \in Nat /\ t.ctx[i].granted \in Nat /\ u.ctx[i].granted \in Nat
    BY <1>1, GrantedType
  <1> QED
    BY <1>2, AsideTrans DEF Down

LEMMA DownFair ==
    ASSUME NEW s \in World, NEW t, NEW i \in Ports, Down(s, t, i)
    PROVE  Fair(s, t, i)
  <1>1. t \in World
    BY DEF Down, Aside
  <1>2. t.ctx[i] \in PortCtx /\ s.ctx[i].granted \in Nat
    BY <1>1, GrantedType
  <1> QED
    BY <1>2, CappedLow, YieldsSame DEF Down, Fair, Bounded

LEMMA FairAfter ==
    ASSUME NEW s \in World, NEW h, NEW t, NEW i \in Ports, Down(s, h, i), Fair(h, t, i)
    PROVE  Fair(s, t, i)
  <1>1. h \in World /\ t \in World
    BY DEF Down, Aside, Fair, Yields
  <1>2. Yields(s, t, i)
    BY AsideYields DEF Down, Fair
  <1>3. \A j \in Ports : Waits(s, j, i) => Waits(h, j, i)
    BY YieldsSame, WaitsOn DEF Down
  <1>4. /\ h.ctx[i].granted \in Nat /\ s.ctx[i].granted \in Nat
        /\ t.ctx[i] \in PortCtx
    BY <1>1, GrantedType
  <1>5. h.ctx[i].state = s.ctx[i].state /\ h.ctx[i].granted <= s.ctx[i].granted
    BY DEF Down
  <1>6. Capped(t.ctx[i], h.ctx[i].granted) => Capped(t.ctx[i], s.ctx[i].granted)
    BY <1>4, <1>5, CappedUp
  <1> QED
    BY <1>2, <1>3, <1>5, <1>6 DEF Fair, Bounded

\* A port that leaves service gets nothing, and one that was not throttled is
\* owed nothing.
LEMMA AsideFair ==
    ASSUME NEW s \in World, NEW t, NEW i \in Ports, Aside(s, t, i),
           \/ t.ctx[i].state \notin {"ACTIVE", "THROTTLED"}
           \/ s.ctx[i].state # "THROTTLED"
    PROVE  Fair(s, t, i)
  BY YieldsSame DEF Fair, Bounded, Capped

\* What is left of a port's tick once it has followed its contract.
Rests(p, q) ==
    \/ q.state \notin {"ACTIVE", "THROTTLED"}
    \/ q.state = p.state /\ q.st = p.st /\ q.granted = p.granted

LEMMA CappedRests ==
    ASSUME NEW p, NEW q, NEW g, Capped(p, g), Rests(p, q)
    PROVE  Capped(q, g)
  BY DEF Capped, Rests

LEMMA charge_trackAside ==
    ASSUME NEW s \in World, NEW i \in Ports, NEW charge, NEW b \in BusOutcomes
    PROVE  /\ Aside(s, charge_track(s, i, charge, b), i)
           /\ Rests(s.ctx[i], charge_track(s, i, charge, b).ctx[i])
  <1> DEFINE t == [s EXCEPT !.ctx[i].charged = TRUE]
             u == [s EXCEPT !.ctx[i].charged = FALSE]
             o == auto_off(s, i, b)
  <1>1. charge_track(s, i, charge, b) \in {s, t, u, o}
    BY DEF charge_track
  <1>2. Aside(s, t, i) /\ Aside(s, u, i)
    BY FlagAside
  <1>3. Rests(s.ctx[i], t.ctx[i]) /\ Rests(s.ctx[i], u.ctx[i])
    BY DEF World, PortCtx, Rests
  <1>4. Aside(s, o, i) /\ Rests(s.ctx[i], o.ctx[i])
    BY auto_offAside DEF Rests
  <1>5. Aside(s, s, i) /\ Rests(s.ctx[i], s.ctx[i])
    BY AsideSame DEF Rests
  <1> HIDE DEF t, u, o
  <1> QED
    BY <1>1, <1>2, <1>3, <1>4, <1>5

LEMMA DetachedAside ==
    ASSUME NEW s \in World, NEW i \in Ports
    PROVE  Aside(s, Detached(s, i), i)
  <1>1. Detached(s, i) \in World
    BY DetachedType
  <1>2. \A j \in Ports \ {i} :
          Detached(s, i).ctx[j] = s.ctx[j] /\ Detached(s, i).res[j] = s.res[j]
    BY DEF Detached, World
  <1> QED
    BY <1>1, <1>2 DEF Aside

LEMMA ServeIdleYields ==
    ASSUME SettingsOK, NEW s, NEW i \in Ports, Well(s), s.ctx[i].state = "IDLE",
           NEW c \in Chance, NEW b \in BusOutcomes
    PROVE  Yields(s, ServeIdle(s, i, c, b), i)
  <1> DEFINE t == sync_limit(s, i, b)
             k == attach_begin(t, i)
             a == enter(k, i, "ACTIVE")
             l == send_to_loader(t, i, b)
             r == track_contract(a, i, FALSE, b)
  <1>1. s \in World
    BY DEF Well
  <1>2. Books(s, t) /\ Aside(s, t, i)
    BY <1>1, sync_limitBooks, sync_limitAside
  <1>3. ServeIdle(s, i, c, b) \in {t, l, r}
    BY DEF ServeIdle
  <1> HIDE DEF t
  <1>4. Well(t) /\ t \in World
    BY <1>2, BooksWell DEF Books
  <1>5. Books(t, k) /\ Aside(t, k, i)
    BY <1>4, attach_beginBooks, attach_beginAside
  <1>6. Aside(t, l, i)
    BY <1>4, send_to_loaderAside
  <1> HIDE DEF k, l
  <1>7. Well(k) /\ k \in World /\ k.ctx[i].state = "IDLE"
    BY <1>2, <1>4, <1>5, BooksWell DEF Books
  <1>8. k.ctx[i].contract = 0 /\ k.res[i] = BASE_RESERVE /\ k.ctx[i] \in PortCtx
    BY <1>7, PartsType DEF Well, Holding, Powered
  <1>9. "ACTIVE" \in States /\ "ACTIVE" \in Powered
    BY DEF States, Powered
  <1>10. Holding([k.ctx[i] EXCEPT !.state = "ACTIVE"], k.res[i])
    BY <1>8, <1>9, NatParameters, HoldingAfter
  <1>11. Well(a) /\ Aside(k, a, i) /\ a.ctx[i].state = "ACTIVE"
    BY <1>7, <1>9, <1>10, WellParts, enterWell, enterAside
  <1> HIDE DEF a
  <1>12. Yields(a, r, i)
    BY <1>11, track_contractYields
  <1> HIDE DEF r
  <1>13. Aside(s, a, i) /\ Aside(s, l, i)
    BY <1>2, <1>5, <1>6, <1>11, AsideTrans
  <1>14. Yields(s, t, i) /\ Yields(s, l, i) /\ Yields(s, r, i)
    BY <1>2, <1>12, <1>13, YieldsSame, AsideYields
  <1> QED
    BY <1>3, <1>14

LEMMA ServeAttachedFair ==
    ASSUME SettingsOK, NEW s, NEW i \in Ports, Well(s), s.ctx[i].state \in {"ACTIVE", "THROTTLED"},
           NEW c \in Chance, NEW b \in BusOutcomes
    PROVE  Fair(s, ServeAttached(s, i, c, b), i)
  <1> DEFINE l == sync_limit(s, i, b)
             late == c.late /\ l.ctx[i].granted = s.ctx[i].granted
             t == track_contract(l, i, late, b)
             u == charge_track(t, i, c.charge, b)
             v == send_to_loader(u, i, b)
             r == Recover(u, i, c.due, b)
             w == Recover(v, i, c.due, b)
             g == s.ctx[i].granted
  <1>1. s \in World /\ c.late \in BOOLEAN /\ c.due \in BOOLEAN
    BY DEF Well, Chance
  <1>2. late \in BOOLEAN
    BY <1>1
  <1>3. ServeAttached(s, i, c, b) \in {u, v, r, w}
    BY DEF ServeAttached
  <1> HIDE DEF late
  <1>4. /\ Books(s, l) /\ Aside(s, l, i)
        /\ s.ctx[i].state = "THROTTLED" => l.ctx[i].granted <= g
    BY <1>1, sync_limitBooks, sync_limitAside
  <1> HIDE DEF l
  <1>5. Well(l) /\ l.ctx[i].state \in {"ACTIVE", "THROTTLED"} /\ l \in World
    BY <1>4, BooksWell DEF Books
  <1>6. /\ Well(t) /\ Yields(l, t, i) /\ t \in World
        /\ Capped(t.ctx[i], l.ctx[i].granted)
    BY <1>2, <1>5, track_contractWell, track_contractYields DEF Well
  <1> HIDE DEF t
  <1>7. Aside(t, u, i) /\ Rests(t.ctx[i], u.ctx[i]) /\ u \in World
    BY <1>6, charge_trackAside DEF Aside
  <1> HIDE DEF u
  <1>8. Aside(u, v, i) /\ Rests(u.ctx[i], v.ctx[i]) /\ v \in World
    <2>1. Aside(u, v, i)
      BY <1>7, send_to_loaderAside
    <2>2. \/ v.ctx[i].state = "PROBE"
          \/ /\ v.ctx[i].state = u.ctx[i].state /\ v.ctx[i].st = u.ctx[i].st
             /\ v.ctx[i].granted = u.ctx[i].granted
      BY <1>7, send_to_loaderAside
    <2> HIDE DEF v
    <2> QED
      BY <2>1, <2>2 DEF Rests, Aside
  <1> HIDE DEF v
  <1>9. Aside(u, r, i) /\ Aside(v, w, i)
    BY <1>1, <1>7, <1>8, RecoverAside
  <1>10. Yields(s, u, i) /\ Yields(s, v, i)
    BY <1>4, <1>6, <1>7, <1>8, AsideYields, YieldsAside
  <1>11. \A j \in Ports : Waits(s, j, i) => r = u /\ w = v
    BY <1>1, <1>10, WaitsOn, RecoverWaits
  <1> HIDE DEF r, w
  <1>12. \A x \in {u, v, r, w} : Yields(s, x, i)
    BY <1>9, <1>10, YieldsAside
  <1>13. ASSUME s.ctx[i].state = "THROTTLED"
         PROVE  Capped(u.ctx[i], g) /\ Capped(v.ctx[i], g)
    <2>1. t.ctx[i] \in PortCtx /\ l.ctx[i].granted \in Nat /\ g \in Nat
      BY <1>1, <1>5, <1>6, GrantedType
    <2>2. l.ctx[i].granted <= g
      BY <1>4, <1>13
    <2> HIDE DEF g
    <2>3. Capped(t.ctx[i], g)
      BY <1>6, <2>1, <2>2, CappedUp
    <2> QED
      BY <1>7, <1>8, <2>3, CappedRests
  <1>14. \A x \in {u, v, r, w} : Bounded(s, x, i)
    BY <1>11, <1>13 DEF Bounded
  <1> QED
    BY <1>3, <1>12, <1>14 DEF Fair

\* One port's tick, whatever its poll has told.
LEMMA ServeFair ==
    ASSUME SettingsOK, NEW s, NEW i \in Ports, Well(s), s.ctx[i].state \in Powered,
           NEW c \in Chance, NEW b \in BusOutcomes
    PROVE  Fair(s, Serve(s, i, c, b), i)
  <1> DEFINE e == Detached(s, i)
             d == sync_limit(e, i, b)
             n == enter(d, i, "IDLE")
  <1>1. s \in World
    BY DEF Well
  <1>2. \/ s.ctx[i].state = "IDLE" /\ Serve(s, i, c, b) = ServeIdle(s, i, c, b)
        \/ s.ctx[i].state # "IDLE" /\ Serve(s, i, c, b) = ServeAttached(s, i, c, b)
        \/ Serve(s, i, c, b) = n
    BY DEF Serve, go_idle
  <1>3. Aside(s, e, i) /\ e \in World
    BY <1>1, DetachedAside DEF Aside
  <1> HIDE DEF e
  <1>4. Aside(e, d, i) /\ d \in World
    BY <1>3, sync_limitAside DEF Aside
  <1> HIDE DEF d
  <1>5. Aside(d, n, i) /\ n.ctx[i].state = "IDLE"
    BY <1>4, StateNames, enterAside
  <1> HIDE DEF n
  <1>6. Fair(s, n, i)
    BY <1>1, <1>3, <1>4, <1>5, AsideTrans, AsideFair
  <1>7. CASE s.ctx[i].state = "IDLE" /\ Serve(s, i, c, b) = ServeIdle(s, i, c, b)
    BY <1>7, ServeIdleYields DEF Fair, Bounded
  <1>8. CASE s.ctx[i].state # "IDLE" /\ Serve(s, i, c, b) = ServeAttached(s, i, c, b)
    <2>1. s.ctx[i].state \in {"ACTIVE", "THROTTLED"}
      BY <1>8 DEF Powered
    <2> QED
      BY <1>8, <2>1, ServeAttachedFair
  <1> QED
    BY <1>2, <1>6, <1>7, <1>8

LEMMA CtxDown ==
    ASSUME NEW s \in World, NEW i \in Ports, NEW p \in PortCtx,
           p.state = s.ctx[i].state, p.granted <= s.ctx[i].granted
    PROVE  Down(s, [s EXCEPT !.ctx[i] = p], i)
  BY CtxAside DEF Down

LEMMA BooksDown ==
    ASSUME NEW s \in World, NEW t \in World, t.ctx = s.ctx, t.res = s.res, NEW i \in Ports
    PROVE  Down(s, t, i)
  BY GrantedType, BooksAside DEF Down

LEMMA SelectDown ==
    ASSUME NEW s \in World, NEW i \in Ports, NEW b \in BusOutcomes
    PROVE  Down(s, Select(s, i, b), i)
  BY GrantedType, SelectAside DEF Down

LEMMA HeardDown ==
    ASSUME NEW s \in World, NEW i \in Ports
    PROVE  Down(s, Heard(s, i), i)
  <1> DEFINE t == [attached |-> s.sink[i] # 0, contract |-> s.sink[i]]
             p == [s.ctx[i] EXCEPT !.st = t, !.polls = 0, !.silent = FALSE]
  <1>1. t \in [attached : BOOLEAN, contract : Nat]
    BY PlugType
  <1>2. Heard(s, i) = [s EXCEPT !.ctx[i] = p]
    BY ZenonT(40) DEF Heard, World
  <1> HIDE DEF t
  <1>3. s.ctx[i] \in PortCtx /\ s.ctx[i].granted \in Nat
    BY GrantedType
  <1>4. p \in PortCtx
    BY <1>1, <1>3, HeardCtx
  <1>5. p.state = s.ctx[i].state /\ p.granted <= s.ctx[i].granted
    BY <1>3 DEF PortCtx
  <1> HIDE DEF p
  <1> QED
    BY <1>2, <1>4, <1>5, CtxDown

LEMMA ReadoptedDown ==
    ASSUME SettingsOK, NEW s \in World, NEW i \in Ports
    PROVE  Down(s, Readopted(s, i), i)
  <1>1. Readopted(s, i) \in World
    BY ReadoptedType
  <1>2. Readopted(s, i).ctx = s.ctx /\ Readopted(s, i).res = s.res
    BY DEF Readopted, World
  <1> QED
    BY <1>1, <1>2, BooksDown

LEMMA RecheckDown ==
    ASSUME SettingsOK, NEW s \in World, NEW i \in Ports
    PROVE  Down(s, Recheck(s, i), i)
  <1> DEFINE t == [s EXCEPT !.ctx[i].granted = limit_for(i)]
  <1>1. limit_for(i) \in Nat /\ s.ctx[i].granted \in Nat
    BY LimitType, GrantedType
  <1>2. /\ Aside(s, t, i) /\ t.ctx[i].granted = limit_for(i)
        /\ t.ctx[i].state = s.ctx[i].state
    BY <1>1, GrantedAside
  <1>3. \/ Recheck(s, i) = s
        \/ Recheck(s, i) = t /\ s.ctx[i].granted > limit_for(i)
    BY DEF Recheck
  <1> HIDE DEF t
  <1>4. s.ctx[i].granted > limit_for(i) => limit_for(i) <= s.ctx[i].granted
    BY <1>1
  <1> QED
    BY <1>2, <1>3, <1>4, DownSame DEF Down

LEMMA PollsDown ==
    ASSUME NEW s \in World, NEW i \in Ports, NEW n \in Nat
    PROVE  /\ Down(s, [s EXCEPT !.ctx[i].polls = n], i)
           /\ Down(s, [s EXCEPT !.ctx[i].silent = TRUE, !.ctx[i].polls = n], i)
  <1> DEFINE m == [s.ctx[i] EXCEPT !.polls = n]
             q == [s.ctx[i] EXCEPT !.silent = TRUE, !.polls = n]
  <1>1. s.ctx[i] \in PortCtx /\ s.ctx[i].granted \in Nat
    BY GrantedType
  <1>2. m \in PortCtx /\ q \in PortCtx
    BY <1>1, PollsCtx
  <1>3. m.state = s.ctx[i].state /\ m.granted <= s.ctx[i].granted
    BY <1>1 DEF PortCtx
  <1>4. q.state = s.ctx[i].state /\ q.granted <= s.ctx[i].granted
    BY <1>1 DEF PortCtx
  <1>5. [s EXCEPT !.ctx[i].polls = n] = [s EXCEPT !.ctx[i] = m]
    BY DEF World
  <1>6. [s EXCEPT !.ctx[i].silent = TRUE, !.ctx[i].polls = n] = [s EXCEPT !.ctx[i] = q]
    BY DEF World
  <1> HIDE DEF m, q
  <1>7. Down(s, [s EXCEPT !.ctx[i] = m], i)
    BY <1>2, <1>3, CtxDown
  <1>8. Down(s, [s EXCEPT !.ctx[i] = q], i)
    BY <1>2, <1>4, CtxDown
  <1> QED
    BY <1>5, <1>6, <1>7, <1>8

LEMMA ReprobedAside ==
    ASSUME NEW s \in World, NEW i \in Ports
    PROVE  Aside(s, Reprobed(s, i), i) /\ Reprobed(s, i).ctx[i].state = "PROBE"
  <1> DEFINE t == [s EXCEPT !.res[i] = BASE_RESERVE, !.ctx[i].contract = 0]
  <1>1. t \in World
    BY NatParameters, ContractUpdate
  <1>2. \A j \in Ports \ {i} : t.ctx[j] = s.ctx[j] /\ t.res[j] = s.res[j]
    BY DEF World
  <1>3. Reprobed(s, i) = start_probe(t, i)
    BY DEF Reprobed
  <1> HIDE DEF t
  <1>4. Aside(s, t, i)
    BY <1>1, <1>2 DEF Aside
  <1> QED
    BY <1>1, <1>3, <1>4, start_probeAside, AsideTrans

LEMMA blade_silentFair ==
    ASSUME SettingsOK, NEW s, NEW i \in Ports, Well(s), s.ctx[i].state \in Powered,
           NEW loader \in BOOLEAN, NEW c \in Chance, NEW b \in BusOutcomes
    PROVE  Fair(s, blade_silent(s, i, loader, c, b), i)
  <1> DEFINE p == s.ctx[i]
             more == p.polls + 1
             n == IF p.silent THEN p.polls ELSE more
             r == Released(p)
             missed == [s EXCEPT !.ctx[i].polls = more]
             quiet == [s EXCEPT !.ctx[i].silent = TRUE, !.ctx[i].polls = n]
             gone == [s EXCEPT !.res[i] = 0, !.ctx[i] = r]
             serves == Serve(missed, i, c, b)
             loads == begin_update(gone, i, b)
  <1>1. s \in World /\ p \in PortCtx /\ p.polls \in Nat /\ 0 \in Nat
    BY PartsType, CtxParts DEF Well
  <1>2. more \in Nat /\ n \in Nat
    BY <1>1
  <1>3. [s EXCEPT !.ctx[i].polls = @ + 1] = missed
    BY <1>1 DEF World
  <1>4. [s EXCEPT !.ctx[i].silent = TRUE, !.ctx[i].polls = IF p.silent THEN @ ELSE @ + 1] = quiet
    BY <1>1 DEF World
  <1>5. blade_silent(s, i, loader, c, b) \in {serves, loads, quiet}
    BY <1>3, <1>4 DEF blade_silent
  <1> HIDE DEF more, n
  <1>6. Books(s, missed) /\ Down(s, missed, i) /\ Down(s, quiet, i)
    BY <1>1, <1>2, PollsBooks, PollsDown
  <1> HIDE DEF missed, quiet
  <1>7. Well(missed) /\ missed.ctx[i].state \in Powered
    BY <1>6, BooksWell DEF Books
  <1>8. Fair(missed, serves, i)
    BY <1>7, ServeFair
  <1>9. Aside(s, gone, i)
    BY <1>1, ReleasedAside
  <1> HIDE DEF gone
  <1>10. Aside(gone, loads, i) /\ loads.ctx[i].state \in {"UPDATE", "FAULT"}
    <2>1. gone \in World
      BY <1>9 DEF Aside
    <2> QED
      BY <2>1, begin_updateAside
  <1> HIDE DEF serves, loads
  <1>11. Fair(s, serves, i) /\ Fair(s, quiet, i)
    BY <1>1, <1>6, <1>8, FairAfter, DownFair
  <1>12. Fair(s, loads, i)
    <2>1. Aside(s, loads, i) /\ loads.ctx[i].state \notin {"ACTIVE", "THROTTLED"}
      BY <1>9, <1>10, AsideTrans
    <2> QED
      BY <1>1, <2>1, AsideFair
  <1> QED
    BY <1>5, <1>11, <1>12

------------------------------------------------------------------------------
(* The ticks, port by port *)

\* A world that is fair to the others is put in place.
Shares(w, i) == Fair(Now, w, i) /\ Becomes(w)

LEMMA PowerDownShares ==
    ASSUME Now \in World, NEW i \in Ports, NEW b \in BusOutcomes,
           Becomes(power_down(Now, i, "ABSENT", b))
    PROVE  \E w : Shares(w, i)
  BY StateNames, power_downAside, AsideFair DEF Shares

LEMMA TickPoweredShares ==
    ASSUME SettingsOK, Well(Now), NEW i \in Ports, NEW on, NEW c \in Chance,
           TickPowered(i, on, c)
    PROVE  \E w : Shares(w, i)
  <1>1. PICK b \in BusOutcomes :
           LET s == Recheck(Select(Now, i, b), i)
               h == Heard(Readopted(s, i), i)
           IN
           \/ Becomes(power_down(Now, i, "ABSENT", b))
           \/ Becomes(Now)
           \/ Becomes(Serve(Now, i, c, b))
           \/ \E loader \in BOOLEAN : Becomes(blade_silent(s, i, loader, c, b))
           \/ Becomes(fault(Heard(s, i), i, b))
           \/ Becomes(Reprobed(h, i))
           \/ Becomes(Serve(h, i, c, b))
    BY DEF TickPowered
  <1> DEFINE a == Select(Now, i, b)
             s == Recheck(a, i)
             r == Readopted(s, i)
             h == Heard(r, i)
             g == Heard(s, i)
  <1>2. Now \in World /\ Now.ctx[i].state \in Powered
    BY DEF Well, Now, TickPowered
  <1>3. Books(Now, a) /\ Down(Now, a, i) /\ a \in World
    BY <1>2, SelectBooks, SelectDown DEF Books
  <1> HIDE DEF a
  <1>4. Books(a, s) /\ Down(a, s, i) /\ s \in World
    BY <1>3, RecheckBooks, RecheckDown DEF Books
  <1> HIDE DEF s
  <1>5. Books(s, r) /\ Books(s, g) /\ Down(s, r, i) /\ Down(s, g, i) /\ r \in World /\ g \in World
    BY <1>4, ReadoptedBooks, HeardBooks, ReadoptedDown, HeardDown DEF Books
  <1> HIDE DEF r, g
  <1>6. Books(r, h) /\ Down(r, h, i) /\ h \in World
    BY <1>5, HeardBooks, HeardDown DEF Books
  <1> HIDE DEF h
  <1>7. Well(s) /\ s.ctx[i].state \in Powered /\ Down(Now, s, i)
    <2>1. Books(Now, s) /\ Down(Now, s, i)
      BY <1>2, <1>3, <1>4, BooksTrans, DownTrans
    <2> QED
      BY <1>2, <2>1, BooksWell DEF Books
  <1>8. Well(h) /\ h.ctx[i].state \in Powered /\ Down(Now, h, i) /\ Down(Now, g, i)
    <2>1. Books(s, h) /\ Down(s, h, i)
      BY <1>4, <1>5, <1>6, BooksTrans, DownTrans
    <2>2. Down(Now, h, i) /\ Down(Now, g, i)
      BY <1>2, <1>5, <1>7, <2>1, DownTrans
    <2> QED
      BY <1>7, <2>1, <2>2, BooksWell DEF Books
  <1>9. Fair(Now, Serve(Now, i, c, b), i) /\ Fair(Now, Serve(h, i, c, b), i)
    BY <1>2, <1>8, ServeFair, FairAfter
  <1>10. \A loader \in BOOLEAN : Fair(Now, blade_silent(s, i, loader, c, b), i)
    BY <1>2, <1>7, blade_silentFair, FairAfter
  <1>11. Fair(Now, fault(g, i, b), i)
    <2>1. Aside(g, fault(g, i, b), i) /\ fault(g, i, b).ctx[i].state \notin {"ACTIVE", "THROTTLED"}
      BY <1>5, faultAside
    <2>2. Aside(Now, fault(g, i, b), i)
      BY <1>8, <2>1, AsideTrans DEF Down
    <2> QED
      BY <1>2, <2>1, <2>2, AsideFair
  <1>12. Fair(Now, Reprobed(h, i), i)
    <2>1. Aside(h, Reprobed(h, i), i) /\ Reprobed(h, i).ctx[i].state \notin {"ACTIVE", "THROTTLED"}
      BY <1>6, ReprobedAside
    <2>2. Aside(Now, Reprobed(h, i), i)
      BY <1>8, <2>1, AsideTrans DEF Down
    <2> QED
      BY <1>2, <2>1, <2>2, AsideFair
  <1>13. Fair(Now, Now, i)
    BY <1>2, DownSame, DownFair
  <1>14. CASE Becomes(power_down(Now, i, "ABSENT", b))
    BY <1>2, <1>14, PowerDownShares
  <1>15. CASE \E w : Fair(Now, w, i) /\ Becomes(w)
    BY <1>15 DEF Shares
  <1> QED
    BY <1>1, <1>9, <1>10, <1>11, <1>12, <1>13, <1>14, <1>15, Zenon DEF a, s, r, h, g
\* A world in which only port i differs is put in place.
Apart(w, i) == Aside(Now, w, i) /\ Becomes(w)

LEMMA PowerDownApart ==
    ASSUME Now \in World, NEW i \in Ports, NEW b \in BusOutcomes,
           Becomes(power_down(Now, i, "ABSENT", b))
    PROVE  \E w : Apart(w, i)
  BY StateNames, power_downAside DEF Apart

LEMMA TickAbsentApart ==
    ASSUME Now \in World, NEW i \in Ports, NEW on, TickAbsent(i, on)
    PROVE  \E w : Apart(w, i)
  <1> DEFINE e == enter(Now, i, "DISABLED")
             p == start_probe(Now, i)
  <1>1. Aside(Now, Now, i) /\ Aside(Now, e, i) /\ Aside(Now, p, i)
    BY StateNames, AsideSame, enterAside, start_probeAside
  <1>2. Becomes(Now) \/ Becomes(e) \/ Becomes(p)
    BY DEF TickAbsent
  <1> HIDE DEF e, p
  <1> QED
    BY <1>1, <1>2 DEF Apart

LEMMA ProbingAside ==
    ASSUME Now \in World, NEW i \in Ports
    PROVE  Aside(Now, Probing(i), i)
  <1> DEFINE t == [Now EXCEPT !.ctx[i].grace = FALSE, !.ctx[i].switching = TRUE]
  <1>1. Probing(i) \in World
    BY ProbingType
  <1>2. \A j \in Ports \ {i} : t.ctx[j] = Now.ctx[j] /\ t.res[j] = Now.res[j]
    BY DEF World
  <1>3. Probing(i) \in {Now, t}
    BY DEF Probing
  <1> HIDE DEF t
  <1> QED
    BY <1>1, <1>2, <1>3 DEF Aside

LEMMA GenAside ==
    ASSUME NEW s \in World, NEW i \in Ports, NEW g \in Generations
    PROVE  Aside(s, [s EXCEPT !.ctx[i].gen = g], i)
  <1> DEFINE t == [s EXCEPT !.ctx[i].gen = g]
  <1>1. t \in World
    BY GenUpdate
  <1>2. \A j \in Ports \ {i} : t.ctx[j] = s.ctx[j] /\ t.res[j] = s.res[j]
    BY DEF World
  <1> HIDE DEF t
  <1>3. Aside(s, t, i)
    BY <1>1, <1>2 DEF Aside
  <1> QED
    BY <1>3 DEF t

LEMMA IdentifiedAside ==
    ASSUME NEW s \in World, NEW i \in Ports, NEW g \in Generations, NEW id \in Identity
    PROVE  Aside(s, Identified(s, i, g, id), i)
  <1>1. Identified(s, i, g, id) \in World
    BY IdentifiedType
  <1>2. \A j \in Ports \ {i} : /\ Identified(s, i, g, id).ctx[j] = s.ctx[j]
                               /\ Identified(s, i, g, id).res[j] = s.res[j]
    BY DEF Identified, World
  <1> QED
    BY <1>1, <1>2 DEF Aside

LEMMA ConfiguredAside ==
    ASSUME SettingsOK, NEW s \in World, NEW i \in Ports
    PROVE  Aside(s, Configured(s, i), i)
  <1> DEFINE m == limit_for(i)
             o == [w |-> m, v |-> port_max_w[i]]
             t == [s EXCEPT !.ctx[i].granted = m, !.res[i] = BASE_RESERVE, !.offer[i] = o]
             p == [s.ctx[i] EXCEPT !.granted = m]
  <1>1. s.ctx[i] \in PortCtx /\ m \in Nat /\ o \in [w : Nat, v : Nat]
    BY PartsType, LimitType, OfferType
  <1>2. Configured(s, i) = go_idle(t, i)
    BY DEF Configured
  <1> HIDE DEF m, o
  <1>3. p \in PortCtx
    BY <1>1 DEF PortCtx
  <1>4. t = [s EXCEPT !.ctx[i] = p, !.res[i] = BASE_RESERVE, !.offer[i] = o]
    BY DEF World
  <1> HIDE DEF p, t
  <1>5. t \in World
    BY <1>1, <1>3, <1>4, ServedUpdate
  <1>6. \A j \in Ports \ {i} : t.ctx[j] = s.ctx[j] /\ t.res[j] = s.res[j]
    BY <1>4 DEF World
  <1>7. Aside(s, t, i)
    BY <1>5, <1>6 DEF Aside
  <1>8. Aside(t, enter(t, i, "IDLE"), i)
    BY <1>5, StateNames, enterAside
  <1> QED
    BY <1>2, <1>7, <1>8, AsideTrans DEF go_idle

LEMMA AdoptedAside ==
    ASSUME SettingsOK, NEW s \in World, NEW i \in Ports
    PROVE  Aside(s, Adopted(s, i), i)
  <1> DEFINE max == limit_for(i)
             keep == /\ s.ctx[i].gen = "GEN_3" /\ s.sink[i] # 0 /\ s.offer[i].w # 0
                     /\ s.offer[i].v = port_max_w[i] /\ s.offer[i].w <= max
             w == IF keep THEN s.offer[i].w ELSE max
             h == Heard(s, i).ctx[i]
             n == s.ctx[i].polls
             p == [h EXCEPT !.polls = n, !.warm = FALSE, !.granted = w]
             o == [w |-> w, v |-> port_max_w[i]]
             t == [s EXCEPT !.ctx[i] = p, !.res[i] = BASE_RESERVE, !.offer[i] = o]
             k == attach_begin(t, i)
             m == offer_w(i, max)
             d == [k EXCEPT !.ctx[i].denied = m]
  <1>1. Adopted(s, i) \in {enter(d, i, "THROTTLED"), enter(t, i, "IDLE")}
    BY DEF Adopted, go_idle
  <1>2. w \in Nat /\ m \in Nat
    <2>1. s.offer[i].w \in Nat
      BY PartsType
    <2> QED
      BY <2>1, LimitType
  <1> HIDE DEF w, m
  <1>3. o \in [w : Nat, v : Nat]
    BY <1>2, LimitType, OfferType
  <1> HIDE DEF o
  <1>4. h \in PortCtx /\ n \in Nat
    BY HeardType, PartsType, CtxParts
  <1> HIDE DEF h, n
  <1>5. p \in PortCtx
    BY <1>2, <1>4, AdoptedCtx
  <1> HIDE DEF p
  <1>6. t \in World
    BY <1>3, <1>5, ServedUpdate
  <1>7. \A j \in Ports \ {i} : t.ctx[j] = s.ctx[j] /\ t.res[j] = s.res[j]
    BY DEF World
  <1> HIDE DEF t
  <1>8. Aside(s, t, i) /\ Aside(t, k, i) /\ k \in World
    BY <1>6, <1>7, attach_beginAside DEF Aside
  <1> HIDE DEF k
  <1>9. d \in World
    BY <1>2, <1>8, DeniedUpdate
  <1>10. \A j \in Ports \ {i} : d.ctx[j] = k.ctx[j] /\ d.res[j] = k.res[j]
    BY <1>8 DEF World
  <1> HIDE DEF d
  <1>11. Aside(s, d, i)
    BY <1>8, <1>9, <1>10, AsideTrans DEF Aside
  <1>12. Aside(d, enter(d, i, "THROTTLED"), i) /\ Aside(t, enter(t, i, "IDLE"), i)
    BY <1>6, <1>9, StateNames, enterAside
  <1> QED
    BY <1>1, <1>8, <1>11, <1>12, AsideTrans

LEMMA probe_failedAside ==
    ASSUME NEW s \in World, NEW i \in Ports, NEW late \in BOOLEAN, NEW b \in BusOutcomes
    PROVE  Aside(s, probe_failed(s, i, late, b), i)
  <1> DEFINE p == [s.ctx[i] EXCEPT !.switching = FALSE, !.attempts = @ + 1]
             q == [p EXCEPT !.warm = FALSE]
             t == [s EXCEPT !.ctx[i] = p]
             u == [s EXCEPT !.ctx[i] = q]
  <1>1. s.ctx[i] \in PortCtx
    BY PartsType
  <1>2. p \in PortCtx
    BY <1>1, ProbeCtx
  <1>3. probe_failed(s, i, late, b) \in {s, t, fault(u, i, b)}
    BY DEF probe_failed
  <1> HIDE DEF p
  <1>4. q \in PortCtx
    BY <1>2, FlagCtx
  <1> HIDE DEF q
  <1>5. Aside(s, t, i) /\ Aside(s, u, i)
    BY <1>2, <1>4, CtxAside
  <1> HIDE DEF t, u
  <1>6. Aside(u, fault(u, i, b), i)
    BY <1>5, faultAside DEF Aside
  <1> QED
    BY <1>3, <1>5, <1>6, AsideSame, AsideTrans

LEMMA warm_probe_failedAside ==
    ASSUME NEW s \in World, NEW i \in Ports, NEW late \in BOOLEAN
    PROVE  Aside(s, warm_probe_failed(s, i, late), i)
  <1> DEFINE p == [s.ctx[i] EXCEPT !.switching = FALSE, !.attempts = @ + 1]
             q == [p EXCEPT !.silent = TRUE]
             t == [s EXCEPT !.ctx[i] = p]
             u == [s EXCEPT !.ctx[i].switching = FALSE]
             v == [s EXCEPT !.ctx[i] = q, !.res[i] = BASE_RESERVE]
  <1>1. warm_probe_failed(s, i, late) \in {s, t, u, v}
    BY DEF warm_probe_failed
  <1>2. p \in PortCtx /\ BASE_RESERVE \in Nat
    BY PartsType, ProbeCtx, NatParameters
  <1> HIDE DEF p
  <1>3. q \in PortCtx
    BY <1>2, FlagCtx
  <1> HIDE DEF q
  <1>4. Aside(s, t, i) /\ Aside(s, u, i)
    BY <1>2, CtxAside, FlagAside
  <1>5. Aside(s, v, i)
    BY <1>2, <1>3, CtxResAside
  <1> HIDE DEF t, u, v
  <1> QED
    BY <1>1, <1>4, <1>5, AsideSame

LEMMA ColdAnswerApart ==
    ASSUME SettingsOK, Now \in World, NEW i \in Ports, NEW s, Aside(Now, s, i),
           NEW late \in BOOLEAN, NEW b \in BusOutcomes, ColdAnswer(s, i, late, b)
    PROVE  \E w : Apart(w, i)
  <1>1. PICK g \in Answering(s, i),
             id \in ReadIds(IF "GEN_3" \in Found THEN "GEN_3" ELSE "NONE") :
           LET k == Identified(s, i, g, id)
               l == send_to_loader(k, i, b)
           IN  \/ Becomes(begin_update([s EXCEPT !.ctx[i].gen = g], i, b))
               \/ Becomes(l)
               \/ Becomes(Configured(l, i))
               \/ Becomes(probe_failed(l, i, late, b))
    BY DEF ColdAnswer
  <1> DEFINE k == Identified(s, i, g, id)
             l == send_to_loader(k, i, b)
             m == [s EXCEPT !.ctx[i].gen = g]
             u == begin_update(m, i, b)
             c == Configured(l, i)
             f == probe_failed(l, i, late, b)
  <1>2. s \in World
    BY DEF Aside
  <1>3. g \in Generations /\ id \in Identity
    BY <1>2, AnsweringType, ReadIdsType
  <1>4. Aside(s, k, i) /\ Aside(s, m, i)
    BY <1>2, <1>3, IdentifiedAside, GenAside
  <1> HIDE DEF k, m
  <1>5. Aside(k, l, i) /\ Aside(m, u, i)
    BY <1>4, send_to_loaderAside, begin_updateAside DEF Aside
  <1> HIDE DEF l, u
  <1>6. Aside(l, c, i) /\ Aside(l, f, i)
    BY <1>5, ConfiguredAside, probe_failedAside DEF Aside
  <1>7. Aside(Now, l, i) /\ Aside(Now, u, i)
    BY <1>4, <1>5, AsideTrans
  <1>8. Becomes(u) \/ Becomes(l) \/ Becomes(c) \/ Becomes(f)
    BY <1>1, Zenon DEF k, l, m, u
  <1> HIDE DEF c, f
  <1> QED
    BY <1>6, <1>7, <1>8, AsideTrans DEF Apart

LEMMA ColdProbeApart ==
    ASSUME SettingsOK, Now \in World, NEW i \in Ports, NEW c \in Chance, ColdProbe(i, c)
    PROVE  \E w : Apart(w, i)
  <1>1. PICK b \in BusOutcomes :
           LET s == Probing(i) IN
           \/ Becomes(probe_failed(s, i, c.late, b))
           \/ Becomes([s EXCEPT !.en[i] = TRUE, !.ctx[i].en_on = TRUE])
           \/ Becomes(s)
           \/ ColdAnswer(Select(s, i, b), i, c.late, b)
    BY DEF ColdProbe
  <1> DEFINE s == Probing(i)
             a == Select(s, i, b)
             f == probe_failed(s, i, c.late, b)
             e == [s EXCEPT !.en[i] = TRUE, !.ctx[i].en_on = TRUE]
  <1>2. Aside(Now, s, i) /\ s \in World /\ c.late \in BOOLEAN
    BY ProbingAside DEF Aside, Chance
  <1> HIDE DEF s
  <1>3. Aside(Now, a, i) /\ Aside(Now, f, i)
    BY <1>2, SelectAside, probe_failedAside, AsideTrans
  <1>4. Aside(Now, e, i)
    <2>1. e \in World
      BY <1>2, EnOnUpdate
    <2>2. \A j \in Ports \ {i} : e.ctx[j] = s.ctx[j] /\ e.res[j] = s.res[j]
      BY <1>2 DEF World
    <2> HIDE DEF e
    <2>3. Aside(s, e, i)
      BY <2>1, <2>2 DEF Aside
    <2> QED
      BY <1>2, <2>3, AsideTrans
  <1>5. Becomes(f) \/ Becomes(e) \/ Becomes(s) \/ ColdAnswer(a, i, c.late, b)
    BY <1>1, Zenon DEF s
  <1> HIDE DEF a, f, e
  <1>6. CASE ColdAnswer(a, i, c.late, b)
    BY <1>2, <1>3, <1>6, ColdAnswerApart
  <1>7. CASE Becomes(f) \/ Becomes(e) \/ Becomes(s)
    BY <1>2, <1>3, <1>4, <1>7 DEF Apart
  <1> QED
    BY <1>5, <1>6, <1>7

LEMMA WarmAnswerApart ==
    ASSUME SettingsOK, Now \in World, NEW i \in Ports, NEW s, Aside(Now, s, i),
           NEW late \in BOOLEAN, NEW b \in BusOutcomes, WarmAnswer(s, i, late, b)
    PROVE  \E w : Apart(w, i)
  <1>1. PICK g \in IF s.ctx[i].gen = "NONE" \/ s.ctx[i].silent
                   THEN Answering(s, i) ELSE {s.ctx[i].gen} :
        \E id \in ReadIds(g) :
          LET k == IF g = "GEN_3" THEN Identified(s, i, g, id) ELSE [s EXCEPT !.ctx[i].gen = g] IN
          \/ Becomes(begin_update(k, i, b))
          \/ Becomes(Adopted(k, i))
          \/ Becomes(fault([k EXCEPT !.ctx[i].warm = FALSE], i, b))
          \/ Becomes(warm_probe_failed(k, i, late))
    BY ZenonT(40) DEF WarmAnswer
  <1>2. PICK id \in ReadIds(g) :
          LET k == IF g = "GEN_3" THEN Identified(s, i, g, id) ELSE [s EXCEPT !.ctx[i].gen = g] IN
          \/ Becomes(begin_update(k, i, b))
          \/ Becomes(Adopted(k, i))
          \/ Becomes(fault([k EXCEPT !.ctx[i].warm = FALSE], i, b))
          \/ Becomes(warm_probe_failed(k, i, late))
    BY <1>1
  <1> DEFINE k == IF g = "GEN_3" THEN Identified(s, i, g, id) ELSE [s EXCEPT !.ctx[i].gen = g]
             u == begin_update(k, i, b)
             a == Adopted(k, i)
             n == [k EXCEPT !.ctx[i].warm = FALSE]
             f == fault(n, i, b)
             p == warm_probe_failed(k, i, late)
  <1>3. s \in World
    BY DEF Aside
  <1>4. g \in Generations /\ id \in Identity
    BY <1>3, AnsweringType, ReadIdsType, PartsType, CtxParts
  <1>5. Aside(s, k, i)
    BY <1>3, <1>4, IdentifiedAside, GenAside
  <1> HIDE DEF k
  <1>6. Aside(k, u, i) /\ Aside(k, a, i) /\ Aside(k, n, i) /\ Aside(k, p, i)
    <2>1. k \in World
      BY <1>5 DEF Aside
    <2> QED
      BY <2>1, begin_updateAside, AdoptedAside, FlagAside, warm_probe_failedAside
  <1> HIDE DEF n
  <1>7. Aside(n, f, i)
    BY <1>6, faultAside DEF Aside
  <1>8. Becomes(u) \/ Becomes(a) \/ Becomes(f) \/ Becomes(p)
    BY <1>2, Zenon DEF k, n
  <1> HIDE DEF u, a, f, p
  <1>9. Aside(Now, k, i)
    BY <1>5, AsideTrans
  <1> QED
    BY <1>6, <1>7, <1>8, <1>9, AsideTrans DEF Apart

LEMMA WarmProbeApart ==
    ASSUME SettingsOK, Now \in World, NEW i \in Ports, NEW c \in Chance, WarmProbe(i, c)
    PROVE  \E w : Apart(w, i)
  <1>1. PICK b \in BusOutcomes :
           LET s == Probing(i) IN
           \/ Becomes(s)
           \/ Becomes(warm_probe_failed(s, i, c.late))
           \/ WarmAnswer(Select(s, i, b), i, c.late, b)
    BY DEF WarmProbe
  <1> DEFINE s == Probing(i)
             a == Select(s, i, b)
             f == warm_probe_failed(s, i, c.late)
  <1>2. Aside(Now, s, i) /\ s \in World /\ c.late \in BOOLEAN
    BY ProbingAside DEF Aside, Chance
  <1> HIDE DEF s
  <1>3. Aside(Now, a, i) /\ Aside(Now, f, i)
    BY <1>2, SelectAside, warm_probe_failedAside, AsideTrans
  <1>4. Becomes(s) \/ Becomes(f) \/ WarmAnswer(a, i, c.late, b)
    BY <1>1, Zenon DEF s
  <1> HIDE DEF a, f
  <1>5. CASE WarmAnswer(a, i, c.late, b)
    BY <1>2, <1>3, <1>5, WarmAnswerApart
  <1>6. CASE Becomes(s) \/ Becomes(f)
    BY <1>2, <1>3, <1>6 DEF Apart
  <1> QED
    BY <1>4, <1>5, <1>6

LEMMA TickProbeApart ==
    ASSUME SettingsOK, Now \in World, NEW i \in Ports, NEW on, NEW c \in Chance,
           TickProbe(i, on, c)
    PROVE  \E w : Apart(w, i)
  <1>1. CASE ColdProbe(i, c)
    BY <1>1, ColdProbeApart
  <1>2. CASE WarmProbe(i, c)
    BY <1>2, WarmProbeApart
  <1>3. CASE \E b \in BusOutcomes : Becomes(power_down(Now, i, "ABSENT", b))
    BY <1>3, PowerDownApart
  <1> QED
    BY <1>1, <1>2, <1>3 DEF TickProbe

LEMMA TickFaultApart ==
    ASSUME Now \in World, NEW i \in Ports, NEW on, NEW c \in Chance, TickFault(i, on, c)
    PROVE  \E w : Apart(w, i)
  <1>1. PICK b \in BusOutcomes :
           LET s == IF ctx[i].gen = "GEN_3" THEN Select(Now, i, b) ELSE Now IN
           \/ Becomes(power_down(Now, i, "ABSENT", b))
           \/ Becomes(s)
           \/ Becomes([s EXCEPT !.ctx[i].cooling = TRUE])
           \/ Becomes(start_probe([s EXCEPT !.ctx[i].cooling = FALSE], i))
    BY DEF TickFault
  <1> DEFINE s == IF ctx[i].gen = "GEN_3" THEN Select(Now, i, b) ELSE Now
             hot == [s EXCEPT !.ctx[i].cooling = TRUE]
             cool == [s EXCEPT !.ctx[i].cooling = FALSE]
             p == start_probe(cool, i)
  <1>2. Aside(Now, s, i) /\ s \in World
    BY SelectAside, AsideSame DEF Aside
  <1> HIDE DEF s
  <1>3. Aside(s, hot, i) /\ Aside(s, cool, i)
    BY <1>2, FlagAside
  <1> HIDE DEF hot, cool
  <1>4. Aside(cool, p, i)
    BY <1>3, start_probeAside DEF Aside
  <1> HIDE DEF p
  <1>5. Aside(Now, hot, i) /\ Aside(Now, p, i)
    BY <1>2, <1>3, <1>4, AsideTrans
  <1>6. \/ Becomes(power_down(Now, i, "ABSENT", b))
        \/ Becomes(s) \/ Becomes(hot) \/ Becomes(p)
    BY <1>1, Zenon DEF s, hot, cool, p
  <1>7. CASE Becomes(power_down(Now, i, "ABSENT", b))
    BY <1>7, PowerDownApart
  <1>8. CASE Becomes(s) \/ Becomes(hot) \/ Becomes(p)
    BY <1>2, <1>5, <1>8 DEF Apart
  <1> QED
    BY <1>6, <1>7, <1>8

LEMMA TickUpdateApart ==
    ASSUME Now \in World, NEW i \in Ports, NEW on, NEW c \in Chance, TickUpdate(i, on, c)
    PROVE  \E w : Apart(w, i)
  <1>1. PICK b \in BusOutcomes :
           LET s == [Select(Now, i, b) EXCEPT !.loader = i] IN
           \/ Becomes(power_down(Now, i, "ABSENT", b))
           \/ Becomes(Now)
           \/ Becomes(s)
           \/ Becomes([start_probe(s, i) EXCEPT !.ctx[i].grace = TRUE])
           \/ Becomes(fault(s, i, b))
    BY DEF TickUpdate
  <1> DEFINE a == Select(Now, i, b)
             s == [a EXCEPT !.loader = i]
             p == start_probe(s, i)
             q == [p EXCEPT !.ctx[i].grace = TRUE]
             f == fault(s, i, b)
  <1>2. Aside(Now, a, i) /\ a \in World
    BY SelectAside DEF Aside
  <1> HIDE DEF a
  <1>3. Aside(a, s, i)
    <2>1. s \in World
      BY <1>2, LoaderUpdate
    <2>2. s.ctx = a.ctx /\ s.res = a.res
      BY <1>2 DEF World
    <2> QED
      BY <1>2, <2>1, <2>2, BooksAside
  <1> HIDE DEF s
  <1>4. Aside(s, p, i) /\ Aside(s, f, i)
    BY <1>3, start_probeAside, faultAside DEF Aside
  <1> HIDE DEF p, f
  <1>5. Aside(p, q, i)
    <2>1. p \in World
      BY <1>4 DEF Aside
    <2> QED
      BY <2>1, FlagAside
  <1> HIDE DEF q
  <1>6. Aside(Now, s, i) /\ Aside(Now, q, i) /\ Aside(Now, f, i) /\ Aside(Now, Now, i)
    BY <1>2, <1>3, <1>4, <1>5, AsideTrans, AsideSame
  <1>7. \/ Becomes(power_down(Now, i, "ABSENT", b))
        \/ Becomes(Now) \/ Becomes(s) \/ Becomes(q) \/ Becomes(f)
    BY <1>1, Zenon DEF a, s, p, q, f
  <1>8. CASE Becomes(power_down(Now, i, "ABSENT", b))
    BY <1>8, PowerDownApart
  <1>9. CASE Becomes(Now) \/ Becomes(s) \/ Becomes(q) \/ Becomes(f)
    BY <1>6, <1>9 DEF Apart
  <1> QED
    BY <1>7, <1>8, <1>9

LEMMA TickDisabledApart ==
    ASSUME Now \in World, NEW i \in Ports, NEW on, TickDisabled(i, on)
    PROVE  \E w : Apart(w, i)
  <1>1. PICK b \in BusOutcomes :
           LET s == IF ctx[i].gen = "GEN_3" THEN Select(Now, i, b) ELSE Now IN
           \/ Becomes(power_down(Now, i, "ABSENT", b))
           \/ Becomes(start_probe(Now, i))
           \/ Becomes(s)
    BY DEF TickDisabled
  <1> DEFINE s == IF ctx[i].gen = "GEN_3" THEN Select(Now, i, b) ELSE Now
             p == start_probe(Now, i)
  <1>2. Aside(Now, s, i) /\ Aside(Now, p, i)
    BY SelectAside, AsideSame, start_probeAside
  <1>3. Becomes(power_down(Now, i, "ABSENT", b)) \/ Becomes(p) \/ Becomes(s)
    BY <1>1
  <1> HIDE DEF s, p
  <1>4. CASE Becomes(power_down(Now, i, "ABSENT", b))
    BY <1>4, PowerDownApart
  <1>5. CASE Becomes(p) \/ Becomes(s)
    BY <1>2, <1>5 DEF Apart
  <1> QED
    BY <1>3, <1>4, <1>5

LEMMA TickShares ==
    ASSUME SettingsOK, Well(Now), NEW i \in Ports, NEW on, NEW c \in Chance,
           port_fsm_tick(i, on, c)
    PROVE  \E w : Shares(w, i)
  <1>1. Now \in World /\ Now.ctx[i].state = ctx[i].state
    BY DEF Well, Now
  <1>2. CASE TickPowered(i, on, c)
    BY <1>2, TickPoweredShares
  <1>3. ASSUME \E w : Apart(w, i), ctx[i].state # "THROTTLED"
        PROVE  \E w : Shares(w, i)
    BY <1>1, <1>3, AsideFair DEF Apart, Shares
  <1>4. CASE TickAbsent(i, on)
    BY <1>1, <1>3, <1>4, TickAbsentApart DEF TickAbsent
  <1>5. CASE TickProbe(i, on, c)
    BY <1>1, <1>3, <1>5, TickProbeApart DEF TickProbe
  <1>6. CASE TickFault(i, on, c)
    BY <1>1, <1>3, <1>6, TickFaultApart DEF TickFault
  <1>7. CASE TickUpdate(i, on, c)
    BY <1>1, <1>3, <1>7, TickUpdateApart DEF TickUpdate
  <1>8. CASE TickDisabled(i, on)
    BY <1>1, <1>3, <1>8, TickDisabledApart DEF TickDisabled
  <1> QED
    BY <1>2, <1>4, <1>5, <1>6, <1>7, <1>8 DEF port_fsm_tick

------------------------------------------------------------------------------
(* What a step may do to the priorities *)

\* A step taken while a port's tick is due, but for a restart, is that tick or
\* leaves the books as they are.
LEMMA StepShares ==
    ASSUME TypeOK, Order, [Next]_vars, turn \in Ports, boots' = boots
    PROVE  \/ \E w : Shares(w, turn)
           \/ UNCHANGED <<ctx, reserved>>
  <1>1. SettingsOK /\ Well(Now)
    BY SettingsType DEF Order
  <1>2. CASE Tick
    <2>1. PICK c \in Chances(ctx[turn]) : TickWith(c)
      BY <1>2 DEF Tick
    <2>2. c \in Chance
      BY <2>1, ChancesType
    <2> QED
      BY <1>1, <2>1, <2>2, TickShares DEF TickWith
  <1>3. turn # Top
    BY PortsAssumption DEF Ports, Top
  <1>4. CASE Engine
    <2>1. CASE Reboot
      <3>1. boots \in Nat /\ boots' = boots + 1
        BY <2>1 DEF Reboot, TypeOK
      <3> QED
        BY <3>1
    <2> QED
      BY <1>3, <1>4, <2>1
         DEF Engine, Dispatch, SetCeiling, SetBudget, Committed, AlertSweep, RefreshPresence,
             StartTicks, HourPasses, AtTop
  <1>5. CASE \E i \in Ports : Surroundings(i)
    BY <1>5 DEF Surroundings, StoreLimit, StoreVolt, Seat, Unseat, Ask, Unplug, Restart, Outside
  <1>6. CASE UNCHANGED vars
    BY <1>6 DEF vars, fsm_vars
  <1> QED
    BY <1>2, <1>4, <1>5, <1>6 DEF Next, Others

\* In another port's tick a port loses watts only to a strictly higher priority,
\* keeps its base, and remembers what to ask back: whatever contracts, sheds,
\* silences and lost selections came before, a shed port had its contract.
THEOREM ShedsGoDown == Spec => ShedsDownPriority
  <1>1. TypeOK /\ TypeOK' /\ Order /\ [Next]_vars
          => \A i \in Ports :
               reserved'[i] < reserved[i] /\ turn \in Ports \ {i} /\ boots' = boots =>
                  /\ Prio[turn] < Prio[i]
                  /\ reserved'[i] >= BASE_RESERVE
                  /\ ctx'[i].state = "THROTTLED" /\ ctx'[i].denied > reserved'[i]
    <2> SUFFICES ASSUME TypeOK, TypeOK', Order, [Next]_vars, NEW i \in Ports,
                        reserved'[i] < reserved[i], turn \in Ports \ {i}, boots' = boots
                 PROVE  Yielded(ctx'[i], reserved'[i], turn, i)
      BY DEF Yielded
    <2>1. reserved'[i] \in Nat /\ reserved[i] \in Nat
      BY PartsType DEF TypeOK, Now, World
    <2>2. reserved'[i] # reserved[i]
      BY <2>1
    <2>3. PICK w : Shares(w, turn)
      BY <2>2, StepShares
    <2>4. /\ ctx' = w.ctx /\ reserved' = w.res
          /\ \/ w.ctx[i] = Now.ctx[i] /\ w.res[i] = Now.res[i]
             \/ Yielded(w.ctx[i], w.res[i], turn, i)
      BY <2>3 DEF Shares, Becomes, Fair, Yields
    <2>5. Now.res[i] = reserved[i]
      BY DEF Now
    <2> QED
      BY <2>2, <2>4, <2>5
  <1>2. Spec => []TypeOK /\ []Order
    BY TypeCorrect, AlwaysInOrder, PTL
  <1> QED
    BY <1>1, <1>2, PTL DEF Spec, ShedsDownPriority

\* Watts freed flow back top down: while a throttled port of strictly higher
\* priority still wants some, no tick of a throttled port raises its limit above
\* the base beyond what its own device was last heard to ask.
THEOREM RestoresGoTopDown == Spec => RestoresTopDown
  <1>1. TypeOK /\ TypeOK' /\ Order /\ Order' /\ [Next]_vars
          => \A i, j \in Ports : JumpsQueue(i, j) /\ ctx'[i].granted > BASE_RESERVE
                                   => ctx'[i].st.contract > ctx[i].granted
    <2> SUFFICES ASSUME TypeOK, TypeOK', Order, Order', [Next]_vars,
                        NEW i \in Ports, NEW j \in Ports, JumpsQueue(i, j),
                        ctx'[i].granted > BASE_RESERVE
                 PROVE  ctx'[i].st.contract > ctx[i].granted
      OBVIOUS
    <2>1. /\ turn = i /\ turn' # i /\ Prio[j] < Prio[i]
          /\ ctx[i].state = "THROTTLED" /\ ctx'[i].state \in {"ACTIVE", "THROTTLED"}
          /\ ctx'[i].granted > ctx[i].granted
          /\ ctx[j].state = "THROTTLED" /\ ctx[j].denied > reserved[j]
      BY DEF JumpsQueue
    <2>2. Now \in World /\ Now' \in World /\ Now.ctx = ctx /\ Now'.ctx = ctx' /\ Now.res = reserved
      BY DEF TypeOK, Now
    <2>3. /\ ctx[i] \in PortCtx /\ ctx'[i] \in PortCtx
          /\ ctx[i].granted \in Nat /\ ctx'[i].granted \in Nat
          /\ ctx'[i].st.contract \in Nat
      BY <2>2, PartsType, CtxParts
    <2>4. boots' = boots
      <3>1. boots' # boots => Reboot
        BY DEF Next, Tick, TickWith, Others, Engine, Dispatch, SetCeiling, SetBudget, Committed,
               AlertSweep, RefreshPresence, StartTicks, HourPasses, AtTop, engine_vars,
               Surroundings, StoreLimit, StoreVolt, Seat, Unseat, Ask, Unplug, Restart, Outside,
               vars
      <3>2. Holding(ctx'[i], reserved'[i])
        BY DEF Order, Well, Now
      <3>3. reserved'[i] # 0
        BY <2>1, <3>2, BaseAssumption DEF Holding, Powered
      <3>4. Reboot => reserved'[i] = 0
        BY DEF Reboot
      <3> QED
        BY <3>1, <3>3, <3>4
    <2>5. ctx' # ctx
      BY <2>1, <2>3
    <2>6. PICK w : Shares(w, i)
      BY <2>1, <2>4, <2>5, StepShares
    <2>7. ctx' = w.ctx /\ Bounded(Now, w, i)
      BY <2>6 DEF Shares, Becomes, Fair
    <2>8. Waits(Now, j, i)
      <3>1. j # i
        BY <2>1, FsmAssumption
      <3> QED
        BY <2>1, <2>2, <3>1 DEF Waits
    <2>9. Capped(ctx'[i], ctx[i].granted)
      BY <2>1, <2>2, <2>7, <2>8 DEF Bounded
    <2>10. ctx'[i].st.contract >= ctx'[i].granted
      BY <2>1, <2>9 DEF Capped
    <2> QED
      BY <2>1, <2>3, <2>10
  <1>2. Spec => []TypeOK /\ []Order
    BY TypeCorrect, AlwaysInOrder, PTL
  <1> QED
    BY <1>1, <1>2, PTL DEF Spec, RestoresTopDown

=============================================================================
