---------------------------- MODULE Chassis_proofs ----------------------------
(***************************************************************************)
(* Proofs about Chassis.  Every handler of the port state machine takes a   *)
(* world to a world; a lemma per helper says so, and the theorems follow   *)
(* action by action.                                                       *)
(***************************************************************************)
EXTENDS Chassis, FiniteSetTheorems, TLAPS

\* What core 0 has told the engine is of the right type.
SettingsOK ==
    /\ total \in Nat /\ ceiling_w \in Nat /\ hold_updates \in BOOLEAN
    /\ port_limit_w \in [Ports -> Nat] /\ port_max_w \in [Ports -> Nat]

------------------------------------------------------------------------------
(* Parts of a world *)

LEMMA PartsType ==
    ASSUME NEW s \in World, NEW i \in Ports
    PROVE  /\ s.ctx[i] \in PortCtx /\ s.res[i] \in Nat /\ s.sink[i] \in Nat
           /\ s.offer[i] \in [w : Nat, v : Nat] /\ s.en[i] \in BOOLEAN
           /\ s.mux \in Ports \cup {None} /\ s.loader \in Ports \cup {None}
BY DEF World

LEMMA CtxUpdate ==
    ASSUME NEW s \in World, NEW i \in Ports, NEW p \in PortCtx
    PROVE  [s EXCEPT !.ctx[i] = p] \in World
BY DEF World

LEMMA CtxResUpdate ==
    ASSUME NEW s \in World, NEW i \in Ports, NEW p \in PortCtx, NEW n \in Nat
    PROVE  /\ [s EXCEPT !.ctx[i] = p, !.res[i] = n] \in World
           /\ [s EXCEPT !.res[i] = n, !.ctx[i] = p] \in World
BY DEF World

LEMMA LoaderUpdate ==
    ASSUME NEW s \in World, NEW l \in Ports \cup {None}
    PROVE  [s EXCEPT !.loader = l] \in World
BY DEF World

LEMMA OfferType ==
    ASSUME NEW w \in Nat, NEW v \in Nat
    PROVE  [w |-> w, v |-> v] \in [w : Nat, v : Nat]
OBVIOUS

LEMMA OfferUpdate ==
    ASSUME NEW s \in World, NEW i \in Ports, NEW o \in [w : Nat, v : Nat]
    PROVE  [s EXCEPT !.offer[i] = o] \in World
BY DEF World

LEMMA UnreadType == UnreadId \in Identity /\ "NONE" \in Generations
BY DEF UnreadId, Identity, Generations

LEMMA StatusType ==
    ASSUME NEW a \in BOOLEAN, NEW n \in Nat
    PROVE  [attached |-> a, contract |-> n] \in [attached : BOOLEAN, contract : Nat]
OBVIOUS

LEMMA NoStatusType == NoStatus \in [attached : BOOLEAN, contract : Nat]
BY DEF NoStatus

LEMMA CtxParts ==
    ASSUME NEW p \in PortCtx
    PROVE  /\ p.contract \in Nat /\ p.denied \in Nat /\ p.granted \in Nat
           /\ p.st \in [attached : BOOLEAN, contract : Nat]
           /\ p.st.attached \in BOOLEAN /\ p.st.contract \in Nat
           /\ p.attempts \in Nat /\ p.polls \in Nat /\ p.rounds \in 0..UPDATE_ROUNDS_MAX
           /\ p.state \in States /\ p.gen \in Generations /\ p.id \in Identity
           /\ p.silent \in BOOLEAN /\ p.stuck \in BOOLEAN /\ p.renegotiating \in BOOLEAN
BY DEF PortCtx

LEMMA NatParameters ==
    /\ BASE_RESERVE \in Nat /\ 0 \in 0..UPDATE_ROUNDS_MAX /\ UPDATE_ROUNDS_MAX \in Nat
    /\ PORT_LIMIT_MIN_W \in Nat
BY BaseAssumption, FsmAssumption

------------------------------------------------------------------------------
(* Limits *)

LEMMA LimitType ==
    ASSUME SettingsOK, NEW i \in Ports
    PROVE  limit_for(i) \in Nat /\ port_max_w[i] \in Nat /\ offer_w(i, limit_for(i)) \in Nat
BY DEF SettingsOK, limit_for, offer_w, Least

LEMMA SelectType ==
    ASSUME NEW s \in World, NEW i \in Ports, NEW b \in BusOutcomes
    PROVE  Select(s, i, b) \in World
BY DEF Select, World

LEMMA WriteLimitsType ==
    ASSUME NEW s \in World, NEW i \in Ports, NEW w \in Nat, NEW v \in Nat,
           NEW b \in BusOutcomes
    PROVE  /\ WriteLimits(s, i, w, v, b) \in World
           /\ WriteLimits(s, i, w, v, b).ctx = s.ctx
           /\ WriteLimits(s, i, w, v, b).res = s.res
<1>1. s.mux # None => s.mux \in Ports
  BY DEF World
<1>2. QED
  BY <1>1, OfferType, OfferUpdate DEF WriteLimits, World

LEMMA RenegotiateType ==
    ASSUME NEW p \in PortCtx, NEW r \in BOOLEAN
    PROVE  Renegotiate(p, r) \in PortCtx
<1>1. [p EXCEPT !.renegotiating = TRUE, !.renego_from = p.st.contract] \in PortCtx
  BY CtxParts DEF PortCtx
<1>2. QED
  BY <1>1 DEF Renegotiate

LEMMA set_limitsType ==
    ASSUME NEW s \in World, NEW i \in Ports, NEW w \in Nat, NEW v \in Nat,
           NEW r \in BOOLEAN, NEW b \in BusOutcomes
    PROVE  set_limits(s, i, w, v, r, b) \in World
BY PartsType, WriteLimitsType, RenegotiateType, CtxUpdate DEF set_limits

LEMMA GrantedUpdate ==
    ASSUME NEW s \in World, NEW i \in Ports, NEW w \in Nat
    PROVE  [s EXCEPT !.ctx[i].granted = w] \in World
<1>1. [s.ctx[i] EXCEPT !.granted = w] \in PortCtx
  BY PartsType DEF PortCtx
<1>2. [s EXCEPT !.ctx[i].granted = w] = [s EXCEPT !.ctx[i] = [s.ctx[i] EXCEPT !.granted = w]]
  BY DEF World
<1>3. QED
  BY <1>1, <1>2, CtxUpdate

LEMMA sync_limitType ==
    ASSUME SettingsOK, NEW s \in World, NEW i \in Ports, NEW b \in BusOutcomes
    PROVE  sync_limit(s, i, b) \in World
<1>1. s.ctx[i].st.attached \in BOOLEAN
  BY PartsType, CtxParts
<1>2. set_limits(s, i, limit_for(i), port_max_w[i], s.ctx[i].st.attached, b) \in World
  BY <1>1, LimitType, set_limitsType
<1>3. QED
  BY <1>2, LimitType, GrantedUpdate DEF sync_limit

------------------------------------------------------------------------------
(* State changes *)

LEMMA enterType ==
    ASSUME NEW s \in World, NEW i \in Ports, NEW next \in States
    PROVE  enter(s, i, next) \in World
<1> DEFINE p == [s.ctx[i] EXCEPT !.state = next]
           l == IF s.loader = i /\ s.ctx[i].state # next THEN None ELSE s.loader
<1>1. p \in PortCtx
  BY PartsType DEF PortCtx
<1>2. l \in Ports \cup {None}
  BY PartsType
<1>3. enter(s, i, next) = [s EXCEPT !.ctx[i] = p, !.loader = l]
  BY DEF enter, World
<1> HIDE DEF p, l
<1>4. [s EXCEPT !.ctx[i] = p, !.loader = l] \in World
  BY <1>1, <1>2 DEF World
<1>5. QED
  BY <1>3, <1>4

LEMMA EnOffType ==
    ASSUME NEW s \in World, NEW i \in Ports, NEW b \in BusOutcomes
    PROVE  EnOff(s, i, b) \in World /\ EnOff(s, i, b).ctx = s.ctx
BY DEF World, EnOff

LEMMA BladeDownType ==
    ASSUME NEW s \in World, NEW i \in Ports
    PROVE  BladeDown(s, i) \in World /\ BladeDown(s, i).ctx = s.ctx
<1>1. NoOffer \in [w : Nat, v : Nat]
  BY DEF NoOffer
<1>2. QED
  BY <1>1 DEF World, BladeDown

LEMMA EmptyCtx ==
    ASSUME NEW p \in PortCtx, NEW z \in 0..UPDATE_ROUNDS_MAX, NEW g \in Generations,
           NEW d \in Identity, NEW t \in [attached : BOOLEAN, contract : Nat]
    PROVE  [p EXCEPT !.contract = 0, !.silent = FALSE, !.st = t,
                     !.gen = g, !.id = d, !.rounds = z,
                     !.rewrite = FALSE, !.stuck = FALSE, !.held = FALSE] \in PortCtx
BY DEF PortCtx

LEMMA UnpoweredType ==
    ASSUME NEW p \in PortCtx, NEW next \in States
    PROVE  Unpowered(p, next) \in PortCtx
<1>1. [p EXCEPT !.contract = 0, !.silent = FALSE, !.st = NoStatus] \in PortCtx
  BY NoStatusType DEF PortCtx
<1>2. QED
  BY <1>1, EmptyCtx, NoStatusType, UnreadType, NatParameters DEF Unpowered

LEMMA power_downType ==
    ASSUME NEW s \in World, NEW i \in Ports, NEW next \in States, NEW b \in BusOutcomes
    PROVE  power_down(s, i, next, b) \in World
<1> DEFINE p == Unpowered(s.ctx[i], next)
           t == [EnOff(s, i, b) EXCEPT !.res[i] = 0, !.ctx[i] = p]
<1>1. EnOff(s, i, b) \in World /\ p \in PortCtx
  BY PartsType, EnOffType, UnpoweredType
<1> HIDE DEF p
<1>2. t \in World
  BY <1>1, CtxResUpdate
<1>3. power_down(s, i, next, b) = enter(t, i, next)
  BY DEF power_down, p
<1> HIDE DEF t
<1>4. QED
  BY <1>2, <1>3, enterType

LEMMA CoolingUpdate ==
    ASSUME NEW s \in World, NEW i \in Ports, NEW c \in BOOLEAN
    PROVE  [s EXCEPT !.ctx[i].cooling = c] \in World
<1>1. [s.ctx[i] EXCEPT !.cooling = c] \in PortCtx
  BY PartsType DEF PortCtx
<1>2. [s EXCEPT !.ctx[i].cooling = c] = [s EXCEPT !.ctx[i] = [s.ctx[i] EXCEPT !.cooling = c]]
  BY DEF World
<1>3. QED
  BY <1>1, <1>2, CtxUpdate

LEMMA faultType ==
    ASSUME NEW s \in World, NEW i \in Ports, NEW b \in BusOutcomes
    PROVE  fault(s, i, b) \in World
<1>1. "FAULT" \in States
  BY DEF States
<1>2. QED
  BY <1>1, power_downType, CoolingUpdate DEF fault

LEMMA FreshType ==
    ASSUME NEW p \in PortCtx
    PROVE  Fresh(p) \in PortCtx
BY UnreadType DEF PortCtx, Fresh

LEMMA start_probeType ==
    ASSUME NEW s \in World, NEW i \in Ports
    PROVE  start_probe(s, i) \in World
<1>1. "PROBE" \in States
  BY DEF States
<1>2. QED
  BY <1>1, PartsType, FreshType, CtxUpdate, enterType DEF start_probe

LEMMA ProbeCtx ==
    ASSUME NEW p \in PortCtx
    PROVE  [p EXCEPT !.switching = FALSE, !.attempts = @ + 1] \in PortCtx
<1>1. \A n \in Nat : [p EXCEPT !.switching = FALSE, !.attempts = n] \in PortCtx
  BY DEF PortCtx
<1>2. p.attempts + 1 \in Nat
  BY CtxParts
<1>3. QED
  BY <1>1, <1>2

LEMMA FlagCtx ==
    ASSUME NEW p \in PortCtx, NEW f \in BOOLEAN
    PROVE  /\ [p EXCEPT !.warm = f] \in PortCtx
           /\ [p EXCEPT !.silent = f] \in PortCtx
           /\ [p EXCEPT !.switching = f] \in PortCtx
           /\ [p EXCEPT !.grace = f] \in PortCtx
           /\ [p EXCEPT !.admin = f] \in PortCtx
           /\ [p EXCEPT !.charged = f] \in PortCtx
           /\ [p EXCEPT !.held = f] \in PortCtx
           /\ [p EXCEPT !.en_on = f] \in PortCtx
<1>1. [p EXCEPT !.warm = f] \in PortCtx
  BY DEF PortCtx
<1>2. [p EXCEPT !.silent = f] \in PortCtx
  BY DEF PortCtx
<1>3. [p EXCEPT !.switching = f] \in PortCtx
  BY DEF PortCtx
<1>4. [p EXCEPT !.grace = f] \in PortCtx
  BY DEF PortCtx
<1>5. [p EXCEPT !.admin = f] \in PortCtx
  BY DEF PortCtx
<1>6. [p EXCEPT !.charged = f] \in PortCtx
  BY DEF PortCtx
<1>7. [p EXCEPT !.held = f] \in PortCtx
  BY DEF PortCtx
<1>8. [p EXCEPT !.en_on = f] \in PortCtx
  BY DEF PortCtx
<1>9. QED
  BY <1>1, <1>2, <1>3, <1>4, <1>5, <1>6, <1>7, <1>8

LEMMA probe_failedType ==
    ASSUME NEW s \in World, NEW i \in Ports, NEW late \in BOOLEAN, NEW b \in BusOutcomes
    PROVE  probe_failed(s, i, late, b) \in World
<1> DEFINE p == [s.ctx[i] EXCEPT !.switching = FALSE, !.attempts = @ + 1]
           q == [p EXCEPT !.warm = FALSE]
<1>1. p \in PortCtx
  BY ProbeCtx, PartsType
<1> HIDE DEF p
<1>2. q \in PortCtx
  BY FlagCtx, <1>1
<1> USE DEF p
<1>3. probe_failed(s, i, late, b) \in
        {s, [s EXCEPT !.ctx[i] = p], fault([s EXCEPT !.ctx[i] = q], i, b)}
  BY DEF probe_failed
<1> HIDE DEF p, q
<1>4. QED
  BY <1>1, <1>2, <1>3, CtxUpdate, faultType

LEMMA warm_probe_failedType ==
    ASSUME NEW s \in World, NEW i \in Ports, NEW late \in BOOLEAN
    PROVE  warm_probe_failed(s, i, late) \in World
<1> DEFINE p == [s.ctx[i] EXCEPT !.switching = FALSE, !.attempts = @ + 1]
           q == [p EXCEPT !.silent = TRUE]
           r == [s.ctx[i] EXCEPT !.switching = FALSE]
<1>1. p \in PortCtx /\ r \in PortCtx
  BY ProbeCtx, FlagCtx, PartsType
<1> HIDE DEF p
<1>2. q \in PortCtx
  BY FlagCtx, <1>1
<1> USE DEF p
<1>3. [s EXCEPT !.ctx[i].switching = FALSE] = [s EXCEPT !.ctx[i] = r]
  BY DEF World
<1>4. warm_probe_failed(s, i, late) \in
        {s, [s EXCEPT !.ctx[i] = p], [s EXCEPT !.ctx[i] = r],
         [s EXCEPT !.ctx[i] = q, !.res[i] = BASE_RESERVE]}
  BY <1>3 DEF warm_probe_failed
<1> HIDE DEF p, q, r
<1>5. QED
  <2>1. BASE_RESERVE \in Nat
    BY NatParameters
  <2>2. [s EXCEPT !.ctx[i] = q, !.res[i] = BASE_RESERVE] \in World
    BY <1>2, <2>1, CtxResUpdate
  <2>3. [s EXCEPT !.ctx[i] = p] \in World /\ [s EXCEPT !.ctx[i] = r] \in World
    BY <1>1, CtxUpdate
  <2>4. QED
    BY <1>4, <2>2, <2>3

LEMMA go_idleType ==
    ASSUME NEW s \in World, NEW i \in Ports
    PROVE  go_idle(s, i) \in World
BY enterType DEF go_idle, States, Powered

LEMMA attach_beginType ==
    ASSUME NEW s \in World, NEW i \in Ports
    PROVE  attach_begin(s, i) \in World
<1> DEFINE p == [s.ctx[i] EXCEPT !.renegotiating = FALSE, !.charged = FALSE]
<1>0. \A u \in PortCtx : [u EXCEPT !.renegotiating = FALSE, !.charged = FALSE] \in PortCtx
  BY DEF PortCtx
<1>1. p \in PortCtx
  BY <1>0, PartsType
<1>2. attach_begin(s, i) = [s EXCEPT !.ctx[i] = p]
  BY DEF attach_begin, World
<1> HIDE DEF p
<1>3. QED
  BY <1>1, <1>2, CtxUpdate

LEMMA switch_offType ==
    ASSUME NEW s \in World, NEW i \in Ports, NEW b \in BusOutcomes
    PROVE  switch_off(s, i, b) \in World
BY power_downType DEF switch_off, States

LEMMA auto_offType ==
    ASSUME NEW s \in World, NEW i \in Ports, NEW b \in BusOutcomes
    PROVE  auto_off(s, i, b) \in World
<1> DEFINE p == [s.ctx[i] EXCEPT !.admin = FALSE]
<1>1. p \in PortCtx
  BY FlagCtx, PartsType
<1>2. auto_off(s, i, b) = switch_off([s EXCEPT !.ctx[i] = p], i, b)
  BY DEF auto_off, World
<1> HIDE DEF p
<1>3. QED
  BY <1>1, <1>2, CtxUpdate, switch_offType

------------------------------------------------------------------------------
(* Bootloader trips *)

LEMMA begin_updateType ==
    ASSUME NEW s \in World, NEW i \in Ports, NEW b \in BusOutcomes
    PROVE  begin_update(s, i, b) \in World
<1> DEFINE p == [s.ctx[i] EXCEPT !.warm = FALSE, !.silent = FALSE]
           dark == BladeDown(EnOff(s, i, b), i)
           q == [p EXCEPT !.held = TRUE]
           r == [p EXCEPT !.rounds = @ + 1, !.rewrite = FALSE]
<1>0. \A u \in PortCtx : [u EXCEPT !.warm = FALSE, !.silent = FALSE] \in PortCtx
  BY DEF PortCtx
<1>1. p \in PortCtx /\ dark \in World
  BY <1>0, PartsType, EnOffType, BladeDownType
<1>2. q \in PortCtx
  BY <1>1 DEF PortCtx
<1>3. CASE p.rounds >= UPDATE_ROUNDS_MAX
  <2>1. begin_update(s, i, b) = fault([dark EXCEPT !.ctx[i] = q], i, b)
    BY <1>3 DEF begin_update
  <2> HIDE DEF p, q, dark
  <2>2. QED
    BY <1>1, <1>2, <2>1, CtxUpdate, faultType
<1>4. CASE ~(p.rounds >= UPDATE_ROUNDS_MAX)
  <2>1. begin_update(s, i, b) = enter([dark EXCEPT !.ctx[i] = r], i, "UPDATE")
    BY <1>4 DEF begin_update
  <2> HIDE DEF p, dark
  <2>2. p.rounds + 1 \in 0..UPDATE_ROUNDS_MAX
    <3>1. p.rounds \in 0..UPDATE_ROUNDS_MAX
      BY <1>1, CtxParts
    <3>2. QED
      BY <1>4, <3>1, NatParameters
  <2>3. r \in PortCtx
    BY <1>1, <2>2 DEF PortCtx
  <2>4. "UPDATE" \in States
    BY DEF States
  <2> HIDE DEF r
  <2>5. QED
    BY <1>1, <2>1, <2>3, <2>4, CtxUpdate, enterType
<1>5. QED
  BY <1>3, <1>4

LEMMA RebootsType ==
    ASSUME NEW s \in World, NEW i \in Ports
    PROVE  Reboots(s, i) \in World
<1>1. s.mux # None => s.mux \in Ports
  BY DEF World
<1>2. QED
  BY <1>1, BladeDownType DEF Reboots

LEMMA ReleasedType ==
    ASSUME NEW p \in PortCtx
    PROVE  Released(p) \in PortCtx
BY NoStatusType DEF Released, PortCtx

LEMMA SwitchingUpdate ==
    ASSUME NEW s \in World, NEW i \in Ports
    PROVE  /\ [s EXCEPT !.ctx[i].switching = TRUE] \in World
           /\ [s EXCEPT !.ctx[i].grace = TRUE] \in World
<1>1. /\ [s.ctx[i] EXCEPT !.switching = TRUE] \in PortCtx
      /\ [s.ctx[i] EXCEPT !.grace = TRUE] \in PortCtx
  BY FlagCtx, PartsType
<1>2. /\ [s EXCEPT !.ctx[i].switching = TRUE] = [s EXCEPT !.ctx[i] = [s.ctx[i] EXCEPT !.switching = TRUE]]
      /\ [s EXCEPT !.ctx[i].grace = TRUE] = [s EXCEPT !.ctx[i] = [s.ctx[i] EXCEPT !.grace = TRUE]]
  BY DEF World
<1>3. QED
  BY <1>1, <1>2, CtxUpdate

LEMMA send_to_loaderType ==
    ASSUME NEW s \in World, NEW i \in Ports, NEW b \in BusOutcomes
    PROVE  send_to_loader(s, i, b) \in World
<1> DEFINE p == s.ctx[i]
           boot_opt == "boot_opt" \in blade_wants(p)
           sent == [Released(p) EXCEPT !.rounds = IF boot_opt THEN @ + 1 ELSE @]
           gone == [Reboots(s, i) EXCEPT !.res[i] = 0, !.ctx[i] = sent]
           stuck == [p EXCEPT !.stuck = TRUE, !.rewrite = FALSE, !.rounds = 0]
<1>0. \A u \in PortCtx, z \in 0..UPDATE_ROUNDS_MAX :
        [u EXCEPT !.stuck = TRUE, !.rewrite = FALSE, !.rounds = z] \in PortCtx
  BY DEF PortCtx
<1>1. stuck \in PortCtx
  BY <1>0, PartsType, NatParameters
<1>2. [s EXCEPT !.ctx[i] = stuck] \in World
  BY <1>1, CtxUpdate
<1>3. CASE Sends(s, i, b)
  <2>1. p.rounds < UPDATE_ROUNDS_MAX /\ p \in PortCtx /\ Released(p) \in PortCtx
        /\ Released(p).rounds = p.rounds /\ p.rounds \in 0..UPDATE_ROUNDS_MAX
    <3>1. p \in PortCtx
      BY PartsType
    <3>2. Released(p).rounds = p.rounds
      BY <3>1 DEF Released, PortCtx
    <3>3. QED
      BY <1>3, <3>1, <3>2, ReleasedType, CtxParts DEF Sends
  <2>2. (IF boot_opt THEN Released(p).rounds + 1 ELSE Released(p).rounds) \in 0..UPDATE_ROUNDS_MAX
    BY <2>1, NatParameters
  <2>3. sent \in PortCtx
    BY <2>1, <2>2 DEF PortCtx
  <2>4. send_to_loader(s, i, b) = [start_probe(gone, i) EXCEPT !.ctx[i].switching = TRUE]
    <3>1. ~(p.rounds >= UPDATE_ROUNDS_MAX)
      BY <2>1, NatParameters
    <3>2. QED
      BY <1>3, <3>1 DEF send_to_loader
  <2> HIDE DEF sent
  <2>5. gone \in World
    BY <2>3, RebootsType, CtxResUpdate
  <2> HIDE DEF gone
  <2>6. QED
    <3>1. start_probe(gone, i) \in World
      BY <2>5, start_probeType
    <3>2. QED
      BY <2>4, <3>1, SwitchingUpdate
<1>4. CASE ~Sends(s, i, b)
  <2>1. send_to_loader(s, i, b) \in {s, [s EXCEPT !.ctx[i] = stuck]}
    BY <1>4 DEF send_to_loader
  <2>2. QED
    BY <1>2, <2>1
<1>5. QED
  BY <1>3, <1>4

------------------------------------------------------------------------------
(* Sharing the budget *)

LEMMA OverSlotsNat ==
    ASSUME NEW f \in [Ports -> Nat]
    PROVE  OverSlots(f) \in Nat
BY DEF OverSlots, At

LEMMA HeadroomType ==
    ASSUME SettingsOK, NEW s \in World
    PROVE  budget_headroom(s.res, total) \in Nat /\ budget_reserved(s.res) \in Nat
<1>1. s.res \in [Ports -> Nat]
  BY DEF World
<1>2. QED
  BY <1>1, OverSlotsNat DEF budget_headroom, budget_reserved, SettingsOK

LEMMA ThrottleLimitType ==
    ASSUME SettingsOK, NEW i \in Ports, NEW grant \in Nat
    PROVE  ThrottleLimit(i, grant) \in Nat
BY LimitType, NatParameters DEF ThrottleLimit, Least

LEMMA ThrottledUpdate ==
    ASSUME NEW p \in PortCtx, NEW g \in Nat, NEW c \in Nat, NEW d \in Nat, NEW x \in States
    PROVE  [p EXCEPT !.granted = g, !.contract = c, !.denied = d, !.state = x] \in PortCtx
BY DEF PortCtx

LEMMA ThrottledCtxType ==
    ASSUME SettingsOK, NEW p \in PortCtx, NEW i \in Ports, NEW grant \in Nat, NEW want \in Nat
    PROVE  ThrottledCtx(p, i, grant, want) \in PortCtx
<1> DEFINE q == Renegotiate(p, TRUE)
           d == IF want > q.denied THEN want ELSE q.denied
           g == ThrottleLimit(i, grant)
           x == "THROTTLED"
<1>1. q \in PortCtx
  BY RenegotiateType
<1>2. g \in Nat
  BY ThrottleLimitType
<1>3. ThrottledCtx(p, i, grant, want)
        = [q EXCEPT !.granted = g, !.contract = grant, !.denied = d, !.state = x]
  BY DEF ThrottledCtx
<1> HIDE DEF q, g
<1>4. d \in Nat
  BY <1>1, CtxParts
<1>5. x \in States
  BY DEF States, Powered
<1> HIDE DEF d, x
<1>6. [q EXCEPT !.granted = g, !.contract = grant, !.denied = d, !.state = x] \in PortCtx
  BY <1>1, <1>2, <1>4, <1>5, ThrottledUpdate, Zenon
<1>7. QED
  BY <1>3, <1>6

LEMMA apply_throttleType ==
    ASSUME SettingsOK, NEW s \in World, NEW i \in Ports, NEW grant \in Nat, NEW want \in Nat,
           NEW b \in BusOutcomes
    PROVE  apply_throttle(s, i, grant, want, b) \in World
<1> DEFINE g == ThrottleLimit(i, grant)
           v == port_max_w[i]
           t == WriteLimits(s, i, g, v, b)
           p == ThrottledCtx(s.ctx[i], i, grant, want)
<1>1. g \in Nat /\ v \in Nat
  BY ThrottleLimitType, LimitType
<1>2. p \in PortCtx
  BY PartsType, ThrottledCtxType
<1>3. apply_throttle(s, i, grant, want, b) = [t EXCEPT !.ctx[i] = p, !.res[i] = grant]
  BY DEF apply_throttle
<1> HIDE DEF g, v, p
<1>4. t \in World
  BY <1>1, WriteLimitsType
<1> HIDE DEF t
<1>5. [t EXCEPT !.ctx[i] = p, !.res[i] = grant] \in World
  BY <1>2, <1>4, CtxResUpdate
<1>6. QED
  BY <1>3, <1>5

LEMMA throttleType ==
    ASSUME SettingsOK, NEW s \in World, NEW i \in Ports, NEW want \in Nat, NEW b \in BusOutcomes
    PROVE  throttle(s, i, want, b) \in World
<1> DEFINE room == budget_headroom(s.res, total) + s.res[i]
           floor == IF room < BASE_RESERVE THEN BASE_RESERVE ELSE room
<1>1. floor \in Nat
  BY HeadroomType, PartsType, NatParameters
<1>2. throttle(s, i, want, b) = apply_throttle(s, i, Least(floor, want), want, b)
  BY DEF throttle
<1> HIDE DEF floor
<1>3. Least(floor, want) \in Nat
  BY <1>1 DEF Least
<1>4. QED
  BY <1>2, <1>3, apply_throttleType

\* What is reclaimed from a port is never more than it holds above the base.
LEMMA ReclaimBound ==
    ASSUME SettingsOK, NEW s \in World, NEW i \in Ports, NEW want \in Nat,
           NEW V \in SUBSET Victims(s, i), NEW v \in Ports
    PROVE  /\ Reclaim(s, i, want, V, v) \in Nat
           /\ Reclaim(s, i, want, V, v) > 0 => s.res[v] - Reclaim(s, i, want, V, v) >= BASE_RESERVE
           /\ s.res[v] - Reclaim(s, i, want, V, v) \in Nat
<1> DEFINE f == [u \in Ports |->
                   IF u \in V /\ Before(s, u, v) THEN s.res[u] - BASE_RESERVE ELSE 0]
           open == Shortfall(s, i, want) - OverSlots(f)
<1>1. \A u \in Ports : s.res[u] \in Nat
  BY PartsType
<1>2. \A u \in V : u \in Ports /\ s.res[u] > BASE_RESERVE
  BY DEF Victims
<1>3. f \in [Ports -> Nat]
  BY <1>1, <1>2, NatParameters
<1>4. OverSlots(f) \in Nat
  BY <1>3, OverSlotsNat
<1>5. Shortfall(s, i, want) \in Int
  BY <1>1, HeadroomType DEF Shortfall, SettingsOK
<1>6. Reclaim(s, i, want, V, v)
        = IF v \notin V \/ open <= 0 THEN 0 ELSE Least(s.res[v] - BASE_RESERVE, open)
  BY DEF Reclaim
<1>7. open \in Int
  BY <1>4, <1>5
<1> HIDE DEF open
<1>8. CASE v \notin V \/ open <= 0
  BY <1>1, <1>6, <1>8
<1>9. CASE v \in V /\ open > 0
  BY <1>1, <1>2, <1>6, <1>7, <1>9, NatParameters DEF Least
<1>10. QED
  BY <1>7, <1>8, <1>9

LEMMA FieldsUpdate ==
    ASSUME NEW s \in World, NEW c \in [Ports -> PortCtx], NEW r \in [Ports -> Nat],
           NEW o \in [Ports -> [w : Nat, v : Nat]], NEW m \in Ports \cup {None}
    PROVE  [s EXCEPT !.ctx = c, !.res = r, !.offer = o, !.mux = m] \in World
BY DEF World

LEMMA shed_lower_priorityType ==
    ASSUME SettingsOK, NEW s \in World, NEW i \in Ports, NEW want \in Nat, NEW b \in BusOutcomes
    PROVE  shed_lower_priority(s, i, want, b) \in World
<1> DEFINE V == Victims(s, i) \cap b.reach
           take == [v \in Ports |-> Reclaim(s, i, want, V, v)]
           hit == {v \in Ports : take[v] > 0}
           last == {v \in hit : \A u \in hit \ {v} : Before(s, u, v)}
           grant == [v \in Ports |-> s.res[v] - take[v]]
           c == [v \in Ports |->
                   IF v \in hit THEN ThrottledCtx(s.ctx[v], v, grant[v], s.ctx[v].contract)
                   ELSE s.ctx[v]]
           o == [v \in Ports |->
                   IF v \in hit /\ v \in b.wrote
                   THEN [w |-> ThrottleLimit(v, grant[v]), v |-> port_max_w[v]]
                   ELSE s.offer[v]]
           m == IF last = {} \/ b.back THEN s.mux ELSE CHOOSE v \in last : TRUE
<1>1. shed_lower_priority(s, i, want, b)
        = [s EXCEPT !.ctx = c, !.res = grant, !.offer = o, !.mux = m]
  BY DEF shed_lower_priority
<1>2. V \in SUBSET Victims(s, i)
  OBVIOUS
<1>3. \A v \in Ports : grant[v] \in Nat
  <2> SUFFICES ASSUME NEW v \in Ports PROVE grant[v] \in Nat
    OBVIOUS
  <2>1. grant[v] = s.res[v] - Reclaim(s, i, want, V, v)
    OBVIOUS
  <2> HIDE DEF V, grant
  <2>2. QED
    BY <1>2, <2>1, ReclaimBound
<1>4. hit \subseteq Ports
  OBVIOUS
<1>5. m \in Ports \cup {None}
  <2>1. last \subseteq Ports
    BY <1>4
  <2>2. s.mux \in Ports \cup {None}
    BY DEF World
  <2> HIDE DEF last
  <2>3. QED
    BY <2>1, <2>2
<1>6. grant \in [Ports -> Nat]
  BY <1>3
<1> HIDE DEF grant, hit, m
<1>7. \A v \in Ports : ThrottledCtx(s.ctx[v], v, grant[v], s.ctx[v].contract) \in PortCtx
  BY <1>3, PartsType, CtxParts, ThrottledCtxType
<1>8. c \in [Ports -> PortCtx]
  BY <1>7, PartsType
<1>9. \A v \in Ports : [w |-> ThrottleLimit(v, grant[v]), v |-> port_max_w[v]] \in [w : Nat, v : Nat]
  BY <1>3, ThrottleLimitType, LimitType, OfferType
<1>10. o \in [Ports -> [w : Nat, v : Nat]]
  BY <1>9, PartsType
<1> HIDE DEF c, o
<1>11. [s EXCEPT !.ctx = c, !.res = grant, !.offer = o, !.mux = m] \in World
  BY <1>5, <1>6, <1>8, <1>10, FieldsUpdate, Zenon
<1>12. QED
  BY <1>1, <1>11

LEMMA ContractCtx ==
    ASSUME NEW p \in PortCtx, NEW m \in Nat
    PROVE  /\ [p EXCEPT !.contract = m] \in PortCtx
           /\ [p EXCEPT !.contract = m, !.denied = 0] \in PortCtx
<1>1. [p EXCEPT !.contract = m] \in PortCtx
  BY DEF PortCtx
<1>2. [p EXCEPT !.contract = m, !.denied = 0] \in PortCtx
  BY DEF PortCtx
<1>3. QED
  BY <1>1, <1>2

LEMMA ContractUpdate ==
    ASSUME NEW s \in World, NEW i \in Ports, NEW n \in Nat, NEW m \in Nat
    PROVE  /\ [s EXCEPT !.res[i] = n, !.ctx[i].contract = m] \in World
           /\ [s EXCEPT !.res[i] = n, !.ctx[i].contract = m, !.ctx[i].denied = 0] \in World
<1> DEFINE p == [s.ctx[i] EXCEPT !.contract = m]
           q == [s.ctx[i] EXCEPT !.contract = m, !.denied = 0]
<1>1. p \in PortCtx /\ q \in PortCtx
  BY PartsType, ContractCtx
<1>2. [s EXCEPT !.res[i] = n, !.ctx[i].contract = m] = [s EXCEPT !.res[i] = n, !.ctx[i] = p]
  BY DEF World
<1>3. [s EXCEPT !.res[i] = n, !.ctx[i].contract = m, !.ctx[i].denied = 0]
        = [s EXCEPT !.res[i] = n, !.ctx[i] = q]
  BY DEF World
<1> HIDE DEF p, q
<1>4. [s EXCEPT !.res[i] = n, !.ctx[i] = p] \in World
  BY <1>1, CtxResUpdate
<1>5. [s EXCEPT !.res[i] = n, !.ctx[i] = q] \in World
  BY <1>1, CtxResUpdate
<1>6. QED
  BY <1>2, <1>3, <1>4, <1>5

LEMMA RenegotiatingUpdate ==
    ASSUME NEW s \in World, NEW i \in Ports, NEW r \in BOOLEAN
    PROVE  [s EXCEPT !.ctx[i].renegotiating = r] \in World
<1>1. [s.ctx[i] EXCEPT !.renegotiating = r] \in PortCtx
  BY PartsType DEF PortCtx
<1>2. [s EXCEPT !.ctx[i].renegotiating = r]
        = [s EXCEPT !.ctx[i] = [s.ctx[i] EXCEPT !.renegotiating = r]]
  BY DEF World
<1>3. QED
  BY <1>1, <1>2, CtxUpdate

LEMMA track_contractType ==
    ASSUME SettingsOK, NEW s \in World, NEW i \in Ports, NEW late \in BOOLEAN, NEW b \in BusOutcomes
    PROVE  track_contract(s, i, late, b) \in World
<1> DEFINE p == s.ctx[i]
           want == IF p.st.contract < BASE_RESERVE THEN BASE_RESERVE ELSE p.st.contract
           heard == [s EXCEPT !.ctx[i].renegotiating = FALSE]
           shed == IF budget_fits(s.res, total, i, want) THEN heard
                   ELSE shed_lower_priority(heard, i, want, b)
           fits == [shed EXCEPT !.res[i] = want, !.ctx[i].contract = want]
           cut == throttle(shed, i, want, b)
<1>1. want \in Nat
  BY PartsType, CtxParts, NatParameters
<1>2. heard \in World
  BY RenegotiatingUpdate
<1>3. track_contract(s, i, late, b) \in {s, heard, fits, cut}
  BY DEF track_contract
<1> HIDE DEF want, heard
<1>4. shed \in World
  BY <1>1, <1>2, shed_lower_priorityType
<1> HIDE DEF shed
<1>5. fits \in World /\ cut \in World
  BY <1>1, <1>4, ContractUpdate, throttleType
<1> HIDE DEF fits, cut
<1>6. QED
  BY <1>2, <1>3, <1>5

LEMMA unthrottleType ==
    ASSUME SettingsOK, NEW s \in World, NEW i \in Ports, NEW b \in BusOutcomes
    PROVE  unthrottle(s, i, b) \in World
<1> DEFINE t == [set_limits(s, i, limit_for(i), port_max_w[i], TRUE, b)
                   EXCEPT !.ctx[i].granted = limit_for(i)]
<1>1. set_limits(s, i, limit_for(i), port_max_w[i], TRUE, b) \in World
  BY LimitType, set_limitsType
<1>2. t \in World
  BY <1>1, LimitType, GrantedUpdate
<1>3. unthrottle(s, i, b) \in {enter(s, i, "ACTIVE"), enter(t, i, "ACTIVE")}
  BY DEF unthrottle
<1> HIDE DEF t
<1>4. "ACTIVE" \in States
  BY DEF States, Powered
<1>5. QED
  BY <1>2, <1>3, <1>4, enterType

LEMMA RecoverType ==
    ASSUME SettingsOK, NEW s \in World, NEW i \in Ports, NEW due \in BOOLEAN, NEW b \in BusOutcomes
    PROVE  Recover(s, i, due, b) \in World
<1> DEFINE n == s.ctx[i].denied
           all == [s EXCEPT !.res[i] = n, !.ctx[i].contract = n, !.ctx[i].denied = 0]
           more == s.res[i] + budget_headroom(s.res, total)
<1>1. n \in Nat /\ more \in Nat
  BY PartsType, CtxParts, HeadroomType
<1>2. Recover(s, i, due, b) \in {s, unthrottle(all, i, b), apply_throttle(s, i, more, n, b)}
  BY DEF Recover
<1> HIDE DEF n, more
<1>3. all \in World
  BY <1>1, ContractUpdate
<1> HIDE DEF all
<1>4. unthrottle(all, i, b) \in World /\ apply_throttle(s, i, more, n, b) \in World
  BY <1>1, <1>3, unthrottleType, apply_throttleType
<1>5. QED
  BY <1>2, <1>4

------------------------------------------------------------------------------
(* A powered port's tick *)

Chance == [late : BOOLEAN, charge : {"same"} \cup ChargeRules, due : BOOLEAN]

LEMMA ChancesType ==
    ASSUME NEW p, NEW c \in Chances(p)
    PROVE  c \in Chance
BY DEF Chances, Chance

LEMMA ChargedUpdate ==
    ASSUME NEW s \in World, NEW i \in Ports, NEW f \in BOOLEAN
    PROVE  [s EXCEPT !.ctx[i].charged = f] \in World
<1>1. [s.ctx[i] EXCEPT !.charged = f] \in PortCtx
  BY FlagCtx, PartsType
<1>2. [s EXCEPT !.ctx[i].charged = f] = [s EXCEPT !.ctx[i] = [s.ctx[i] EXCEPT !.charged = f]]
  BY DEF World
<1>3. QED
  BY <1>1, <1>2, CtxUpdate

LEMMA charge_trackType ==
    ASSUME NEW s \in World, NEW i \in Ports, NEW charge, NEW b \in BusOutcomes
    PROVE  charge_track(s, i, charge, b) \in World
BY ChargedUpdate, auto_offType DEF charge_track

LEMMA ServeIdleType ==
    ASSUME SettingsOK, NEW s \in World, NEW i \in Ports, NEW c \in Chance, NEW b \in BusOutcomes
    PROVE  ServeIdle(s, i, c, b) \in World
<1> DEFINE t == sync_limit(s, i, b)
           a == enter(attach_begin(t, i), i, "ACTIVE")
<1>1. t \in World
  BY sync_limitType
<1>2. ServeIdle(s, i, c, b) \in {t, send_to_loader(t, i, b), track_contract(a, i, FALSE, b)}
  BY DEF ServeIdle
<1> HIDE DEF t
<1>3. a \in World
  BY <1>1, attach_beginType, enterType DEF States, Powered
<1> HIDE DEF a
<1>4. QED
  BY <1>1, <1>2, <1>3, send_to_loaderType, track_contractType

LEMMA DetachedType ==
    ASSUME NEW s \in World, NEW i \in Ports
    PROVE  Detached(s, i) \in World
<1>1. [s EXCEPT !.res[i] = BASE_RESERVE, !.ctx[i].contract = 0, !.ctx[i].denied = 0] \in World
  BY NatParameters, ContractUpdate
<1>2. QED
  BY <1>1 DEF Detached

LEMMA ServeAttachedType ==
    ASSUME SettingsOK, NEW s \in World, NEW i \in Ports, NEW c \in Chance, NEW b \in BusOutcomes
    PROVE  ServeAttached(s, i, c, b) \in World
<1> DEFINE l == sync_limit(s, i, b)
           late == c.late /\ l.ctx[i].granted = s.ctx[i].granted
           t == track_contract(l, i, late, b)
           u == charge_track(t, i, c.charge, b)
           v == send_to_loader(u, i, b)
           r == Recover(u, i, c.due, b)
           w == Recover(v, i, c.due, b)
<1>1. c.late \in BOOLEAN /\ c.due \in BOOLEAN
  BY DEF Chance
<1>2. late \in BOOLEAN
  BY <1>1
<1>3. ServeAttached(s, i, c, b) \in {u, v, r, w}
  BY DEF ServeAttached
<1> HIDE DEF late
<1>4. l \in World
  BY sync_limitType
<1> HIDE DEF l
<1>5. t \in World
  BY <1>2, <1>4, track_contractType
<1> HIDE DEF t
<1>6. u \in World
  BY <1>5, charge_trackType
<1> HIDE DEF u
<1>7. v \in World
  BY <1>6, send_to_loaderType
<1> HIDE DEF v
<1>8. r \in World /\ w \in World
  BY <1>1, <1>6, <1>7, RecoverType
<1> HIDE DEF r, w
<1>9. QED
  BY <1>3, <1>6, <1>7, <1>8

LEMMA ServeType ==
    ASSUME SettingsOK, NEW s \in World, NEW i \in Ports, NEW c \in Chance, NEW b \in BusOutcomes
    PROVE  Serve(s, i, c, b) \in World
<1> DEFINE d == sync_limit(Detached(s, i), i, b)
<1>1. d \in World
  BY DetachedType, sync_limitType
<1>2. Serve(s, i, c, b) \in {ServeIdle(s, i, c, b), ServeAttached(s, i, c, b), go_idle(d, i)}
  BY DEF Serve
<1> HIDE DEF d
<1>3. QED
  BY <1>1, <1>2, ServeIdleType, ServeAttachedType, go_idleType

LEMMA PlugType ==
    ASSUME NEW s \in World, NEW i \in Ports
    PROVE  [attached |-> s.sink[i] # 0, contract |-> s.sink[i]]
             \in [attached : BOOLEAN, contract : Nat]
BY PartsType

LEMMA HeardCtx ==
    ASSUME NEW p \in PortCtx, NEW t \in [attached : BOOLEAN, contract : Nat]
    PROVE  /\ [p EXCEPT !.st = t, !.polls = 0, !.silent = FALSE] \in PortCtx
           /\ [p EXCEPT !.st = t] \in PortCtx
<1>1. [p EXCEPT !.st = t, !.polls = 0, !.silent = FALSE] \in PortCtx
  BY DEF PortCtx
<1>2. [p EXCEPT !.st = t] \in PortCtx
  BY DEF PortCtx
<1>3. QED
  BY <1>1, <1>2

LEMMA HeardType ==
    ASSUME NEW s \in World, NEW i \in Ports
    PROVE  Heard(s, i) \in World
<1> DEFINE t == [attached |-> s.sink[i] # 0, contract |-> s.sink[i]]
           p == [s.ctx[i] EXCEPT !.st = t, !.polls = 0, !.silent = FALSE]
<1>1. t \in [attached : BOOLEAN, contract : Nat]
  BY PlugType
<1>2. Heard(s, i) = [s EXCEPT !.ctx[i] = p]
  BY ZenonT(40) DEF Heard, World
<1> HIDE DEF t
<1>3. p \in PortCtx
  BY <1>1, PartsType, HeardCtx
<1> HIDE DEF p
<1>4. QED
  BY <1>2, <1>3, CtxUpdate

LEMMA ReadoptedType ==
    ASSUME SettingsOK, NEW s \in World, NEW i \in Ports
    PROVE  Readopted(s, i) \in World
<1> DEFINE o == [w |-> s.ctx[i].granted, v |-> port_max_w[i]]
<1>1. o \in [w : Nat, v : Nat]
  BY PartsType, CtxParts, LimitType, OfferType
<1>2. Readopted(s, i) \in {s, [s EXCEPT !.offer[i] = o]}
  BY DEF Readopted
<1> HIDE DEF o
<1>3. QED
  BY <1>1, <1>2, OfferUpdate

LEMMA RecheckType ==
    ASSUME SettingsOK, NEW s \in World, NEW i \in Ports
    PROVE  Recheck(s, i) \in World
BY LimitType, GrantedUpdate DEF Recheck

LEMMA ReprobedType ==
    ASSUME NEW s \in World, NEW i \in Ports
    PROVE  Reprobed(s, i) \in World
<1>1. [s EXCEPT !.res[i] = BASE_RESERVE, !.ctx[i].contract = 0] \in World
  BY NatParameters, ContractUpdate
<1>2. QED
  BY <1>1, start_probeType DEF Reprobed

LEMMA PollsCtx ==
    ASSUME NEW p \in PortCtx, NEW n \in Nat
    PROVE  /\ [p EXCEPT !.polls = n] \in PortCtx
           /\ [p EXCEPT !.silent = TRUE, !.polls = n] \in PortCtx
<1>1. [p EXCEPT !.polls = n] \in PortCtx
  BY DEF PortCtx
<1>2. [p EXCEPT !.silent = TRUE, !.polls = n] \in PortCtx
  BY DEF PortCtx
<1>3. QED
  BY <1>1, <1>2

LEMMA blade_silentType ==
    ASSUME SettingsOK, NEW s \in World, NEW i \in Ports, NEW loader \in BOOLEAN,
           NEW c \in Chance, NEW b \in BusOutcomes
    PROVE  blade_silent(s, i, loader, c, b) \in World
<1> DEFINE p == s.ctx[i]
           more == p.polls + 1
           n == IF p.silent THEN p.polls ELSE more
           m == [p EXCEPT !.polls = more]
           q == [p EXCEPT !.silent = TRUE, !.polls = n]
           r == Released(p)
           missed == [s EXCEPT !.ctx[i] = m]
           quiet == [s EXCEPT !.ctx[i] = q]
           gone == [s EXCEPT !.res[i] = 0, !.ctx[i] = r]
<1>1. p \in PortCtx /\ p.polls \in Nat
  BY PartsType, CtxParts
<1>2. more \in Nat /\ n \in Nat
  BY <1>1
<1>3. [s EXCEPT !.ctx[i].polls = @ + 1] = missed
  BY DEF World
<1>4. [s EXCEPT !.ctx[i].silent = TRUE, !.ctx[i].polls = IF p.silent THEN @ ELSE @ + 1] = quiet
  BY DEF World
<1>5. blade_silent(s, i, loader, c, b)
        \in {Serve(missed, i, c, b), begin_update(gone, i, b), quiet}
  BY <1>3, <1>4 DEF blade_silent
<1> HIDE DEF p, more, n
<1>6. m \in PortCtx /\ q \in PortCtx /\ r \in PortCtx
  BY <1>1, <1>2, PollsCtx, ReleasedType
<1> HIDE DEF m, q, r
<1>7. missed \in World /\ quiet \in World
  BY <1>6, CtxUpdate
<1>8. gone \in World
  BY <1>6, CtxResUpdate
<1> HIDE DEF missed, quiet, gone
<1>9. QED
  BY <1>5, <1>7, <1>8, ServeType, begin_updateType

------------------------------------------------------------------------------
(* The actions: each puts a world in place of a world *)

LEMMA BecomesType ==
    ASSUME NEW w \in World, Becomes(w)
    PROVE  Now' \in World
<1>1. Now' = [ctx |-> w.ctx, res |-> w.res, en |-> w.en, mux |-> w.mux,
              loader |-> w.loader, offer |-> w.offer, sink |-> w.sink]
  BY DEF Now, Becomes
<1>2. w = [ctx |-> w.ctx, res |-> w.res, en |-> w.en, mux |-> w.mux,
           loader |-> w.loader, offer |-> w.offer, sink |-> w.sink]
  BY DEF World
<1>3. QED
  BY <1>1, <1>2

LEMMA StateNames ==
    /\ "ABSENT" \in States /\ "PROBE" \in States /\ "FAULT" \in States
    /\ "DISABLED" \in States /\ "UPDATE" \in States /\ "IDLE" \in States
    /\ "ACTIVE" \in States /\ "THROTTLED" \in States
BY DEF States, Powered

LEMMA TickPoweredType ==
    ASSUME SettingsOK, Now \in World, NEW i \in Ports, NEW on, NEW c \in Chance,
           TickPowered(i, on, c)
    PROVE  Now' \in World
<1>1. PICK b \in BusOutcomes :
         LET s == Recheck(Select(Now, i, b), i)
             h == Heard(Readopted(s, i), i)
         IN
         \/ Becomes(power_down(Now, i, "ABSENT", b))
         \/ Becomes(Now)
         \/ Becomes(Serve(Now, i, c, b))
         \/ \E loader \in BOOLEAN : Becomes(blade_silent(s, i, loader, c, b))
         \/ Becomes(fault(Heard(s, i), i, b))
         \/ Becomes(Reprobed(h, i))
         \/ Becomes(Serve(h, i, c, b))
  BY DEF TickPowered
<1> DEFINE s == Recheck(Select(Now, i, b), i)
           h == Heard(Readopted(s, i), i)
<1>2. s \in World
  BY SelectType, RecheckType
<1> HIDE DEF s
<1>3. h \in World
  BY <1>2, ReadoptedType, HeardType
<1> HIDE DEF h
<1>4. power_down(Now, i, "ABSENT", b) \in World /\ Serve(Now, i, c, b) \in World
  BY power_downType, ServeType, StateNames
<1>5. \A loader \in BOOLEAN : blade_silent(s, i, loader, c, b) \in World
  BY <1>2, blade_silentType
<1>6. fault(Heard(s, i), i, b) \in World
  BY <1>2, HeardType, faultType
<1>7. Reprobed(h, i) \in World /\ Serve(h, i, c, b) \in World
  BY <1>3, ReprobedType, ServeType
<1>8. \E w \in World : Becomes(w)
  BY <1>1, <1>4, <1>5, <1>6, <1>7, Zenon DEF s, h
<1>9. QED
  BY <1>8, BecomesType

LEMMA TickAbsentType ==
    ASSUME Now \in World, NEW i \in Ports, NEW on, TickAbsent(i, on)
    PROVE  Now' \in World
<1>1. enter(Now, i, "DISABLED") \in World /\ start_probe(Now, i) \in World
  BY StateNames, enterType, start_probeType
<1>2. \E w \in World : Becomes(w)
  BY <1>1, Zenon DEF TickAbsent
<1>3. QED
  BY <1>2, BecomesType

LEMMA ProbingType ==
    ASSUME Now \in World, NEW i \in Ports
    PROVE  Probing(i) \in World
<1> DEFINE p == [Now.ctx[i] EXCEPT !.grace = FALSE, !.switching = TRUE]
<1>0. \A u \in PortCtx : [u EXCEPT !.grace = FALSE, !.switching = TRUE] \in PortCtx
  BY DEF PortCtx
<1>1. p \in PortCtx
  BY <1>0, PartsType
<1>2. [Now EXCEPT !.ctx[i].grace = FALSE, !.ctx[i].switching = TRUE] = [Now EXCEPT !.ctx[i] = p]
  BY DEF World
<1>3. Probing(i) \in {Now, [Now EXCEPT !.ctx[i] = p]}
  BY <1>2 DEF Probing
<1> HIDE DEF p
<1>4. QED
  BY <1>1, <1>3, CtxUpdate

LEMMA AnsweringType ==
    ASSUME NEW s \in World, NEW i \in Ports
    PROVE  Answering(s, i) \subseteq Generations
BY FsmAssumption, UnreadType DEF Answering

LEMMA ReadIdsType ==
    ASSUME NEW g
    PROVE  ReadIds(g) \subseteq Identity
BY FsmAssumption, UnreadType DEF ReadIds

LEMMA IdentifiedType ==
    ASSUME NEW s \in World, NEW i \in Ports, NEW g \in Generations, NEW id \in Identity
    PROVE  Identified(s, i, g, id) \in World
<1> DEFINE p == [s.ctx[i] EXCEPT !.gen = g, !.id = id]
           n == IF id.ok /\ blade_wants(p) = {} THEN 0 ELSE p.rounds
           q == [p EXCEPT !.rounds = n]
<1>0. \A u \in PortCtx : [u EXCEPT !.gen = g, !.id = id] \in PortCtx
  BY DEF PortCtx
<1>1. p \in PortCtx
  BY <1>0, PartsType
<1>2. Identified(s, i, g, id) = [s EXCEPT !.ctx[i] = q]
  BY DEF Identified
<1> HIDE DEF p
<1>3. n \in 0..UPDATE_ROUNDS_MAX
  BY <1>1, CtxParts, NatParameters
<1> HIDE DEF n
<1>4. q \in PortCtx
  BY <1>1, <1>3 DEF PortCtx
<1> HIDE DEF q
<1>5. QED
  BY <1>2, <1>4, CtxUpdate

LEMMA GenUpdate ==
    ASSUME NEW s \in World, NEW i \in Ports, NEW g \in Generations
    PROVE  [s EXCEPT !.ctx[i].gen = g] \in World
<1>1. [s.ctx[i] EXCEPT !.gen = g] \in PortCtx
  BY PartsType DEF PortCtx
<1>2. [s EXCEPT !.ctx[i].gen = g] = [s EXCEPT !.ctx[i] = [s.ctx[i] EXCEPT !.gen = g]]
  BY DEF World
<1>3. QED
  BY <1>1, <1>2, CtxUpdate

\* A port that starts to serve: its context, its base, its blade's offer.
LEMMA ServedUpdate ==
    ASSUME NEW s \in World, NEW i \in Ports, NEW p \in PortCtx, NEW o \in [w : Nat, v : Nat]
    PROVE  [s EXCEPT !.ctx[i] = p, !.res[i] = BASE_RESERVE, !.offer[i] = o] \in World
<1>1. BASE_RESERVE \in Nat
  BY NatParameters
<1>2. QED
  BY <1>1 DEF World

LEMMA ConfiguredType ==
    ASSUME SettingsOK, NEW s \in World, NEW i \in Ports
    PROVE  Configured(s, i) \in World
<1> DEFINE o == [w |-> limit_for(i), v |-> port_max_w[i]]
           p == [s.ctx[i] EXCEPT !.granted = limit_for(i)]
           t == [s EXCEPT !.ctx[i] = p, !.res[i] = BASE_RESERVE, !.offer[i] = o]
<1>1. o \in [w : Nat, v : Nat]
  BY LimitType, OfferType
<1>2. p \in PortCtx
  <2>1. limit_for(i) \in Nat
    BY LimitType
  <2>2. \A u \in PortCtx, n \in Nat : [u EXCEPT !.granted = n] \in PortCtx
    BY DEF PortCtx
  <2>3. QED
    BY <2>1, <2>2, PartsType
<1>3. [s EXCEPT !.ctx[i].granted = limit_for(i), !.res[i] = BASE_RESERVE, !.offer[i] = o] = t
  BY DEF World
<1>4. Configured(s, i) = go_idle(t, i)
  BY <1>3 DEF Configured
<1> HIDE DEF o, p
<1>5. t \in World
  BY <1>1, <1>2, ServedUpdate
<1> HIDE DEF t
<1>6. QED
  BY <1>4, <1>5, go_idleType

LEMMA ColdAnswerType ==
    ASSUME SettingsOK, NEW s \in World, NEW i \in Ports, NEW late \in BOOLEAN,
           NEW b \in BusOutcomes, ColdAnswer(s, i, late, b)
    PROVE  \E w \in World : Becomes(w)
<1>1. PICK g \in Answering(s, i),
           id \in ReadIds(IF "GEN_3" \in Found THEN "GEN_3" ELSE "NONE") :
         LET k == Identified(s, i, g, id)
             l == send_to_loader(k, i, b)
         IN  \/ Becomes(begin_update([s EXCEPT !.ctx[i].gen = g], i, b))
             \/ Becomes(l)
             \/ Becomes(Configured(l, i))
             \/ Becomes(probe_failed(l, i, late, b))
  BY DEF ColdAnswer
<1> DEFINE k == Identified(s, i, g, id)
           l == send_to_loader(k, i, b)
<1>2. g \in Generations /\ id \in Identity
  BY AnsweringType, ReadIdsType
<1>3. k \in World
  BY <1>2, IdentifiedType
<1> HIDE DEF k
<1>4. l \in World
  BY <1>3, send_to_loaderType
<1> HIDE DEF l
<1>5. begin_update([s EXCEPT !.ctx[i].gen = g], i, b) \in World
  BY <1>2, GenUpdate, begin_updateType
<1>6. Configured(l, i) \in World /\ probe_failed(l, i, late, b) \in World
  BY <1>4, ConfiguredType, probe_failedType
<1>7. QED
  BY <1>1, <1>4, <1>5, <1>6, Zenon DEF k, l

LEMMA EnOnUpdate ==
    ASSUME NEW s \in World, NEW i \in Ports
    PROVE  [s EXCEPT !.en[i] = TRUE, !.ctx[i].en_on = TRUE] \in World
<1> DEFINE p == [s.ctx[i] EXCEPT !.en_on = TRUE]
<1>1. p \in PortCtx
  BY FlagCtx, PartsType
<1>2. [s EXCEPT !.en[i] = TRUE, !.ctx[i].en_on = TRUE] = [s EXCEPT !.en[i] = TRUE, !.ctx[i] = p]
  BY DEF World
<1> HIDE DEF p
<1>3. [s EXCEPT !.en[i] = TRUE, !.ctx[i] = p] \in World
  BY <1>1 DEF World
<1>4. QED
  BY <1>2, <1>3

LEMMA ColdProbeType ==
    ASSUME SettingsOK, Now \in World, NEW i \in Ports, NEW c \in Chance, ColdProbe(i, c)
    PROVE  \E w \in World : Becomes(w)
<1>1. PICK b \in BusOutcomes :
         LET s == Probing(i) IN
         \/ Becomes(probe_failed(s, i, c.late, b))
         \/ Becomes([s EXCEPT !.en[i] = TRUE, !.ctx[i].en_on = TRUE])
         \/ Becomes(s)
         \/ ColdAnswer(Select(s, i, b), i, c.late, b)
  BY DEF ColdProbe
<1> DEFINE s == Probing(i)
<1>2. s \in World /\ c.late \in BOOLEAN
  BY ProbingType DEF Chance
<1> HIDE DEF s
<1>3. CASE ColdAnswer(Select(s, i, b), i, c.late, b)
  BY <1>2, <1>3, SelectType, ColdAnswerType
<1>4. CASE ~ColdAnswer(Select(s, i, b), i, c.late, b)
  <2>1. probe_failed(s, i, c.late, b) \in World
    BY <1>2, probe_failedType
  <2>2. [s EXCEPT !.en[i] = TRUE, !.ctx[i].en_on = TRUE] \in World
    BY <1>2, EnOnUpdate
  <2>3. QED
    BY <1>1, <1>2, <1>4, <2>1, <2>2, Zenon DEF s
<1>5. QED
  BY <1>3, <1>4

LEMMA AdoptedCtx ==
    ASSUME NEW p \in PortCtx, NEW n \in Nat, NEW w \in Nat
    PROVE  [p EXCEPT !.polls = n, !.warm = FALSE, !.granted = w] \in PortCtx
BY DEF PortCtx

LEMMA DeniedUpdate ==
    ASSUME NEW s \in World, NEW i \in Ports, NEW n \in Nat
    PROVE  [s EXCEPT !.ctx[i].denied = n] \in World
<1>1. [s.ctx[i] EXCEPT !.denied = n] \in PortCtx
  BY PartsType DEF PortCtx
<1>2. [s EXCEPT !.ctx[i].denied = n] = [s EXCEPT !.ctx[i] = [s.ctx[i] EXCEPT !.denied = n]]
  BY DEF World
<1>3. QED
  BY <1>1, <1>2, CtxUpdate

LEMMA AdoptedType ==
    ASSUME SettingsOK, NEW s \in World, NEW i \in Ports
    PROVE  Adopted(s, i) \in World
<1> DEFINE max == limit_for(i)
           keep == /\ s.ctx[i].gen = "GEN_3" /\ s.sink[i] # 0 /\ s.offer[i].w # 0
                   /\ s.offer[i].v = port_max_w[i] /\ s.offer[i].w <= max
           w == IF keep THEN s.offer[i].w ELSE max
           h == Heard(s, i).ctx[i]
           n == s.ctx[i].polls
           p == [h EXCEPT !.polls = n, !.warm = FALSE, !.granted = w]
           o == [w |-> w, v |-> port_max_w[i]]
           t == [s EXCEPT !.ctx[i] = p, !.res[i] = BASE_RESERVE, !.offer[i] = o]
           d == [attach_begin(t, i) EXCEPT !.ctx[i].denied = offer_w(i, max)]
<1>1. Adopted(s, i) \in {enter(d, i, "THROTTLED"), go_idle(t, i)}
  BY DEF Adopted
<1>2. w \in Nat
  <2>1. s.offer[i].w \in Nat
    BY PartsType
  <2>2. QED
    BY <2>1, LimitType
<1> HIDE DEF w
<1>3. o \in [w : Nat, v : Nat]
  BY <1>2, LimitType, OfferType
<1> HIDE DEF o
<1>4. h \in PortCtx /\ n \in Nat
  BY HeardType, PartsType, CtxParts
<1> HIDE DEF h, n
<1>5. p \in PortCtx
  BY <1>2, <1>4, AdoptedCtx
<1> HIDE DEF p
<1>6. t \in World
  BY <1>3, <1>5, ServedUpdate
<1> HIDE DEF t
<1>7. d \in World
  BY <1>6, LimitType, attach_beginType, DeniedUpdate
<1> HIDE DEF d
<1>8. QED
  BY <1>1, <1>6, <1>7, StateNames, enterType, go_idleType

LEMMA WarmUpdate ==
    ASSUME NEW s \in World, NEW i \in Ports
    PROVE  [s EXCEPT !.ctx[i].warm = FALSE] \in World
<1>1. [s.ctx[i] EXCEPT !.warm = FALSE] \in PortCtx
  BY FlagCtx, PartsType
<1>2. [s EXCEPT !.ctx[i].warm = FALSE] = [s EXCEPT !.ctx[i] = [s.ctx[i] EXCEPT !.warm = FALSE]]
  BY DEF World
<1>3. QED
  BY <1>1, <1>2, CtxUpdate

LEMMA WarmAnswerType ==
    ASSUME SettingsOK, NEW s \in World, NEW i \in Ports, NEW late \in BOOLEAN,
           NEW b \in BusOutcomes, WarmAnswer(s, i, late, b)
    PROVE  \E w \in World : Becomes(w)
<1>1. PICK g \in IF s.ctx[i].gen = "NONE" \/ s.ctx[i].silent
                 THEN Answering(s, i) ELSE {s.ctx[i].gen} :
      \E id \in ReadIds(g) :
        LET k == IF g = "GEN_3" THEN Identified(s, i, g, id) ELSE [s EXCEPT !.ctx[i].gen = g] IN
        \/ Becomes(begin_update(k, i, b))
        \/ Becomes(Adopted(k, i))
        \/ Becomes(fault([k EXCEPT !.ctx[i].warm = FALSE], i, b))
        \/ Becomes(warm_probe_failed(k, i, late))
  BY ZenonT(40) DEF WarmAnswer
<1>2. PICK id \in ReadIds(g) :
        LET k == IF g = "GEN_3" THEN Identified(s, i, g, id) ELSE [s EXCEPT !.ctx[i].gen = g] IN
        \/ Becomes(begin_update(k, i, b))
        \/ Becomes(Adopted(k, i))
        \/ Becomes(fault([k EXCEPT !.ctx[i].warm = FALSE], i, b))
        \/ Becomes(warm_probe_failed(k, i, late))
  BY <1>1
<1> DEFINE k == IF g = "GEN_3" THEN Identified(s, i, g, id) ELSE [s EXCEPT !.ctx[i].gen = g]
<1>3. g \in Generations /\ id \in Identity
  BY AnsweringType, ReadIdsType, PartsType, CtxParts
<1>4. k \in World
  BY <1>3, IdentifiedType, GenUpdate
<1> HIDE DEF k
<1>5. /\ begin_update(k, i, b) \in World /\ Adopted(k, i) \in World
      /\ fault([k EXCEPT !.ctx[i].warm = FALSE], i, b) \in World
      /\ warm_probe_failed(k, i, late) \in World
  BY <1>4, begin_updateType, AdoptedType, WarmUpdate, faultType, warm_probe_failedType
<1>6. QED
  BY <1>2, <1>5, Zenon DEF k

LEMMA WarmProbeType ==
    ASSUME SettingsOK, Now \in World, NEW i \in Ports, NEW c \in Chance, WarmProbe(i, c)
    PROVE  \E w \in World : Becomes(w)
<1>1. PICK b \in BusOutcomes :
         LET s == Probing(i) IN
         \/ Becomes(s)
         \/ Becomes(warm_probe_failed(s, i, c.late))
         \/ WarmAnswer(Select(s, i, b), i, c.late, b)
  BY DEF WarmProbe
<1> DEFINE s == Probing(i)
<1>2. s \in World /\ c.late \in BOOLEAN
  BY ProbingType DEF Chance
<1> HIDE DEF s
<1>3. CASE WarmAnswer(Select(s, i, b), i, c.late, b)
  BY <1>2, <1>3, SelectType, WarmAnswerType
<1>4. CASE ~WarmAnswer(Select(s, i, b), i, c.late, b)
  <2>1. warm_probe_failed(s, i, c.late) \in World
    BY <1>2, warm_probe_failedType
  <2>2. QED
    BY <1>1, <1>2, <1>4, <2>1, Zenon DEF s
<1>5. QED
  BY <1>3, <1>4

LEMMA TickProbeType ==
    ASSUME SettingsOK, Now \in World, NEW i \in Ports, NEW on, NEW c \in Chance,
           TickProbe(i, on, c)
    PROVE  Now' \in World
<1>1. CASE ColdProbe(i, c)
  BY <1>1, ColdProbeType, BecomesType
<1>2. CASE WarmProbe(i, c)
  BY <1>2, WarmProbeType, BecomesType
<1>3. CASE \E b \in BusOutcomes : Becomes(power_down(Now, i, "ABSENT", b))
  BY <1>3, power_downType, StateNames, BecomesType
<1>4. QED
  BY <1>1, <1>2, <1>3 DEF TickProbe

LEMMA TickFaultType ==
    ASSUME Now \in World, NEW i \in Ports, NEW on, NEW c \in Chance, TickFault(i, on, c)
    PROVE  Now' \in World
<1>1. PICK b \in BusOutcomes :
         LET s == IF ctx[i].gen = "GEN_3" THEN Select(Now, i, b) ELSE Now IN
         \/ Becomes(power_down(Now, i, "ABSENT", b))
         \/ Becomes(s)
         \/ Becomes([s EXCEPT !.ctx[i].cooling = TRUE])
         \/ Becomes(start_probe([s EXCEPT !.ctx[i].cooling = FALSE], i))
  BY DEF TickFault
<1> DEFINE s == IF ctx[i].gen = "GEN_3" THEN Select(Now, i, b) ELSE Now
<1>2. s \in World
  BY SelectType
<1> HIDE DEF s
<1>3. /\ power_down(Now, i, "ABSENT", b) \in World
      /\ [s EXCEPT !.ctx[i].cooling = TRUE] \in World
      /\ start_probe([s EXCEPT !.ctx[i].cooling = FALSE], i) \in World
  BY <1>2, StateNames, power_downType, CoolingUpdate, start_probeType
<1>4. \E w \in World : Becomes(w)
  BY <1>1, <1>2, <1>3, Zenon DEF s
<1>5. QED
  BY <1>4, BecomesType

LEMMA TickUpdateType ==
    ASSUME Now \in World, NEW i \in Ports, NEW on, NEW c \in Chance, TickUpdate(i, on, c)
    PROVE  Now' \in World
<1>1. PICK b \in BusOutcomes :
         LET s == [Select(Now, i, b) EXCEPT !.loader = i] IN
         \/ Becomes(power_down(Now, i, "ABSENT", b))
         \/ Becomes(Now)
         \/ Becomes(s)
         \/ Becomes([start_probe(s, i) EXCEPT !.ctx[i].grace = TRUE])
         \/ Becomes(fault(s, i, b))
  BY DEF TickUpdate
<1> DEFINE s == [Select(Now, i, b) EXCEPT !.loader = i]
<1>2. s \in World
  BY SelectType, LoaderUpdate
<1> HIDE DEF s
<1>3. /\ power_down(Now, i, "ABSENT", b) \in World
      /\ [start_probe(s, i) EXCEPT !.ctx[i].grace = TRUE] \in World
      /\ fault(s, i, b) \in World
  BY <1>2, StateNames, power_downType, start_probeType, SwitchingUpdate, faultType
<1>4. \E w \in World : Becomes(w)
  BY <1>1, <1>2, <1>3, Zenon DEF s
<1>5. QED
  BY <1>4, BecomesType

LEMMA TickDisabledType ==
    ASSUME Now \in World, NEW i \in Ports, NEW on, TickDisabled(i, on)
    PROVE  Now' \in World
<1>1. PICK b \in BusOutcomes :
         LET s == IF ctx[i].gen = "GEN_3" THEN Select(Now, i, b) ELSE Now IN
         \/ Becomes(power_down(Now, i, "ABSENT", b))
         \/ Becomes(start_probe(Now, i))
         \/ Becomes(s)
  BY DEF TickDisabled
<1> DEFINE s == IF ctx[i].gen = "GEN_3" THEN Select(Now, i, b) ELSE Now
<1>2. s \in World
  BY SelectType
<1> HIDE DEF s
<1>3. power_down(Now, i, "ABSENT", b) \in World /\ start_probe(Now, i) \in World
  BY StateNames, power_downType, start_probeType
<1>4. \E w \in World : Becomes(w)
  BY <1>1, <1>2, <1>3, Zenon DEF s
<1>5. QED
  BY <1>4, BecomesType

LEMMA TickType ==
    ASSUME SettingsOK, Now \in World, NEW i \in Ports, NEW on, NEW c \in Chance,
           port_fsm_tick(i, on, c)
    PROVE  Now' \in World
BY TickAbsentType, TickProbeType, TickPoweredType, TickFaultType, TickUpdateType,
   TickDisabledType DEF port_fsm_tick

------------------------------------------------------------------------------
(* Commands and the sweep *)

LEMMA CmdEnableType ==
    ASSUME Now \in World, NEW i \in Ports, CmdEnable(i)
    PROVE  Now' \in World
<1> DEFINE p == [ctx[i] EXCEPT !.admin = TRUE, !.stuck = FALSE]
           q == [p EXCEPT !.held = FALSE, !.rounds = 0, !.cooling = FALSE]
           r == IF p.held THEN q ELSE p
<1>1. \A u \in PortCtx : [u EXCEPT !.admin = TRUE, !.stuck = FALSE] \in PortCtx
  BY ZenonT(40) DEF PortCtx
<1>2. \A u \in PortCtx, z \in 0..UPDATE_ROUNDS_MAX :
        [u EXCEPT !.held = FALSE, !.rounds = z, !.cooling = FALSE] \in PortCtx
  BY ZenonT(40) DEF PortCtx
<1>3. ctx[i] \in PortCtx
  BY DEF Now, World
<1>4. p \in PortCtx
  BY <1>1, <1>3
<1>5. Becomes([Now EXCEPT !.ctx[i] = r])
  BY DEF CmdEnable
<1> HIDE DEF p
<1>6. q \in PortCtx
  BY <1>2, <1>4, NatParameters
<1> HIDE DEF q
<1>7. r \in PortCtx
  BY <1>4, <1>6
<1> HIDE DEF r
<1>8. QED
  BY <1>5, <1>7, CtxUpdate, BecomesType

LEMMA NowCtx ==
    ASSUME Now \in World, NEW i \in Ports
    PROVE  Now.ctx[i] = ctx[i] /\ ctx[i] \in PortCtx
BY DEF Now, World

LEMMA RewriteCtx ==
    ASSUME NEW p \in PortCtx
    PROVE  [p EXCEPT !.rewrite = TRUE, !.rounds = 0, !.stuck = FALSE, !.held = FALSE] \in PortCtx
<1>1. \A z \in 0..UPDATE_ROUNDS_MAX :
        [p EXCEPT !.rewrite = TRUE, !.rounds = z, !.stuck = FALSE, !.held = FALSE] \in PortCtx
  BY DEF PortCtx
<1>2. QED
  BY <1>1, NatParameters

LEMMA CmdUpdateType ==
    ASSUME Now \in World, NEW i \in Ports, CmdUpdate(i)
    PROVE  Now' \in World
<1> DEFINE p == [ctx[i] EXCEPT !.rewrite = TRUE, !.rounds = 0, !.stuck = FALSE, !.held = FALSE]
           s == [Now EXCEPT !.ctx[i] = p]
           r == Released(p)
<1>1. PICK b \in BusOutcomes :
         \/ Becomes([power_down([s EXCEPT !.ctx[i].warm = FALSE], i, "FAULT", b)
                       EXCEPT !.ctx[i].cooling = FALSE])
         \/ Becomes([start_probe([BladeDown(Select(s, i, b), i)
                                    EXCEPT !.res[i] = 0, !.ctx[i] = r], i)
                       EXCEPT !.ctx[i].grace = TRUE])
         \/ Becomes([(IF p.state \in Powered THEN Select(s, i, b) ELSE s) EXCEPT
              !.ctx[i].cooling = IF p.state = "FAULT" THEN FALSE ELSE @])
  BY Zenon DEF CmdUpdate
<1>2. p \in PortCtx
  BY NowCtx, RewriteCtx
<1> HIDE DEF p
<1>3. s \in World /\ r \in PortCtx
  BY <1>2, CtxUpdate, ReleasedType
<1> HIDE DEF s, r
<1>4. [power_down([s EXCEPT !.ctx[i].warm = FALSE], i, "FAULT", b)
         EXCEPT !.ctx[i].cooling = FALSE] \in World
  BY <1>3, StateNames, WarmUpdate, power_downType, CoolingUpdate
<1>5. [start_probe([BladeDown(Select(s, i, b), i) EXCEPT !.res[i] = 0, !.ctx[i] = r], i)
         EXCEPT !.ctx[i].grace = TRUE] \in World
  <2>1. BladeDown(Select(s, i, b), i) \in World
    BY <1>3, SelectType, BladeDownType
  <2>2. [BladeDown(Select(s, i, b), i) EXCEPT !.res[i] = 0, !.ctx[i] = r] \in World
    BY <1>3, <2>1, CtxResUpdate
  <2>3. QED
    BY <2>2, start_probeType, SwitchingUpdate
<1>6. \A w \in {s, Select(s, i, b)} :
        [w EXCEPT !.ctx[i].cooling = IF p.state = "FAULT" THEN FALSE ELSE @] \in World
  <2> SUFFICES ASSUME NEW w \in {s, Select(s, i, b)}
               PROVE  [w EXCEPT !.ctx[i].cooling = IF p.state = "FAULT" THEN FALSE ELSE @] \in World
    OBVIOUS
  <2> DEFINE x == IF p.state = "FAULT" THEN FALSE ELSE w.ctx[i].cooling
  <2>1. w \in World
    BY <1>3, SelectType
  <2>2. x \in BOOLEAN
    BY <2>1, PartsType DEF PortCtx
  <2>3. [w EXCEPT !.ctx[i].cooling = IF p.state = "FAULT" THEN FALSE ELSE @]
          = [w EXCEPT !.ctx[i].cooling = x]
    BY <2>1 DEF World
  <2> HIDE DEF x
  <2>4. QED
    BY <2>1, <2>2, <2>3, CoolingUpdate
<1>7. (IF p.state \in Powered THEN Select(s, i, b) ELSE s) \in {s, Select(s, i, b)}
  OBVIOUS
<1>8. \E w \in World : Becomes(w)
  BY <1>1, <1>4, <1>5, <1>6, <1>7, Zenon
<1>9. QED
  BY <1>8, BecomesType

LEMMA AdminUpdate ==
    ASSUME NEW s \in World, NEW i \in Ports
    PROVE  [s EXCEPT !.ctx[i].admin = FALSE] \in World
<1>1. [s.ctx[i] EXCEPT !.admin = FALSE] \in PortCtx
  BY FlagCtx, PartsType
<1>2. [s EXCEPT !.ctx[i].admin = FALSE] = [s EXCEPT !.ctx[i] = [s.ctx[i] EXCEPT !.admin = FALSE]]
  BY DEF World
<1>3. QED
  BY <1>1, <1>2, CtxUpdate

LEMMA CmdDisableType ==
    ASSUME Now \in World, NEW i \in Ports, CmdDisable(i)
    PROVE  Now' \in World
<1> DEFINE s == [Now EXCEPT !.ctx[i].admin = FALSE]
<1>1. PICK b \in BusOutcomes : Becomes(s) \/ Becomes(switch_off(s, i, b))
  BY DEF CmdDisable
<1>2. s \in World
  BY AdminUpdate
<1> HIDE DEF s
<1>3. QED
  BY <1>1, <1>2, switch_offType, BecomesType

LEMMA CmdLimitType ==
    ASSUME SettingsOK, Now \in World, NEW i \in Ports, CmdLimit(i)
    PROVE  Now' \in World
<1>1. PICK b \in BusOutcomes :
        LET s == Select(Now, i, b) IN
        \/ Becomes(Now)
        \/ Becomes(s)
        \/ Becomes([set_limits(s, i, limit_for(i), port_max_w[i], ctx[i].st.attached, b)
                      EXCEPT !.ctx[i].granted = limit_for(i)])
  BY DEF CmdLimit
<1> DEFINE s == Select(Now, i, b)
           a == ctx[i].st.attached
<1>2. s \in World /\ a \in BOOLEAN
  BY SelectType, NowCtx, CtxParts
<1> HIDE DEF s, a
<1>3. [set_limits(s, i, limit_for(i), port_max_w[i], a, b)
         EXCEPT !.ctx[i].granted = limit_for(i)] \in World
  BY <1>2, LimitType, set_limitsType, GrantedUpdate
<1>4. \E w \in World : Becomes(w)
  BY <1>1, <1>2, <1>3, Zenon DEF s, a
<1>5. QED
  BY <1>4, BecomesType

LEMMA CmdVoltType ==
    ASSUME SettingsOK, Now \in World, NEW i \in Ports, CmdVolt(i)
    PROVE  Now' \in World
<1>1. PICK b \in BusOutcomes :
        \/ Becomes(Now)
        \/ Becomes(set_limits(Select(Now, i, b), i, ctx[i].granted, port_max_w[i],
                              ctx[i].st.attached, b))
  BY DEF CmdVolt
<1>2. ctx[i].granted \in Nat /\ ctx[i].st.attached \in BOOLEAN /\ Select(Now, i, b) \in World
  BY SelectType, NowCtx, CtxParts
<1>3. set_limits(Select(Now, i, b), i, ctx[i].granted, port_max_w[i],
                 ctx[i].st.attached, b) \in World
  BY <1>2, LimitType, set_limitsType
<1>4. QED
  BY <1>1, <1>3, BecomesType

LEMMA port_fsm_alert_sweepType ==
    ASSUME Now \in World, NEW i \in Ports, port_fsm_alert_sweep(i)
    PROVE  Now' \in World
<1> DEFINE t == [attached |-> sink[i] # 0, contract |-> sink[i]]
<1>1. PICK b \in BusOutcomes :
        LET h == [Select(Now, i, b) EXCEPT !.ctx[i].st = t] IN
        Becomes(h) \/ Becomes(fault(h, i, b))
  BY DEF port_fsm_alert_sweep
<1> DEFINE s == Select(Now, i, b)
           h == [s EXCEPT !.ctx[i].st = t]
           p == [s.ctx[i] EXCEPT !.st = t]
<1>2. s \in World
  BY SelectType
<1>3. t \in [attached : BOOLEAN, contract : Nat]
  BY DEF Now, World
<1> HIDE DEF s, t
<1>4. p \in PortCtx
  BY <1>2, <1>3, PartsType, HeardCtx
<1>5. h = [s EXCEPT !.ctx[i] = p]
  BY <1>2 DEF World
<1> HIDE DEF p
<1>6. h \in World
  BY <1>2, <1>4, <1>5, CtxUpdate
<1> HIDE DEF h
<1>7. \E w \in World : Becomes(w)
  BY <1>1, <1>6, faultType, Zenon DEF h, s
<1>8. QED
  BY <1>7, BecomesType

LEMMA CommandsType ==
    ASSUME SettingsOK, Now \in World, NEW i \in Ports, Commands(i)
    PROVE  Now' \in World
BY CmdEnableType, CmdDisableType, CmdUpdateType, CmdLimitType, CmdVoltType DEF Commands

------------------------------------------------------------------------------
(* Power-up *)

LEMMA CountType ==
    ASSUME NEW Q \in SUBSET Ports
    PROVE  Cardinality(Q) \in Nat
<1>1. NUM_PORTS \in Nat
  BY PortsAssumption
<1>2. IsFiniteSet(0..(NUM_PORTS - 1))
  BY <1>1, FS_Interval
<1>3. QED
  BY <1>2, FS_Subset, FS_CardinalityType DEF Ports

LEMMA RankType ==
    ASSUME NEW i \in Ports, NEW Q \in SUBSET Ports
    PROVE  Rank(i, Q) \in Nat
BY CountType DEF Rank

LEMMA ResetCtxType ==
    ASSUME NEW a \in BOOLEAN
    PROVE  ResetCtx(a) \in PortCtx
BY StateNames, UnreadType, NoStatusType, NatParameters DEF ResetCtx, PortCtx

LEMMA BootedCtx ==
    ASSUME NEW p \in PortCtx, NEW w \in BOOLEAN, NEW n \in Nat, NEW x \in States
    PROVE  [p EXCEPT !.warm = w, !.slot = n, !.state = x] \in PortCtx
BY DEF PortCtx

LEMMA BootCtxType ==
    ASSUME NEW i \in Ports, NEW read, NEW powered, NEW admin \in [Ports -> BOOLEAN]
    PROVE  BootCtx(i, read, powered, admin) \in PortCtx
<1> DEFINE up == {j \in Ports : read[j] /\ admin[j]}
           warm == up \cap powered
           slot == IF i \notin up THEN 0
                   ELSE IF i \in warm THEN 1 + Rank(i, warm)
                   ELSE 1 + Cardinality(warm) + Rank(i, up \ warm)
           w == i \in warm
           p == ResetCtx(admin[i])
           x == IF i \in powered /\ read[i] /\ ~admin[i] THEN "DISABLED" ELSE p.state
<1>1. BootCtx(i, read, powered, admin) = [p EXCEPT !.warm = w, !.slot = slot, !.state = x]
  BY DEF BootCtx
<1>2. up \in SUBSET Ports /\ warm \in SUBSET Ports /\ up \ warm \in SUBSET Ports
  OBVIOUS
<1> HIDE DEF up
<1>3. w \in BOOLEAN
  OBVIOUS
<1> HIDE DEF warm
<1>4. slot \in Nat
  BY <1>2, RankType, CountType
<1> HIDE DEF slot, w
<1>5. p \in PortCtx
  BY ResetCtxType
<1> HIDE DEF p
<1>6. x \in States
  BY <1>5, CtxParts, StateNames
<1> HIDE DEF x
<1>7. [p EXCEPT !.warm = w, !.slot = slot, !.state = x] \in PortCtx
  BY <1>3, <1>4, <1>5, <1>6, BootedCtx, Zenon
<1>8. QED
  BY <1>1, <1>7

LEMMA MostTypes ==
    MaxW \in Nat /\ 1..MaxW \subseteq Nat /\ Limits \subseteq Nat /\ Volts \subseteq Nat
    /\ Asks \subseteq Nat /\ Totals \subseteq Nat /\ Ceilings \subseteq Nat /\ Top \in Nat
BY FsmAssumption, ChassisAssumption, PortsAssumption DEF Top

LEMMA HoldsType == Holds \subseteq BOOLEAN
BY DEF Holds

LEMMA InitType == Init => TypeOK
<1> SUFFICES ASSUME Init PROVE TypeOK
  OBVIOUS
<1>1. PICK off \in BootOff :
        ctx = [i \in Ports |-> BootCtx(i, seated, {}, [j \in Ports |-> j \notin off])]
  BY DEF Init
<1> DEFINE admin == [j \in Ports |-> j \notin off]
<1>2. admin \in [Ports -> BOOLEAN]
  OBVIOUS
<1> HIDE DEF admin
<1>3. \A i \in Ports : BootCtx(i, seated, {}, admin) \in PortCtx
  BY <1>2, BootCtxType
<1>4. ctx \in [Ports -> PortCtx]
  BY <1>1, <1>3 DEF admin
<1>5. NoOffer \in [w : Nat, v : Nat]
  BY DEF NoOffer
<1>6. Now \in World
  <2>1. /\ reserved \in [Ports -> Nat] /\ en \in [Ports -> BOOLEAN] /\ sink \in [Ports -> Nat]
        /\ mux \in Ports \cup {None} /\ loader_port \in Ports \cup {None}
    BY DEF Init
  <2>2. offer \in [Ports -> [w : Nat, v : Nat]]
    BY <1>5 DEF Init
  <2>3. QED
    BY <1>4, <2>1, <2>2 DEF Now, World
<1>7. total \in Nat /\ ceiling_w \in Nat /\ hold_updates \in BOOLEAN
  BY MostTypes, HoldsType DEF Init
<1>8. port_limit_w \in [Ports -> Nat] /\ port_max_w \in [Ports -> Nat]
  BY MostTypes DEF Init
<1>9. seated \in [Ports -> BOOLEAN] /\ present \in [Ports -> BOOLEAN]
  <2>1. PICK S \in Seatings : seated = [i \in Ports |-> i \in S]
    BY DEF Init
  <2>2. [i \in Ports |-> i \in S] \in [Ports -> BOOLEAN]
    OBVIOUS
  <2>3. QED
    BY <2>1, <2>2 DEF Init
<1>10. hour \in Nat /\ turn \in 0..Top /\ boots \in Nat
  BY MostTypes DEF Init
<1>11. QED
  BY <1>6, <1>7, <1>8, <1>9, <1>10 DEF TypeOK

LEMMA RebootType ==
    ASSUME TypeOK, Reboot
    PROVE  TypeOK'
<1>1. PICK hold \in Holds, off \in BootOff, read \in {seated, [i \in Ports |-> FALSE]} :
         BootInventory(read, {i \in Ports : en[i]}, off)
         /\ hold_updates' = hold
  BY DEF Reboot
<1> DEFINE powered == {i \in Ports : en[i]}
           admin == [i \in Ports |-> i \notin off]
<1>2. admin \in [Ports -> BOOLEAN] /\ read \in [Ports -> BOOLEAN]
  BY DEF TypeOK
<1> HIDE DEF admin, powered
<1>3. \A i \in Ports : BootCtx(i, read, powered, admin) \in PortCtx
  BY <1>2, BootCtxType
<1>4. BootInventory(read, powered, off)
  BY <1>1 DEF powered
<1>5. ctx' \in [Ports -> PortCtx]
  BY <1>3, <1>4 DEF BootInventory, admin
<1>6. /\ offer \in [Ports -> [w : Nat, v : Nat]] /\ sink \in [Ports -> Nat]
  BY DEF TypeOK, Now, World
<1>7. en' \in [Ports -> BOOLEAN] /\ sink' \in [Ports -> Nat] /\ present' \in [Ports -> BOOLEAN]
  BY <1>2, <1>4, <1>6 DEF BootInventory
<1>8. /\ reserved' \in [Ports -> Nat] /\ mux' \in Ports \cup {None}
      /\ loader_port' \in Ports \cup {None} /\ offer' \in [Ports -> [w : Nat, v : Nat]]
  BY <1>6 DEF Reboot
<1>9. Now' \in World
  BY <1>5, <1>7, <1>8 DEF Now, World
<1>10. /\ total' \in Nat /\ ceiling_w' \in Nat /\ hold_updates' \in BOOLEAN
       /\ port_limit_w' \in [Ports -> Nat] /\ port_max_w' \in [Ports -> Nat]
  BY <1>1, HoldsType DEF TypeOK, Reboot
<1>11. hour' \in Nat /\ turn' \in 0..Top /\ boots' \in Nat /\ seated' \in [Ports -> BOOLEAN]
  BY MostTypes DEF TypeOK, Reboot
<1>12. QED
  BY <1>7, <1>9, <1>10, <1>11 DEF TypeOK

------------------------------------------------------------------------------
(* Type correctness *)

\* What the engine loop and the surroundings leave alone.
LEMMA SettingsType == TypeOK => SettingsOK /\ Now \in World
BY DEF TypeOK, SettingsOK

LEMMA SameWorld ==
    ASSUME UNCHANGED fsm_vars
    PROVE  Now' = Now
BY DEF fsm_vars, Now

LEMMA SurroundingsType ==
    ASSUME TypeOK, NEW i \in Ports, Surroundings(i)
    PROVE  TypeOK'
<1> USE DEF TypeOK
<1>1. /\ offer \in [Ports -> [w : Nat, v : Nat]] /\ sink \in [Ports -> Nat]
      /\ NoOffer \in [w : Nat, v : Nat]
  BY DEF TypeOK, Now, World, NoOffer
<1>2. /\ hour' = hour /\ turn' = turn /\ boots' = boots /\ present' = present
      /\ ctx' = ctx /\ reserved' = reserved /\ en' = en /\ mux' = mux
      /\ loader_port' = loader_port /\ total' = total /\ ceiling_w' = ceiling_w
      /\ hold_updates' = hold_updates
  BY DEF Surroundings, StoreLimit, StoreVolt, Seat, Unseat, Ask, Unplug, Restart,
         Outside, engine_vars, settings
<1>3. port_limit_w' \in [Ports -> Nat] /\ port_max_w' \in [Ports -> Nat]
  BY MostTypes
     DEF Surroundings, StoreLimit, StoreVolt, Seat, Unseat, Ask, Unplug, Restart, settings
<1>4. seated' \in [Ports -> BOOLEAN]
  BY DEF Surroundings, StoreLimit, StoreVolt, Seat, Unseat, Ask, Unplug, Restart
<1>5. offer' \in [Ports -> [w : Nat, v : Nat]]
  BY <1>1 DEF Surroundings, StoreLimit, StoreVolt, Seat, Unseat, Ask, Unplug, Restart
<1>6. sink' \in [Ports -> Nat]
  BY <1>1, MostTypes
     DEF Surroundings, StoreLimit, StoreVolt, Seat, Unseat, Ask, Unplug, Restart
<1>7. Now' \in World
  BY <1>2, <1>5, <1>6 DEF Now, World
<1>8. QED
  BY <1>2, <1>3, <1>4, <1>7

LEMMA EngineType ==
    ASSUME TypeOK, Engine
    PROVE  TypeOK'
<1>1. CASE Dispatch
  <2>1. Now' \in World
    BY <1>1, SettingsType, CommandsType DEF Dispatch
  <2>2. QED
    BY <1>1, <2>1 DEF Dispatch, AtTop, engine_vars, settings, TypeOK
<1>2. CASE AlertSweep
  <2>1. Now' \in World
    BY <1>2, SettingsType, port_fsm_alert_sweepType DEF AlertSweep
  <2>2. QED
    BY <1>2, <2>1 DEF AlertSweep, AtTop, engine_vars, settings, TypeOK
<1>3. CASE SetCeiling \/ SetBudget \/ Committed
  <2>1. UNCHANGED fsm_vars
    BY <1>3 DEF SetCeiling, SetBudget, Committed
  <2>2. Now' \in World
    BY <2>1, SameWorld DEF TypeOK
  <2>3. QED
    BY <1>3, <2>2, MostTypes DEF SetCeiling, SetBudget, Committed, AtTop, engine_vars, TypeOK
<1>4. CASE RefreshPresence
  <2>1. Now' \in World
    BY <1>4, SameWorld DEF RefreshPresence, TypeOK
  <2>2. present' \in [Ports -> BOOLEAN]
    BY <1>4 DEF RefreshPresence, TypeOK
  <2>3. QED
    BY <1>4, <2>1, <2>2 DEF RefreshPresence, settings, TypeOK
<1>5. CASE StartTicks \/ HourPasses
  <2>1. Now' \in World
    BY <1>5, SameWorld DEF StartTicks, HourPasses, TypeOK
  <2>2. QED
    BY <1>5, <2>1, MostTypes DEF StartTicks, HourPasses, settings, engine_vars, TypeOK
<1>6. CASE Reboot
  BY <1>6, RebootType
<1>7. QED
  BY <1>1, <1>2, <1>3, <1>4, <1>5, <1>6 DEF Engine

LEMMA TickStepType ==
    ASSUME TypeOK, Tick
    PROVE  TypeOK'
<1>1. PICK c \in Chances(ctx[turn]) : TickWith(c)
  BY DEF Tick
<1>2. turn \in Ports /\ c \in Chance
  BY <1>1, ChancesType DEF Tick
<1>3. Now' \in World
  BY <1>1, <1>2, SettingsType, TickType DEF TickWith
<1>4. turn' \in 0..Top
  BY <1>1, <1>2, PortsAssumption DEF TickWith, Ports, Top
<1>5. QED
  BY <1>1, <1>3, <1>4 DEF TickWith, settings, TypeOK

\* Every state variable keeps its type: no handler of the port state machine,
\* in whatever order the loop, core 0 and the blades take their steps, takes
\* a counter, a reservation or the bootloader rounds out of their range.
THEOREM TypeCorrect == Spec => []TypeOK
<1>1. Init => TypeOK
  BY InitType
<1>2. TypeOK /\ [Next]_vars => TypeOK'
  <2> SUFFICES ASSUME TypeOK, [Next]_vars PROVE TypeOK'
    OBVIOUS
  <2>1. CASE Tick
    BY <2>1, TickStepType
  <2>2. CASE Engine
    BY <2>2, EngineType
  <2>3. CASE \E i \in Ports : Surroundings(i)
    BY <2>3, SurroundingsType
  <2>4. CASE UNCHANGED vars
    BY <2>4, SameWorld DEF vars, fsm_vars, settings, engine_vars, TypeOK
  <2>5. QED
    BY <2>1, <2>2, <2>3, <2>4 DEF Next, Others
<1>3. QED
  BY <1>1, <1>2, PTL DEF Spec

================================================================================
