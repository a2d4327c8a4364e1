---------------------------- MODULE Grants_proofs ----------------------------
(***************************************************************************)
(* No step grants watts past the budget.  A tick may take a reservation     *)
(* down, put a base reserve in place without asking, and grant a port what *)
(* fits; the proof keeps apart what a handler may do to the reservations:  *)
(*   Small   nothing rises above the base;                                 *)
(*   Lower   nothing rises;                                                *)
(*   Fits    nothing changes, or the account fits the budget afterwards;   *)
(*   Sound   what has risen above the base fits: what the theorem wants.   *)
(* Sound is not transitive (a grant and then an unasked base may exceed the *)
(* budget), so the order the handlers run in matters: no handler of a tick *)
(* puts a base in place once a grant has been made.                        *)
(***************************************************************************)
EXTENDS Chassis_proofs

Account == [Ports -> Nat]

Lower(r, q) == \A j \in Ports : q[j] <= r[j]
Small(r, q) == \A j \in Ports : q[j] <= r[j] \/ q[j] <= BASE_RESERVE
Fits(r, q)  == q = r \/ OverSlots(q) <= total
Sound(r, q) == (\E j \in Ports : q[j] > r[j] /\ q[j] > BASE_RESERVE) => OverSlots(q) <= total

------------------------------------------------------------------------------
(* Sums over the slots *)

LEMMA SixSlots ==
    ASSUME NEW i \in Ports
    PROVE  i = 0 \/ i = 1 \/ i = 2 \/ i = 3 \/ i = 4 \/ i = 5
BY PortsAssumption DEF Ports

LEMMA AtType ==
    ASSUME NEW f \in Account, NEW j
    PROVE  At(f, j) \in Nat /\ (j \in Ports => At(f, j) = f[j])
BY DEF At, Account

\* The account after one port's reservation is set.
LEMMA OneSlot ==
    ASSUME NEW f \in Account, NEW i \in Ports, NEW n \in Nat
    PROVE  OverSlots([f EXCEPT ![i] = n]) = (OverSlots(f) - f[i]) + n
<1> DEFINE g == [f EXCEPT ![i] = n]
<1>1. g \in Account /\ f[i] \in Nat
  BY DEF Account
<1>2. At(g, i) = n /\ At(f, i) = f[i]
  BY DEF At, Account
<1>3. \A j : j # i => At(g, j) = At(f, j)
  BY DEF At, Account
<1> HIDE DEF g
<1>4. \A j : At(f, j) \in Nat /\ At(g, j) \in Nat
  BY <1>1, AtType
<1>5. OverSlots(g) = (OverSlots(f) - At(f, i)) + At(g, i)
  <2>1. CASE i = 0
    BY <1>3, <1>4, <2>1 DEF OverSlots
  <2>2. CASE i = 1
    BY <1>3, <1>4, <2>2 DEF OverSlots
  <2>3. CASE i = 2
    BY <1>3, <1>4, <2>3 DEF OverSlots
  <2>4. CASE i = 3
    BY <1>3, <1>4, <2>4 DEF OverSlots
  <2>5. CASE i = 4
    BY <1>3, <1>4, <2>5 DEF OverSlots
  <2>6. CASE i = 5
    BY <1>3, <1>4, <2>6 DEF OverSlots
  <2>7. QED
    BY SixSlots, <2>1, <2>2, <2>3, <2>4, <2>5, <2>6
<1>6. QED
  BY <1>2, <1>5 DEF g

LEMMA FewerWatts ==
    ASSUME NEW f \in Account, NEW g \in Account, Lower(f, g)
    PROVE  OverSlots(g) <= OverSlots(f)
<1>1. \A j : At(g, j) <= At(f, j)
  BY DEF At, Account, Lower
<1>2. \A j : At(f, j) \in Nat /\ At(g, j) \in Nat
  BY AtType
<1>3. QED
  BY <1>1, <1>2 DEF OverSlots

------------------------------------------------------------------------------
(* One handler after the other *)

LEMMA LowerSmall ==
    ASSUME NEW r \in Account, NEW q \in Account
    PROVE  /\ r = q => Lower(r, q)
           /\ Lower(r, q) => Small(r, q)
           /\ Small(r, q) => Sound(r, q)
           /\ Fits(r, q) => Sound(r, q)
BY NatParameters DEF Lower, Small, Fits, Sound, Account

LEMMA LowerLower ==
    ASSUME NEW r \in Account, NEW q \in Account, NEW p \in Account, Lower(r, q), Lower(q, p)
    PROVE  Lower(r, p)
BY DEF Lower, Account

LEMMA SmallSmall ==
    ASSUME NEW r \in Account, NEW q \in Account, NEW p \in Account, Small(r, q), Small(q, p)
    PROVE  Small(r, p)
BY NatParameters DEF Small, Account

LEMMA SmallSound ==
    ASSUME NEW r \in Account, NEW q \in Account, NEW p \in Account, Small(r, q), Sound(q, p)
    PROVE  Sound(r, p)
BY NatParameters DEF Small, Sound, Account

LEMMA SoundLower ==
    ASSUME NEW r \in Account, NEW q \in Account, NEW p \in Account, total \in Nat,
           Sound(r, q), Lower(q, p)
    PROVE  Sound(r, p)
<1> SUFFICES ASSUME NEW j \in Ports, p[j] > r[j], p[j] > BASE_RESERVE
             PROVE  OverSlots(p) <= total
  BY DEF Sound
<1>1. q[j] > r[j] /\ q[j] > BASE_RESERVE
  BY NatParameters DEF Lower, Account
<1>2. OverSlots(q) <= total
  BY <1>1 DEF Sound
<1>3. OverSlots(p) \in Nat /\ OverSlots(q) \in Nat /\ OverSlots(p) <= OverSlots(q)
  BY FewerWatts, OverSlotsNat DEF Account
<1>4. QED
  BY <1>2, <1>3

LEMMA SoundFits ==
    ASSUME NEW r \in Account, NEW q \in Account, NEW p \in Account, Sound(r, q), Fits(q, p)
    PROVE  Sound(r, p)
BY DEF Sound, Fits

LEMMA OneLower ==
    ASSUME NEW r \in Account, NEW i \in Ports
    PROVE  Lower(r, [r EXCEPT ![i] = 0]) /\ [r EXCEPT ![i] = 0] \in Account
BY DEF Lower, Account

LEMMA OneBase ==
    ASSUME NEW r \in Account, NEW i \in Ports
    PROVE  Small(r, [r EXCEPT ![i] = BASE_RESERVE]) /\ [r EXCEPT ![i] = BASE_RESERVE] \in Account
BY NatParameters DEF Small, Account

------------------------------------------------------------------------------
(* What the handlers do to the reservations *)

LEMMA AccountType ==
    ASSUME NEW s \in World
    PROVE  s.res \in Account
BY DEF World, Account

LEMMA SelectRes ==
    ASSUME NEW s \in World, NEW i \in Ports, NEW b \in BusOutcomes
    PROVE  Select(s, i, b).res = s.res
BY DEF Select, World

LEMMA set_limitsRes ==
    ASSUME NEW s \in World, NEW i \in Ports, NEW w \in Nat, NEW v \in Nat,
           NEW r \in BOOLEAN, NEW b \in BusOutcomes
    PROVE  set_limits(s, i, w, v, r, b).res = s.res
<1>1. WriteLimits(s, i, w, v, b) \in World /\ WriteLimits(s, i, w, v, b).res = s.res
  BY WriteLimitsType
<1>2. QED
  BY <1>1 DEF set_limits, World

LEMMA sync_limitRes ==
    ASSUME SettingsOK, NEW s \in World, NEW i \in Ports, NEW b \in BusOutcomes
    PROVE  sync_limit(s, i, b).res = s.res
<1> DEFINE t == set_limits(s, i, limit_for(i), port_max_w[i], s.ctx[i].st.attached, b)
<1>1. s.ctx[i].st.attached \in BOOLEAN
  BY PartsType, CtxParts
<1>2. t \in World /\ t.res = s.res
  BY <1>1, LimitType, set_limitsType, set_limitsRes
<1>3. sync_limit(s, i, b) \in {s, [t EXCEPT !.ctx[i].granted = limit_for(i)]}
  BY DEF sync_limit
<1> HIDE DEF t
<1>4. [t EXCEPT !.ctx[i].granted = limit_for(i)].res = t.res
  BY <1>2 DEF World
<1>5. QED
  BY <1>2, <1>3, <1>4

LEMMA enterRes ==
    ASSUME NEW s \in World, NEW i \in Ports, NEW next
    PROVE  enter(s, i, next).res = s.res
BY DEF enter, World

LEMMA go_idleRes ==
    ASSUME NEW s \in World, NEW i \in Ports
    PROVE  go_idle(s, i).res = s.res
BY enterRes DEF go_idle

LEMMA start_probeRes ==
    ASSUME NEW s \in World, NEW i \in Ports
    PROVE  start_probe(s, i).res = s.res
<1> DEFINE p == Fresh(s.ctx[i])
           t == [s EXCEPT !.ctx[i] = p]
<1>1. p \in PortCtx
  BY PartsType, FreshType
<1> HIDE DEF p
<1>2. t \in World /\ t.res = s.res
  BY <1>1, CtxUpdate DEF World
<1>3. start_probe(s, i) = enter(t, i, "PROBE")
  BY DEF start_probe, p
<1> HIDE DEF t
<1>4. QED
  BY <1>2, <1>3, enterRes

LEMMA EnOffRes ==
    ASSUME NEW s \in World, NEW i \in Ports, NEW b \in BusOutcomes
    PROVE  EnOff(s, i, b).res = s.res /\ BladeDown(s, i).res = s.res
BY DEF EnOff, BladeDown, World

LEMMA power_downRes ==
    ASSUME NEW s \in World, NEW i \in Ports, NEW next \in States, NEW b \in BusOutcomes
    PROVE  power_down(s, i, next, b).res = [s.res EXCEPT ![i] = 0]
<1> DEFINE p == Unpowered(s.ctx[i], next)
           e == EnOff(s, i, b)
           t == [e EXCEPT !.res[i] = 0, !.ctx[i] = p]
<1>1. e \in World /\ p \in PortCtx /\ e.res = s.res
  BY PartsType, EnOffType, UnpoweredType, EnOffRes
<1>2. power_down(s, i, next, b) = enter(t, i, next)
  BY DEF power_down
<1> HIDE DEF p, e
<1>3. t \in World /\ t.res = [s.res EXCEPT ![i] = 0]
  BY <1>1, CtxResUpdate DEF World
<1> HIDE DEF t
<1>4. QED
  BY <1>2, <1>3, enterRes

LEMMA faultRes ==
    ASSUME NEW s \in World, NEW i \in Ports, NEW b \in BusOutcomes
    PROVE  fault(s, i, b).res = [s.res EXCEPT ![i] = 0]
<1> DEFINE t == power_down(s, i, "FAULT", b)
<1>1. t \in World /\ t.res = [s.res EXCEPT ![i] = 0]
  BY StateNames, power_downType, power_downRes
<1>2. fault(s, i, b) = [t EXCEPT !.ctx[i].cooling = TRUE]
  BY DEF fault
<1> HIDE DEF t
<1>3. [t EXCEPT !.ctx[i].cooling = TRUE].res = t.res
  BY <1>1 DEF World
<1>4. QED
  BY <1>1, <1>2, <1>3

LEMMA probe_failedRes ==
    ASSUME NEW s \in World, NEW i \in Ports, NEW late \in BOOLEAN, NEW b \in BusOutcomes
    PROVE  Lower(s.res, probe_failed(s, i, late, b).res)
<1> DEFINE p == [s.ctx[i] EXCEPT !.switching = FALSE, !.attempts = @ + 1]
           q == [p EXCEPT !.warm = FALSE]
           t == [s EXCEPT !.ctx[i] = q]
<1>1. p \in PortCtx
  BY ProbeCtx, PartsType
<1> HIDE DEF p
<1>2. q \in PortCtx
  BY FlagCtx, <1>1
<1> USE DEF p
<1>3. probe_failed(s, i, late, b) \in {s, [s EXCEPT !.ctx[i] = p], fault(t, i, b)}
  BY DEF probe_failed
<1> HIDE DEF p, q
<1>4. t \in World /\ t.res = s.res
  BY <1>2, CtxUpdate DEF World
<1> HIDE DEF t
<1>5. fault(t, i, b).res = [s.res EXCEPT ![i] = 0]
  BY <1>4, faultRes
<1>6. probe_failed(s, i, late, b).res \in {s.res, [s.res EXCEPT ![i] = 0]}
  <2>1. [s EXCEPT !.ctx[i] = p].res = s.res
    BY DEF World
  <2>2. QED
    BY <1>3, <1>5, <2>1
<1>7. QED
  BY <1>6, AccountType, OneLower, LowerSmall

LEMMA warm_probe_failedRes ==
    ASSUME NEW s \in World, NEW i \in Ports, NEW late \in BOOLEAN
    PROVE  Small(s.res, warm_probe_failed(s, i, late).res)
<1> DEFINE p == [s.ctx[i] EXCEPT !.switching = FALSE, !.attempts = @ + 1]
           q == [p EXCEPT !.silent = TRUE]
<1>1. warm_probe_failed(s, i, late) \in
        {s, [s EXCEPT !.ctx[i] = p], [s EXCEPT !.ctx[i].switching = FALSE],
         [s EXCEPT !.ctx[i] = q, !.res[i] = BASE_RESERVE]}
  BY DEF warm_probe_failed
<1> HIDE DEF p, q
<1>2. [s EXCEPT !.ctx[i] = q, !.res[i] = BASE_RESERVE].res = [s.res EXCEPT ![i] = BASE_RESERVE]
  BY DEF World
<1>3. warm_probe_failed(s, i, late).res \in {s.res, [s.res EXCEPT ![i] = BASE_RESERVE]}
  <2>1. /\ [s EXCEPT !.ctx[i] = p].res = s.res
        /\ [s EXCEPT !.ctx[i].switching = FALSE].res = s.res
    BY DEF World
  <2>2. QED
    BY <1>1, <1>2, <2>1
<1>4. QED
  BY <1>3, AccountType, OneBase, LowerSmall

LEMMA attach_beginRes ==
    ASSUME NEW s \in World, NEW i \in Ports
    PROVE  attach_begin(s, i).res = s.res
BY DEF attach_begin, World

LEMMA auto_offRes ==
    ASSUME NEW s \in World, NEW i \in Ports, NEW b \in BusOutcomes
    PROVE  /\ switch_off(s, i, b).res = [s.res EXCEPT ![i] = 0]
           /\ auto_off(s, i, b).res = [s.res EXCEPT ![i] = 0]
<1> DEFINE t == [s EXCEPT !.ctx[i].admin = FALSE]
<1>1. t \in World /\ t.res = s.res
  BY AdminUpdate DEF World
<1>2. switch_off(s, i, b) = power_down(s, i, "DISABLED", b)
      /\ auto_off(s, i, b) = power_down(t, i, "DISABLED", b)
  BY DEF switch_off, auto_off
<1> HIDE DEF t
<1>3. "DISABLED" \in States
  BY StateNames
<1>4. power_down(s, i, "DISABLED", b).res = [s.res EXCEPT ![i] = 0]
  BY <1>3, power_downRes
<1>5. power_down(t, i, "DISABLED", b).res = [t.res EXCEPT ![i] = 0]
  BY <1>1, <1>3, power_downRes
<1>6. QED
  BY <1>1, <1>2, <1>4, <1>5

------------------------------------------------------------------------------
(* Bootloader trips *)

LEMMA begin_updateRes ==
    ASSUME NEW s \in World, NEW i \in Ports, NEW b \in BusOutcomes
    PROVE  Lower(s.res, begin_update(s, i, b).res)
<1> DEFINE p == [s.ctx[i] EXCEPT !.warm = FALSE, !.silent = FALSE]
           dark == BladeDown(EnOff(s, i, b), i)
           q == [p EXCEPT !.held = TRUE]
           r == [p EXCEPT !.rounds = @ + 1, !.rewrite = FALSE]
           t == [dark EXCEPT !.ctx[i] = q]
           u == [dark EXCEPT !.ctx[i] = r]
<1>0. \A x \in PortCtx : [x EXCEPT !.warm = FALSE, !.silent = FALSE] \in PortCtx
  BY ZenonT(40) DEF PortCtx
<1>1. p \in PortCtx
  BY <1>0, PartsType
<1>2. dark \in World /\ dark.res = s.res
  <2>1. EnOff(s, i, b) \in World /\ EnOff(s, i, b).res = s.res
    BY EnOffType, EnOffRes
  <2>2. QED
    BY <2>1, BladeDownType, EnOffRes
<1>3. begin_update(s, i, b) \in {fault(t, i, b), enter(u, i, "UPDATE")}
  BY DEF begin_update
<1> HIDE DEF p, dark
<1>4. q \in PortCtx
  BY <1>1, FlagCtx
<1> HIDE DEF q
<1>5. t \in World /\ t.res = s.res
  BY <1>2, <1>4, CtxUpdate DEF World
<1> HIDE DEF t, r
<1>6. enter(u, i, "UPDATE").res = s.res
  BY <1>2 DEF enter, World
<1>7. fault(t, i, b).res = [s.res EXCEPT ![i] = 0]
  BY <1>5, faultRes
<1> HIDE DEF u
<1>8. begin_update(s, i, b).res \in {s.res, [s.res EXCEPT ![i] = 0]}
  BY <1>3, <1>6, <1>7
<1>9. QED
  BY <1>8, AccountType, OneLower, LowerSmall

LEMMA RebootsRes ==
    ASSUME NEW s \in World, NEW i \in Ports
    PROVE  Reboots(s, i).res = s.res
BY DEF Reboots, BladeDown, World

LEMMA send_to_loaderRes ==
    ASSUME NEW s \in World, NEW i \in Ports, NEW b \in BusOutcomes
    PROVE  Lower(s.res, send_to_loader(s, i, b).res)
<1> DEFINE p == s.ctx[i]
           boot_opt == "boot_opt" \in blade_wants(p)
           sent == [Released(p) EXCEPT !.rounds = IF boot_opt THEN @ + 1 ELSE @]
           gone == [Reboots(s, i) EXCEPT !.res[i] = 0, !.ctx[i] = sent]
           again == [start_probe(gone, i) EXCEPT !.ctx[i].switching = TRUE]
           stuck == [p EXCEPT !.stuck = TRUE, !.rewrite = FALSE, !.rounds = 0]
           kept == [s EXCEPT !.ctx[i] = stuck]
<1>1. CASE Sends(s, i, b)
  <2>1. send_to_loader(s, i, b) = again
    <3>1. p.rounds < UPDATE_ROUNDS_MAX /\ p.rounds \in 0..UPDATE_ROUNDS_MAX
      BY <1>1, PartsType, CtxParts DEF Sends
    <3>2. ~(p.rounds >= UPDATE_ROUNDS_MAX)
      BY <3>1, NatParameters
    <3>3. QED
      BY <1>1, <3>2 DEF send_to_loader
  <2>2. gone.res = [s.res EXCEPT ![i] = 0]
    BY RebootsType, RebootsRes DEF World
  <2> HIDE DEF sent
  <2>3. again.res = gone.res
    BY RebootsType DEF start_probe, enter, World
  <2> HIDE DEF again, gone
  <2>4. QED
    BY <2>1, <2>2, <2>3, AccountType, OneLower
<1>2. CASE ~Sends(s, i, b)
  <2>1. send_to_loader(s, i, b) \in {s, kept}
    BY <1>2 DEF send_to_loader
  <2>2. kept.res = s.res
    BY DEF World
  <2> HIDE DEF kept
  <2>3. QED
    BY <2>1, <2>2, AccountType, LowerSmall
<1>3. QED
  BY <1>1, <1>2

------------------------------------------------------------------------------
(* Sharing the budget *)

LEMMA apply_throttleRes ==
    ASSUME SettingsOK, NEW s \in World, NEW i \in Ports, NEW grant \in Nat, NEW want \in Nat,
           NEW b \in BusOutcomes
    PROVE  apply_throttle(s, i, grant, want, b).res = [s.res EXCEPT ![i] = grant]
<1> DEFINE g == ThrottleLimit(i, grant)
           t == WriteLimits(s, i, g, port_max_w[i], b)
           p == ThrottledCtx(s.ctx[i], i, grant, want)
<1>1. t \in World /\ t.res = s.res
  <2>1. g \in Nat /\ port_max_w[i] \in Nat
    BY ThrottleLimitType, LimitType
  <2>2. QED
    BY <2>1, WriteLimitsType
<1>2. apply_throttle(s, i, grant, want, b) = [t EXCEPT !.ctx[i] = p, !.res[i] = grant]
  BY DEF apply_throttle
<1> HIDE DEF t, p
<1>3. [t EXCEPT !.ctx[i] = p, !.res[i] = grant].res = [t.res EXCEPT ![i] = grant]
  BY <1>1 DEF World
<1>4. QED
  BY <1>1, <1>2, <1>3

\* A throttled port gets the base, or what it has with the headroom on top.
LEMMA throttleRes ==
    ASSUME SettingsOK, NEW s \in World, NEW i \in Ports, NEW want \in Nat, NEW b \in BusOutcomes
    PROVE  Sound(s.res, throttle(s, i, want, b).res)
<1> DEFINE head == budget_headroom(s.res, total)
           room == head + s.res[i]
           floor == IF room < BASE_RESERVE THEN BASE_RESERVE ELSE room
           n == Least(floor, want)
           q == [s.res EXCEPT ![i] = n]
<1>1. head \in Nat /\ s.res[i] \in Nat /\ OverSlots(s.res) \in Nat /\ total \in Nat
  BY HeadroomType, PartsType DEF budget_reserved, SettingsOK
<1>2. head > 0 => OverSlots(s.res) + head = total
  BY <1>1 DEF budget_headroom, budget_reserved
<1>3. throttle(s, i, want, b) = apply_throttle(s, i, n, want, b)
  BY DEF throttle
<1> HIDE DEF head
<1>4. n \in Nat /\ (n <= BASE_RESERVE \/ n <= head + s.res[i])
  BY <1>1, NatParameters DEF Least
<1> HIDE DEF n
<1>5. throttle(s, i, want, b).res = q
  BY <1>3, <1>4, apply_throttleRes
<1>6. s.res \in Account
  BY AccountType
<1>7. OverSlots(q) = (OverSlots(s.res) - s.res[i]) + n
  BY <1>4, <1>6, OneSlot
<1>8. SUFFICES ASSUME NEW j \in Ports, q[j] > s.res[j], q[j] > BASE_RESERVE
               PROVE  OverSlots(q) <= total
  BY <1>5 DEF Sound
<1>9. j = i /\ q[j] = n
  BY <1>6, <1>8 DEF Account
<1>10. n > s.res[i] /\ n > BASE_RESERVE
  BY <1>8, <1>9
<1> HIDE DEF q
<1>11. QED
  BY <1>1, <1>2, <1>4, <1>7, <1>10, NatParameters

LEMMA shed_lower_priorityRes ==
    ASSUME SettingsOK, NEW s \in World, NEW i \in Ports, NEW want \in Nat, NEW b \in BusOutcomes
    PROVE  Lower(s.res, shed_lower_priority(s, i, want, b).res)
<1> DEFINE V == Victims(s, i) \cap b.reach
           take == [v \in Ports |-> Reclaim(s, i, want, V, v)]
           grant == [v \in Ports |-> s.res[v] - take[v]]
<1>1. shed_lower_priority(s, i, want, b).res = grant
  BY DEF shed_lower_priority, World
<1>2. V \in SUBSET Victims(s, i)
  OBVIOUS
<1>3. \A v \in Ports : Reclaim(s, i, want, V, v) \in Nat
  BY <1>2, ReclaimBound
<1>4. \A v \in Ports : grant[v] = s.res[v] - Reclaim(s, i, want, V, v)
  OBVIOUS
<1> HIDE DEF V, grant
<1>5. \A v \in Ports : grant[v] <= s.res[v]
  BY <1>3, <1>4, PartsType
<1>6. QED
  BY <1>1, <1>5 DEF Lower

LEMMA track_contractRes ==
    ASSUME SettingsOK, NEW s \in World, NEW i \in Ports, NEW late \in BOOLEAN, NEW b \in BusOutcomes
    PROVE  Sound(s.res, track_contract(s, i, late, b).res)
<1> DEFINE p == s.ctx[i]
           want == IF p.st.contract < BASE_RESERVE THEN BASE_RESERVE ELSE p.st.contract
           heard == [s EXCEPT !.ctx[i].renegotiating = FALSE]
           shed == IF budget_fits(s.res, total, i, want) THEN heard
                   ELSE shed_lower_priority(heard, i, want, b)
           given == [shed EXCEPT !.res[i] = want, !.ctx[i].contract = want]
           cut == throttle(shed, i, want, b)
<1>1. want \in Nat
  BY PartsType, CtxParts, NatParameters
<1>2. heard \in World /\ heard.res = s.res
  BY RenegotiatingUpdate DEF World
<1>3. \/ track_contract(s, i, late, b) \in {s, heard, cut}
      \/ budget_fits(shed.res, total, i, want) /\ track_contract(s, i, late, b) = given
  BY DEF track_contract
<1> HIDE DEF want, heard
<1>4. shed \in World /\ Lower(s.res, shed.res)
  BY <1>1, <1>2, AccountType, LowerSmall, shed_lower_priorityType, shed_lower_priorityRes
<1> HIDE DEF shed
<1>5. s.res \in Account /\ shed.res \in Account /\ total \in Nat
  BY <1>4, AccountType DEF SettingsOK
<1>6. Small(s.res, shed.res)
  BY <1>4, <1>5, LowerSmall
<1>7. CASE track_contract(s, i, late, b) \in {s, heard}
  BY <1>2, <1>5, <1>7, LowerSmall
<1>8. CASE track_contract(s, i, late, b) = cut
  <2>1. cut \in World /\ Sound(shed.res, cut.res)
    BY <1>1, <1>4, throttleType, throttleRes
  <2>2. cut.res \in Account
    BY <2>1, AccountType
  <2>3. QED
    BY <1>5, <1>6, <1>8, <2>1, <2>2, SmallSound
<1>9. CASE budget_fits(shed.res, total, i, want) /\ track_contract(s, i, late, b) = given
  <2> DEFINE q == [shed.res EXCEPT ![i] = want]
  <2>1. given.res = q
    BY <1>4 DEF World
  <2>2. OverSlots(q) = (OverSlots(shed.res) - shed.res[i]) + want
    BY <1>1, <1>5, OneSlot
  <2>3. q \in Account
    BY <1>1, <1>5 DEF Account
  <2> HIDE DEF given, q
  <2>4. OverSlots(q) <= total
    BY <1>9, <2>2 DEF budget_fits, budget_reserved
  <2>5. Sound(shed.res, q)
    BY <2>4 DEF Sound
  <2>6. QED
    BY <1>5, <1>6, <1>9, <2>1, <2>3, <2>5, SmallSound
<1>10. QED
  BY <1>3, <1>7, <1>8, <1>9

LEMMA unthrottleRes ==
    ASSUME SettingsOK, NEW s \in World, NEW i \in Ports, NEW b \in BusOutcomes
    PROVE  unthrottle(s, i, b).res = s.res
<1> DEFINE yes == TRUE
           t == set_limits(s, i, limit_for(i), port_max_w[i], yes, b)
           u == [t EXCEPT !.ctx[i].granted = limit_for(i)]
<1>1. t \in World /\ t.res = s.res
  <2>1. limit_for(i) \in Nat /\ port_max_w[i] \in Nat /\ yes \in BOOLEAN
    BY LimitType
  <2> HIDE DEF yes
  <2>2. t \in World
    BY <2>1, set_limitsType
  <2>3. t.res = s.res
    BY <2>1, set_limitsRes
  <2>4. QED
    BY <2>2, <2>3
<1> HIDE DEF t
<1>2. u \in World /\ u.res = s.res
  BY <1>1, LimitType, GrantedUpdate DEF World
<1>3. unthrottle(s, i, b) \in {enter(s, i, "ACTIVE"), enter(u, i, "ACTIVE")}
  BY DEF unthrottle, t
<1> HIDE DEF u
<1>4. QED
  BY <1>2, <1>3, enterRes

\* What the recovery gives back, it has found in the headroom.
LEMMA RecoverRes ==
    ASSUME SettingsOK, NEW s \in World, NEW i \in Ports, NEW due \in BOOLEAN, NEW b \in BusOutcomes
    PROVE  Fits(s.res, Recover(s, i, due, b).res)
<1> DEFINE n == s.ctx[i].denied
           room == budget_headroom(s.res, total)
           more == s.res[i] + room
           all == [s EXCEPT !.res[i] = n, !.ctx[i].contract = n, !.ctx[i].denied = 0]
<1>1. n \in Nat /\ room \in Nat /\ s.res[i] \in Nat /\ OverSlots(s.res) \in Nat /\ total \in Nat
  BY HeadroomType, PartsType, CtxParts DEF budget_reserved, SettingsOK
<1>2. room > 0 => OverSlots(s.res) + room = total
  BY <1>1 DEF budget_headroom, budget_reserved
<1>3. \/ Recover(s, i, due, b) = s
      \/ n - s.res[i] > 0 /\ room >= n - s.res[i] /\ Recover(s, i, due, b) = unthrottle(all, i, b)
      \/ room >= UNTHROTTLE_STEP_MIN /\ Recover(s, i, due, b) = apply_throttle(s, i, more, n, b)
  BY DEF Recover
<1> HIDE DEF n, room
<1>4. s.res \in Account
  BY AccountType
<1>5. CASE Recover(s, i, due, b) = s
  BY <1>5 DEF Fits
<1>6. CASE n - s.res[i] > 0 /\ room >= n - s.res[i] /\ Recover(s, i, due, b) = unthrottle(all, i, b)
  <2>1. all \in World
    BY <1>1, ContractUpdate
  <2>2. all.res = [s.res EXCEPT ![i] = n]
    BY DEF World
  <2> HIDE DEF all
  <2>3. Recover(s, i, due, b).res = [s.res EXCEPT ![i] = n]
    BY <1>6, <2>1, <2>2, unthrottleRes
  <2>4. OverSlots([s.res EXCEPT ![i] = n]) = (OverSlots(s.res) - s.res[i]) + n
    BY <1>1, <1>4, OneSlot
  <2>5. (OverSlots(s.res) - s.res[i]) + n <= total
    BY <1>1, <1>2, <1>6
  <2>6. QED
    BY <2>3, <2>4, <2>5 DEF Fits
<1>7. CASE room >= UNTHROTTLE_STEP_MIN /\ Recover(s, i, due, b) = apply_throttle(s, i, more, n, b)
  <2>1. more \in Nat /\ more = s.res[i] + room
    BY <1>1
  <2> HIDE DEF more
  <2>2. Recover(s, i, due, b).res = [s.res EXCEPT ![i] = more]
    BY <1>1, <1>7, <2>1, apply_throttleRes
  <2>3. OverSlots([s.res EXCEPT ![i] = more]) = (OverSlots(s.res) - s.res[i]) + more
    BY <1>4, <2>1, OneSlot
  <2>4. (OverSlots(s.res) - s.res[i]) + more <= total
    BY <1>1, <1>2, <1>7, <2>1, FsmAssumption
  <2>5. QED
    BY <2>2, <2>3, <2>4 DEF Fits
<1>8. QED
  BY <1>3, <1>5, <1>6, <1>7

------------------------------------------------------------------------------
(* A powered port's tick: a grant, if any, comes after every unasked base *)

LEMMA charge_trackRes ==
    ASSUME NEW s \in World, NEW i \in Ports, NEW charge, NEW b \in BusOutcomes
    PROVE  Lower(s.res, charge_track(s, i, charge, b).res)
<1>1. /\ [s EXCEPT !.ctx[i].charged = TRUE].res = s.res
      /\ [s EXCEPT !.ctx[i].charged = FALSE].res = s.res
  BY DEF World
<1>2. charge_track(s, i, charge, b) \in
        {s, [s EXCEPT !.ctx[i].charged = TRUE], [s EXCEPT !.ctx[i].charged = FALSE],
         auto_off(s, i, b)}
  BY DEF charge_track
<1>3. charge_track(s, i, charge, b).res \in {s.res, [s.res EXCEPT ![i] = 0]}
  <2>1. auto_off(s, i, b).res = [s.res EXCEPT ![i] = 0]
    BY auto_offRes
  <2>2. QED
    BY <1>1, <1>2, <2>1
<1>4. QED
  BY <1>3, AccountType, OneLower, LowerSmall

LEMMA ServeIdleRes ==
    ASSUME SettingsOK, NEW s \in World, NEW i \in Ports, NEW c \in Chance, NEW b \in BusOutcomes
    PROVE  Sound(s.res, ServeIdle(s, i, c, b).res)
<1> DEFINE t == sync_limit(s, i, b)
           k == attach_begin(t, i)
           a == enter(k, i, "ACTIVE")
           l == send_to_loader(t, i, b)
           r == track_contract(a, i, FALSE, b)
<1>1. t \in World /\ t.res = s.res
  BY sync_limitType, sync_limitRes
<1>2. ServeIdle(s, i, c, b) \in {t, l, r}
  BY DEF ServeIdle
<1> HIDE DEF t
<1>3. k \in World /\ k.res = s.res
  BY <1>1, attach_beginType, attach_beginRes
<1> HIDE DEF k
<1>4. a \in World /\ a.res = s.res
  BY <1>3, StateNames, enterType, enterRes
<1> HIDE DEF a
<1>5. Sound(s.res, r.res)
  BY <1>4, track_contractRes
<1>6. Lower(s.res, l.res) /\ l.res \in Account
  BY <1>1, send_to_loaderRes, send_to_loaderType, AccountType
<1>7. Sound(s.res, l.res) /\ Sound(s.res, s.res)
  BY <1>6, AccountType, LowerSmall
<1> HIDE DEF l, r
<1>8. QED
  BY <1>1, <1>2, <1>5, <1>7

LEMMA ServeAttachedRes ==
    ASSUME SettingsOK, NEW s \in World, NEW i \in Ports, NEW c \in Chance, NEW b \in BusOutcomes
    PROVE  Sound(s.res, ServeAttached(s, i, c, b).res)
<1> DEFINE l == sync_limit(s, i, b)
           late == c.late /\ l.ctx[i].granted = s.ctx[i].granted
           t == track_contract(l, i, late, b)
           u == charge_track(t, i, c.charge, b)
           v == send_to_loader(u, i, b)
           r == Recover(u, i, c.due, b)
           w == Recover(v, i, c.due, b)
<1>1. c.late \in BOOLEAN /\ c.due \in BOOLEAN
  BY DEF Chance
<1>2. late \in BOOLEAN
  BY <1>1
<1>3. ServeAttached(s, i, c, b) \in {u, v, r, w}
  BY DEF ServeAttached
<1> HIDE DEF late
<1>4. l \in World /\ l.res = s.res
  BY sync_limitType, sync_limitRes
<1> HIDE DEF l
<1>5. t \in World /\ Sound(s.res, t.res)
  BY <1>2, <1>4, track_contractType, track_contractRes
<1> HIDE DEF t
<1>6. u \in World /\ Lower(t.res, u.res)
  BY <1>5, charge_trackType, charge_trackRes
<1> HIDE DEF u
<1>7. v \in World /\ Lower(u.res, v.res)
  BY <1>6, send_to_loaderType, send_to_loaderRes
<1> HIDE DEF v
<1>8. /\ r \in World /\ Fits(u.res, r.res)
      /\ w \in World /\ Fits(v.res, w.res)
  BY <1>1, <1>6, <1>7, RecoverType, RecoverRes
<1> HIDE DEF r, w
<1>9. /\ s.res \in Account /\ t.res \in Account /\ u.res \in Account
      /\ v.res \in Account /\ r.res \in Account /\ w.res \in Account /\ total \in Nat
  BY <1>5, <1>6, <1>7, <1>8, AccountType DEF SettingsOK
<1>10. Sound(s.res, u.res)
  BY <1>5, <1>6, <1>9, SoundLower
<1>11. Sound(s.res, v.res)
  BY <1>7, <1>9, <1>10, SoundLower
<1>12. Sound(s.res, r.res) /\ Sound(s.res, w.res)
  BY <1>8, <1>9, <1>10, <1>11, SoundFits
<1>13. QED
  BY <1>3, <1>10, <1>11, <1>12

LEMMA ServeRes ==
    ASSUME SettingsOK, NEW s \in World, NEW i \in Ports, NEW c \in Chance, NEW b \in BusOutcomes
    PROVE  Sound(s.res, Serve(s, i, c, b).res)
<1> DEFINE e == Detached(s, i)
           d == sync_limit(e, i, b)
           g == go_idle(d, i)
<1>1. e \in World /\ e.res = [s.res EXCEPT ![i] = BASE_RESERVE]
  BY DetachedType, ZenonT(40) DEF Detached, World
<1>2. Serve(s, i, c, b) \in {ServeIdle(s, i, c, b), ServeAttached(s, i, c, b), g}
  BY DEF Serve
<1> HIDE DEF e
<1>3. d \in World /\ d.res = e.res
  BY <1>1, sync_limitType, sync_limitRes
<1> HIDE DEF d
<1>4. g.res = [s.res EXCEPT ![i] = BASE_RESERVE]
  BY <1>1, <1>3, go_idleRes
<1> HIDE DEF g
<1>5. Sound(s.res, g.res)
  BY <1>4, AccountType, OneBase, LowerSmall
<1>6. QED
  BY <1>2, <1>5, ServeIdleRes, ServeAttachedRes

LEMMA HeardRes ==
    ASSUME SettingsOK, NEW s \in World, NEW i \in Ports
    PROVE  /\ Heard(s, i).res = s.res
           /\ Readopted(s, i).res = s.res
           /\ Recheck(s, i).res = s.res
           /\ Probing(i).res = Now.res
<1>1. Heard(s, i).res = s.res
  BY DEF Heard, World
<1>2. Readopted(s, i).res = s.res
  BY DEF Readopted, World
<1>3. Recheck(s, i).res = s.res
  BY DEF Recheck, World
<1>4. Probing(i).res = Now.res
  BY DEF Probing, Now
<1>5. QED
  BY <1>1, <1>2, <1>3, <1>4

LEMMA ReprobedRes ==
    ASSUME NEW s \in World, NEW i \in Ports
    PROVE  Small(s.res, Reprobed(s, i).res)
<1> DEFINE t == [s EXCEPT !.res[i] = BASE_RESERVE, !.ctx[i].contract = 0]
<1>1. t \in World
  BY NatParameters, ContractUpdate
<1>2. t.res = [s.res EXCEPT ![i] = BASE_RESERVE]
  BY DEF World
<1>3. Reprobed(s, i) = start_probe(t, i)
  BY DEF Reprobed
<1> HIDE DEF t
<1>4. Reprobed(s, i).res = [s.res EXCEPT ![i] = BASE_RESERVE]
  BY <1>1, <1>2, <1>3, start_probeRes
<1>5. QED
  BY <1>4, AccountType, OneBase

LEMMA blade_silentRes ==
    ASSUME SettingsOK, NEW s \in World, NEW i \in Ports, NEW loader \in BOOLEAN,
           NEW c \in Chance, NEW b \in BusOutcomes
    PROVE  Sound(s.res, blade_silent(s, i, loader, c, b).res)
<1> DEFINE p == s.ctx[i]
           more == p.polls + 1
           n == IF p.silent THEN p.polls ELSE more
           m == [p EXCEPT !.polls = more]
           q == [p EXCEPT !.silent = TRUE, !.polls = n]
           r == Released(p)
           missed == [s EXCEPT !.ctx[i] = m]
           quiet == [s EXCEPT !.ctx[i] = q]
           gone == [s EXCEPT !.res[i] = 0, !.ctx[i] = r]
           loads == begin_update(gone, i, b)
           serves == Serve(missed, i, c, b)
<1>1. p \in PortCtx /\ p.polls \in Nat
  BY PartsType, CtxParts
<1>2. more \in Nat /\ n \in Nat
  BY <1>1
<1>3. [s EXCEPT !.ctx[i].polls = @ + 1] = missed
  BY DEF World
<1>4. [s EXCEPT !.ctx[i].silent = TRUE, !.ctx[i].polls = IF p.silent THEN @ ELSE @ + 1] = quiet
  BY DEF World
<1>5. blade_silent(s, i, loader, c, b) \in {serves, loads, quiet}
  BY <1>3, <1>4 DEF blade_silent
<1> HIDE DEF p, more, n
<1>6. m \in PortCtx /\ r \in PortCtx
  BY <1>1, <1>2, PollsCtx, ReleasedType
<1> HIDE DEF m, q, r
<1>7. missed \in World /\ missed.res = s.res /\ quiet.res = s.res
  BY <1>6, CtxUpdate DEF World
<1>8. gone \in World /\ gone.res = [s.res EXCEPT ![i] = 0]
  BY <1>6, CtxResUpdate DEF World
<1> HIDE DEF missed, quiet, gone
<1>9. Sound(s.res, serves.res)
  BY <1>7, ServeRes
<1>10. Lower(gone.res, loads.res) /\ loads.res \in Account
  BY <1>8, begin_updateRes, begin_updateType, AccountType
<1> HIDE DEF serves, loads
<1>11. Lower(s.res, loads.res)
  BY <1>8, <1>10, AccountType, OneLower, LowerLower
<1>12. Sound(s.res, loads.res) /\ Sound(s.res, s.res)
  BY <1>10, <1>11, AccountType, LowerSmall
<1>13. QED
  BY <1>5, <1>7, <1>9, <1>12

------------------------------------------------------------------------------
(* The actions *)

\* A world that a handler reached soundly is put in place.
Granting(w) == w \in World /\ Sound(reserved, w.res) /\ Becomes(w)

LEMMA GrantingSound ==
    ASSUME NEW w, Granting(w)
    PROVE  Sound(reserved, reserved')
BY DEF Granting, Becomes

LEMMA NowAccount ==
    ASSUME Now \in World
    PROVE  Now.res = reserved /\ reserved \in Account /\ Sound(reserved, reserved)
BY AccountType, LowerSmall DEF Now, Account

\* Three ways to be sound: nothing moved, one port let go, nothing but bases.
LEMMA SameGrants ==
    ASSUME Now \in World, NEW w \in World, w.res = reserved, Becomes(w)
    PROVE  Granting(w)
BY NowAccount DEF Granting

LEMMA ZeroGrants ==
    ASSUME Now \in World, NEW w \in World, NEW i \in Ports, w.res = [reserved EXCEPT ![i] = 0],
           Becomes(w)
    PROVE  Granting(w)
BY NowAccount, OneLower, LowerSmall DEF Granting

LEMMA SmallGrants ==
    ASSUME Now \in World, NEW w \in World, Small(reserved, w.res), Becomes(w)
    PROVE  Granting(w)
BY NowAccount, AccountType, LowerSmall DEF Granting

LEMMA LowerGrants ==
    ASSUME Now \in World, NEW w \in World, Lower(reserved, w.res), Becomes(w)
    PROVE  Granting(w)
BY NowAccount, AccountType, LowerSmall DEF Granting

LEMMA PowerDownGrants ==
    ASSUME Now \in World, NEW i \in Ports, NEW b \in BusOutcomes,
           Becomes(power_down(Now, i, "ABSENT", b))
    PROVE  \E w : Granting(w)
<1> DEFINE w == power_down(Now, i, "ABSENT", b)
<1>1. w \in World /\ w.res = [reserved EXCEPT ![i] = 0]
  BY NowAccount, StateNames, power_downType, power_downRes
<1> HIDE DEF w
<1>2. Becomes(w)
  BY DEF w
<1>3. QED
  BY <1>1, <1>2, ZeroGrants

LEMMA TickPoweredGrants ==
    ASSUME SettingsOK, Now \in World, NEW i \in Ports, NEW on, NEW c \in Chance,
           TickPowered(i, on, c)
    PROVE  \E w : Granting(w)
<1>1. PICK b \in BusOutcomes :
         LET s == Recheck(Select(Now, i, b), i)
             h == Heard(Readopted(s, i), i)
         IN
         \/ Becomes(power_down(Now, i, "ABSENT", b))
         \/ Becomes(Now)
         \/ Becomes(Serve(Now, i, c, b))
         \/ \E loader \in BOOLEAN : Becomes(blade_silent(s, i, loader, c, b))
         \/ Becomes(fault(Heard(s, i), i, b))
         \/ Becomes(Reprobed(h, i))
         \/ Becomes(Serve(h, i, c, b))
  BY DEF TickPowered
<1> DEFINE a == Select(Now, i, b)
           s == Recheck(a, i)
           r == Readopted(s, i)
           h == Heard(r, i)
           g == Heard(s, i)
<1>2. a \in World /\ a.res = reserved
  BY NowAccount, SelectType, SelectRes
<1> HIDE DEF a
<1>3. s \in World /\ s.res = reserved
  BY <1>2, RecheckType, HeardRes
<1> HIDE DEF s
<1>4. r \in World /\ r.res = reserved /\ g \in World /\ g.res = reserved
  BY <1>3, ReadoptedType, HeardType, HeardRes
<1> HIDE DEF r, g
<1>5. h \in World /\ h.res = reserved
  BY <1>4, HeardType, HeardRes
<1> HIDE DEF h
<1>6. CASE Becomes(power_down(Now, i, "ABSENT", b))
  BY <1>6, PowerDownGrants
<1>7. CASE Becomes(Now)
  BY <1>7, NowAccount, SameGrants
<1>8. CASE Becomes(Serve(Now, i, c, b)) \/ Becomes(Serve(h, i, c, b))
  <2>1. \A x \in World :
          x.res = reserved /\ Becomes(Serve(x, i, c, b)) => Granting(Serve(x, i, c, b))
    BY ServeType, ServeRes DEF Granting
  <2>2. QED
    BY <1>5, <1>8, <2>1, NowAccount
<1>9. CASE \E loader \in BOOLEAN : Becomes(blade_silent(s, i, loader, c, b))
  <2>1. PICK loader \in BOOLEAN : Becomes(blade_silent(s, i, loader, c, b))
    BY <1>9
  <2> DEFINE w == blade_silent(s, i, loader, c, b)
  <2>2. w \in World
    BY <1>3, blade_silentType
  <2>3. Sound(s.res, w.res)
    BY <1>3, blade_silentRes
  <2>4. QED
    BY <1>3, <2>1, <2>2, <2>3 DEF Granting
<1>10. CASE Becomes(fault(g, i, b))
  <2> DEFINE w == fault(g, i, b)
  <2>1. w \in World /\ w.res = [reserved EXCEPT ![i] = 0]
    BY <1>4, faultType, faultRes, SMTT(40)
  <2> HIDE DEF w
  <2>2. QED
    BY <1>10, <2>1, ZeroGrants DEF w
<1>11. CASE Becomes(Reprobed(h, i))
  <2> DEFINE w == Reprobed(h, i)
  <2>1. w \in World /\ Small(reserved, w.res)
    BY <1>5, ReprobedType, ReprobedRes
  <2> HIDE DEF w
  <2>2. QED
    BY <1>11, <2>1, SmallGrants DEF w
<1>12. QED
  BY <1>1, <1>6, <1>7, <1>8, <1>9, <1>10, <1>11, Zenon DEF a, s, r, h, g

LEMMA TickAbsentGrants ==
    ASSUME Now \in World, NEW i \in Ports, NEW on, TickAbsent(i, on)
    PROVE  \E w : Granting(w)
<1> DEFINE e == enter(Now, i, "DISABLED")
           p == start_probe(Now, i)
<1>1. /\ e \in World /\ e.res = reserved
      /\ p \in World /\ p.res = reserved
  BY NowAccount, StateNames, enterType, enterRes, start_probeType, start_probeRes
<1>2. Becomes(Now) \/ Becomes(e) \/ Becomes(p)
  BY DEF TickAbsent
<1> HIDE DEF e, p
<1>3. QED
  BY <1>1, <1>2, NowAccount, SameGrants

LEMMA IdentifiedRes ==
    ASSUME NEW s \in World, NEW i \in Ports, NEW g, NEW id
    PROVE  Identified(s, i, g, id).res = s.res /\ [s EXCEPT !.ctx[i].gen = g].res = s.res
BY DEF Identified, World

LEMMA ConfiguredRes ==
    ASSUME SettingsOK, NEW s \in World, NEW i \in Ports
    PROVE  Configured(s, i).res = [s.res EXCEPT ![i] = BASE_RESERVE]
BY DEF Configured, go_idle, enter, World

LEMMA AdoptedRes ==
    ASSUME SettingsOK, NEW s \in World, NEW i \in Ports
    PROVE  Adopted(s, i).res = [s.res EXCEPT ![i] = BASE_RESERVE]
BY DEF Adopted, attach_begin, go_idle, enter, World

LEMMA ColdAnswerGrants ==
    ASSUME SettingsOK, Now \in World, NEW s \in World, s.res = reserved, NEW i \in Ports,
           NEW late \in BOOLEAN, NEW b \in BusOutcomes, ColdAnswer(s, i, late, b)
    PROVE  \E w : Granting(w)
<1>1. PICK g \in Answering(s, i),
           id \in ReadIds(IF "GEN_3" \in Found THEN "GEN_3" ELSE "NONE") :
         LET k == Identified(s, i, g, id)
             l == send_to_loader(k, i, b)
         IN  \/ Becomes(begin_update([s EXCEPT !.ctx[i].gen = g], i, b))
             \/ Becomes(l)
             \/ Becomes(Configured(l, i))
             \/ Becomes(probe_failed(l, i, late, b))
  BY DEF ColdAnswer
<1> DEFINE k == Identified(s, i, g, id)
           l == send_to_loader(k, i, b)
           m == [s EXCEPT !.ctx[i].gen = g]
           u == begin_update(m, i, b)
           c == Configured(l, i)
           f == probe_failed(l, i, late, b)
<1>2. g \in Generations /\ id \in Identity
  BY AnsweringType, ReadIdsType
<1>3. k \in World /\ k.res = reserved /\ m \in World /\ m.res = reserved
  BY <1>2, IdentifiedType, IdentifiedRes, GenUpdate
<1> HIDE DEF k, m
<1>4. l \in World /\ Lower(reserved, l.res)
  BY <1>3, send_to_loaderType, send_to_loaderRes
<1>5. u \in World /\ Lower(reserved, u.res)
  BY <1>3, begin_updateType, begin_updateRes
<1> HIDE DEF l
<1>6. reserved \in Account /\ l.res \in Account
  BY <1>4, NowAccount, AccountType
<1>7. c \in World /\ Small(reserved, c.res)
  <2>1. c \in World /\ c.res = [l.res EXCEPT ![i] = BASE_RESERVE]
    BY <1>4, ConfiguredType, ConfiguredRes
  <2> HIDE DEF c
  <2>2. Small(l.res, c.res) /\ c.res \in Account /\ Small(reserved, l.res)
    BY <1>4, <1>6, <2>1, OneBase, LowerSmall
  <2>3. QED
    BY <1>6, <2>1, <2>2, SmallSmall
<1>8. f \in World /\ Lower(reserved, f.res)
  <2>1. f \in World /\ Lower(l.res, f.res)
    BY <1>4, probe_failedType, probe_failedRes
  <2> HIDE DEF f
  <2>2. f.res \in Account
    BY <2>1, AccountType
  <2>3. QED
    BY <1>4, <1>6, <2>1, <2>2, LowerLower
<1>9. Becomes(u) \/ Becomes(l) \/ Becomes(c) \/ Becomes(f)
  BY <1>1, Zenon DEF k, l, m
<1> HIDE DEF u, c, f
<1>10. QED
  BY <1>4, <1>5, <1>7, <1>8, <1>9, LowerGrants, SmallGrants

LEMMA ColdProbeGrants ==
    ASSUME SettingsOK, Now \in World, NEW i \in Ports, NEW c \in Chance, ColdProbe(i, c)
    PROVE  \E w : Granting(w)
<1>1. PICK b \in BusOutcomes :
         LET s == Probing(i) IN
         \/ Becomes(probe_failed(s, i, c.late, b))
         \/ Becomes([s EXCEPT !.en[i] = TRUE, !.ctx[i].en_on = TRUE])
         \/ Becomes(s)
         \/ ColdAnswer(Select(s, i, b), i, c.late, b)
  BY DEF ColdProbe
<1> DEFINE s == Probing(i)
           a == Select(s, i, b)
           f == probe_failed(s, i, c.late, b)
           e == [s EXCEPT !.en[i] = TRUE, !.ctx[i].en_on = TRUE]
<1>2. s \in World /\ s.res = reserved /\ c.late \in BOOLEAN
  BY NowAccount, ProbingType, HeardRes DEF Chance
<1> HIDE DEF s
<1>3. a \in World /\ a.res = reserved
  BY <1>2, SelectType, SelectRes
<1>4. f \in World /\ Lower(reserved, f.res)
  BY <1>2, probe_failedType, probe_failedRes
<1>5. e \in World /\ e.res = reserved
  BY <1>2, EnOnUpdate DEF World
<1>6. Becomes(f) \/ Becomes(e) \/ Becomes(s) \/ ColdAnswer(a, i, c.late, b)
  BY <1>1, Zenon DEF s
<1> HIDE DEF a, f, e
<1>7. CASE ColdAnswer(a, i, c.late, b)
  BY <1>2, <1>3, <1>7, ColdAnswerGrants
<1>8. CASE Becomes(f) \/ Becomes(e) \/ Becomes(s)
  BY <1>2, <1>4, <1>5, <1>8, LowerGrants, SameGrants
<1>9. QED
  BY <1>6, <1>7, <1>8

LEMMA WarmAnswerGrants ==
    ASSUME SettingsOK, Now \in World, NEW s \in World, s.res = reserved, NEW i \in Ports,
           NEW late \in BOOLEAN, NEW b \in BusOutcomes, WarmAnswer(s, i, late, b)
    PROVE  \E w : Granting(w)
<1>1. PICK g \in IF s.ctx[i].gen = "NONE" \/ s.ctx[i].silent
                 THEN Answering(s, i) ELSE {s.ctx[i].gen} :
      \E id \in ReadIds(g) :
        LET k == IF g = "GEN_3" THEN Identified(s, i, g, id) ELSE [s EXCEPT !.ctx[i].gen = g] IN
        \/ Becomes(begin_update(k, i, b))
        \/ Becomes(Adopted(k, i))
        \/ Becomes(fault([k EXCEPT !.ctx[i].warm = FALSE], i, b))
        \/ Becomes(warm_probe_failed(k, i, late))
  BY ZenonT(40) DEF WarmAnswer
<1>2. PICK id \in ReadIds(g) :
        LET k == IF g = "GEN_3" THEN Identified(s, i, g, id) ELSE [s EXCEPT !.ctx[i].gen = g] IN
        \/ Becomes(begin_update(k, i, b))
        \/ Becomes(Adopted(k, i))
        \/ Becomes(fault([k EXCEPT !.ctx[i].warm = FALSE], i, b))
        \/ Becomes(warm_probe_failed(k, i, late))
  BY <1>1
<1> DEFINE k == IF g = "GEN_3" THEN Identified(s, i, g, id) ELSE [s EXCEPT !.ctx[i].gen = g]
           u == begin_update(k, i, b)
           a == Adopted(k, i)
           n == [k EXCEPT !.ctx[i].warm = FALSE]
           f == fault(n, i, b)
           p == warm_probe_failed(k, i, late)
<1>3. g \in Generations /\ id \in Identity
  BY AnsweringType, ReadIdsType, PartsType, CtxParts
<1>4. k \in World /\ k.res = reserved
  BY <1>3, IdentifiedType, IdentifiedRes, GenUpdate
<1> HIDE DEF k
<1>5. u \in World /\ Lower(reserved, u.res)
  BY <1>4, begin_updateType, begin_updateRes
<1>6. a \in World /\ Small(reserved, a.res)
  <2>1. a \in World /\ a.res = [reserved EXCEPT ![i] = BASE_RESERVE]
    BY <1>4, AdoptedType, AdoptedRes
  <2> HIDE DEF a
  <2>2. QED
    BY <2>1, NowAccount, OneBase
<1>7. n \in World /\ n.res = reserved
  BY <1>4, WarmUpdate DEF World
<1> HIDE DEF n
<1>8. f \in World /\ f.res = [reserved EXCEPT ![i] = 0]
  BY <1>7, faultType, faultRes, ZenonT(40)
<1>9. p \in World /\ Small(reserved, p.res)
  BY <1>4, warm_probe_failedType, warm_probe_failedRes
<1>10. Becomes(u) \/ Becomes(a) \/ Becomes(f) \/ Becomes(p)
  BY <1>2, Zenon DEF k, n
<1> HIDE DEF u, a, f, p
<1>11. QED
  BY <1>5, <1>6, <1>8, <1>9, <1>10, LowerGrants, SmallGrants, ZeroGrants

LEMMA WarmProbeGrants ==
    ASSUME SettingsOK, Now \in World, NEW i \in Ports, NEW c \in Chance, WarmProbe(i, c)
    PROVE  \E w : Granting(w)
<1>1. PICK b \in BusOutcomes :
         LET s == Probing(i) IN
         \/ Becomes(s)
         \/ Becomes(warm_probe_failed(s, i, c.late))
         \/ WarmAnswer(Select(s, i, b), i, c.late, b)
  BY DEF WarmProbe
<1> DEFINE s == Probing(i)
           a == Select(s, i, b)
           f == warm_probe_failed(s, i, c.late)
<1>2. s \in World /\ s.res = reserved /\ c.late \in BOOLEAN
  BY NowAccount, ProbingType, HeardRes DEF Chance
<1> HIDE DEF s
<1>3. a \in World /\ a.res = reserved
  BY <1>2, SelectType, SelectRes
<1>4. f \in World /\ Small(reserved, f.res)
  BY <1>2, warm_probe_failedType, warm_probe_failedRes
<1>5. Becomes(s) \/ Becomes(f) \/ WarmAnswer(a, i, c.late, b)
  BY <1>1, Zenon DEF s
<1> HIDE DEF a, f
<1>6. CASE WarmAnswer(a, i, c.late, b)
  BY <1>2, <1>3, <1>6, WarmAnswerGrants
<1>7. CASE Becomes(s) \/ Becomes(f)
  BY <1>2, <1>4, <1>7, SmallGrants, SameGrants
<1>8. QED
  BY <1>5, <1>6, <1>7

LEMMA TickProbeGrants ==
    ASSUME SettingsOK, Now \in World, NEW i \in Ports, NEW on, NEW c \in Chance,
           TickProbe(i, on, c)
    PROVE  \E w : Granting(w)
<1>1. CASE ColdProbe(i, c)
  BY <1>1, ColdProbeGrants
<1>2. CASE WarmProbe(i, c)
  BY <1>2, WarmProbeGrants
<1>3. CASE \E b \in BusOutcomes : Becomes(power_down(Now, i, "ABSENT", b))
  BY <1>3, PowerDownGrants
<1>4. QED
  BY <1>1, <1>2, <1>3 DEF TickProbe

LEMMA TickFaultGrants ==
    ASSUME Now \in World, NEW i \in Ports, NEW on, NEW c \in Chance, TickFault(i, on, c)
    PROVE  \E w : Granting(w)
<1>1. PICK b \in BusOutcomes :
         LET s == IF ctx[i].gen = "GEN_3" THEN Select(Now, i, b) ELSE Now IN
         \/ Becomes(power_down(Now, i, "ABSENT", b))
         \/ Becomes(s)
         \/ Becomes([s EXCEPT !.ctx[i].cooling = TRUE])
         \/ Becomes(start_probe([s EXCEPT !.ctx[i].cooling = FALSE], i))
  BY DEF TickFault
<1> DEFINE s == IF ctx[i].gen = "GEN_3" THEN Select(Now, i, b) ELSE Now
           hot == [s EXCEPT !.ctx[i].cooling = TRUE]
           cool == [s EXCEPT !.ctx[i].cooling = FALSE]
           p == start_probe(cool, i)
<1>2. s \in World /\ s.res = reserved
  BY NowAccount, SelectType, SelectRes
<1> HIDE DEF s
<1>3. /\ hot \in World /\ hot.res = reserved
      /\ cool \in World /\ cool.res = reserved
  BY <1>2, CoolingUpdate DEF World
<1> HIDE DEF hot, cool
<1>4. p \in World /\ p.res = reserved
  BY <1>3, start_probeType, start_probeRes
<1> HIDE DEF p
<1>5. \/ Becomes(power_down(Now, i, "ABSENT", b))
      \/ Becomes(s) \/ Becomes(hot) \/ Becomes(p)
  BY <1>1, Zenon DEF s, hot, cool, p
<1>6. CASE Becomes(power_down(Now, i, "ABSENT", b))
  BY <1>6, PowerDownGrants
<1>7. CASE Becomes(s) \/ Becomes(hot) \/ Becomes(p)
  BY <1>2, <1>3, <1>4, <1>7, SameGrants
<1>8. QED
  BY <1>5, <1>6, <1>7

LEMMA TickUpdateGrants ==
    ASSUME Now \in World, NEW i \in Ports, NEW on, NEW c \in Chance, TickUpdate(i, on, c)
    PROVE  \E w : Granting(w)
<1>1. PICK b \in BusOutcomes :
         LET s == [Select(Now, i, b) EXCEPT !.loader = i] IN
         \/ Becomes(power_down(Now, i, "ABSENT", b))
         \/ Becomes(Now)
         \/ Becomes(s)
         \/ Becomes([start_probe(s, i) EXCEPT !.ctx[i].grace = TRUE])
         \/ Becomes(fault(s, i, b))
  BY DEF TickUpdate
<1> DEFINE a == Select(Now, i, b)
           s == [a EXCEPT !.loader = i]
           p == start_probe(s, i)
           q == [p EXCEPT !.ctx[i].grace = TRUE]
           f == fault(s, i, b)
<1>2. a \in World /\ a.res = reserved
  BY NowAccount, SelectType, SelectRes
<1> HIDE DEF a
<1>3. s \in World /\ s.res = reserved
  BY <1>2, LoaderUpdate DEF World
<1> HIDE DEF s
<1>4. p \in World /\ p.res = reserved
  BY <1>3, start_probeType, start_probeRes
<1> HIDE DEF p
<1>5. q \in World /\ q.res = reserved
  BY <1>4, SwitchingUpdate DEF World
<1>6. f \in World /\ f.res = [reserved EXCEPT ![i] = 0]
  BY <1>3, faultType, faultRes
<1> HIDE DEF q, f
<1>7. \/ Becomes(power_down(Now, i, "ABSENT", b))
      \/ Becomes(Now) \/ Becomes(s) \/ Becomes(q) \/ Becomes(f)
  BY <1>1, Zenon DEF a, s, p, q, f
<1>8. CASE Becomes(power_down(Now, i, "ABSENT", b))
  BY <1>8, PowerDownGrants
<1>9. CASE Becomes(Now) \/ Becomes(s) \/ Becomes(q) \/ Becomes(f)
  BY <1>3, <1>5, <1>6, <1>9, NowAccount, SameGrants, ZeroGrants
<1>10. QED
  BY <1>7, <1>8, <1>9

LEMMA TickDisabledGrants ==
    ASSUME Now \in World, NEW i \in Ports, NEW on, TickDisabled(i, on)
    PROVE  \E w : Granting(w)
<1>1. PICK b \in BusOutcomes :
         LET s == IF ctx[i].gen = "GEN_3" THEN Select(Now, i, b) ELSE Now IN
         \/ Becomes(power_down(Now, i, "ABSENT", b))
         \/ Becomes(start_probe(Now, i))
         \/ Becomes(s)
  BY DEF TickDisabled
<1> DEFINE s == IF ctx[i].gen = "GEN_3" THEN Select(Now, i, b) ELSE Now
           p == start_probe(Now, i)
<1>2. s \in World /\ s.res = reserved
  BY NowAccount, SelectType, SelectRes
<1>3. p \in World /\ p.res = reserved
  BY NowAccount, start_probeType, start_probeRes
<1>4. Becomes(power_down(Now, i, "ABSENT", b)) \/ Becomes(p) \/ Becomes(s)
  BY <1>1
<1> HIDE DEF s, p
<1>5. CASE Becomes(power_down(Now, i, "ABSENT", b))
  BY <1>5, PowerDownGrants
<1>6. CASE Becomes(p) \/ Becomes(s)
  BY <1>2, <1>3, <1>6, SameGrants
<1>7. QED
  BY <1>4, <1>5, <1>6

LEMMA TickGrants ==
    ASSUME SettingsOK, Now \in World, NEW i \in Ports, NEW on, NEW c \in Chance,
           port_fsm_tick(i, on, c)
    PROVE  \E w : Granting(w)
BY TickAbsentGrants, TickProbeGrants, TickPoweredGrants, TickFaultGrants, TickUpdateGrants,
   TickDisabledGrants DEF port_fsm_tick

------------------------------------------------------------------------------
(* Commands and the sweep: a reservation is kept or let go *)

KeptOrZero(i) == reserved' = reserved \/ reserved' = [reserved EXCEPT ![i] = 0]

LEMMA KeptSound ==
    ASSUME Now \in World, NEW i \in Ports, KeptOrZero(i)
    PROVE  Sound(reserved, reserved')
BY NowAccount, OneLower, LowerSmall DEF KeptOrZero

LEMMA CmdEnableKeeps ==
    ASSUME Now \in World, NEW i \in Ports, CmdEnable(i)
    PROVE  reserved' = reserved
BY DEF CmdEnable, Becomes, Now

LEMMA CmdUpdateKeeps ==
    ASSUME Now \in World, NEW i \in Ports, CmdUpdate(i)
    PROVE  KeptOrZero(i)
<1> DEFINE p == [ctx[i] EXCEPT !.rewrite = TRUE, !.rounds = 0, !.stuck = FALSE, !.held = FALSE]
           s == [Now EXCEPT !.ctx[i] = p]
           r == Released(p)
           cold == [s EXCEPT !.ctx[i].warm = FALSE]
           free == [reserved EXCEPT ![i] = 0]
<1>1. PICK b \in BusOutcomes :
         \/ Becomes([power_down(cold, i, "FAULT", b) EXCEPT !.ctx[i].cooling = FALSE])
         \/ Becomes([start_probe([BladeDown(Select(s, i, b), i)
                                    EXCEPT !.res[i] = 0, !.ctx[i] = r], i)
                       EXCEPT !.ctx[i].grace = TRUE])
         \/ Becomes([(IF p.state \in Powered THEN Select(s, i, b) ELSE s) EXCEPT
              !.ctx[i].cooling = IF p.state = "FAULT" THEN FALSE ELSE @])
  BY Zenon DEF CmdUpdate
<1> DEFINE down == power_down(cold, i, "FAULT", b)
           a == Select(s, i, b)
           d == BladeDown(a, i)
           gone == [d EXCEPT !.res[i] = 0, !.ctx[i] = r]
           again == start_probe(gone, i)
           kept == IF p.state \in Powered THEN a ELSE s
<1>2. p \in PortCtx
  BY NowCtx, RewriteCtx
<1>3. [kept EXCEPT !.ctx[i].cooling = IF p.state = "FAULT" THEN FALSE ELSE @].res = kept.res
  BY DEF Now, Select
<1> HIDE DEF p
<1>4. s \in World /\ s.res = reserved /\ r \in PortCtx
  BY <1>2, NowAccount, CtxUpdate, ReleasedType DEF Now
<1> HIDE DEF s, r
<1>5. cold \in World /\ cold.res = reserved
  BY <1>4, WarmUpdate DEF World
<1> HIDE DEF cold
<1>6. down \in World /\ down.res = free
  BY <1>5, StateNames, power_downType, power_downRes
<1> HIDE DEF down
<1>7. [down EXCEPT !.ctx[i].cooling = FALSE].res = free
  BY <1>6 DEF World
<1>8. a \in World /\ a.res = reserved
  BY <1>4, SelectType, SelectRes
<1> HIDE DEF a
<1>9. d \in World /\ d.res = reserved
  BY <1>8, BladeDownType DEF BladeDown, World
<1> HIDE DEF d
<1>10. gone \in World /\ gone.res = free
  BY <1>4, <1>9, CtxResUpdate DEF World
<1> HIDE DEF gone
<1>11. again \in World /\ again.res = free
  BY <1>10, start_probeType, start_probeRes
<1> HIDE DEF again
<1>12. [again EXCEPT !.ctx[i].grace = TRUE].res = free
  BY <1>11 DEF World
<1>13. kept.res = reserved
  BY <1>4, <1>8
<1> HIDE DEF kept
<1>14. \/ Becomes([down EXCEPT !.ctx[i].cooling = FALSE])
       \/ Becomes([again EXCEPT !.ctx[i].grace = TRUE])
       \/ Becomes([kept EXCEPT !.ctx[i].cooling = IF p.state = "FAULT" THEN FALSE ELSE @])
  BY <1>1, Zenon DEF down, again, gone, d, a, kept
<1>15. QED
  BY <1>3, <1>7, <1>12, <1>13, <1>14, Zenon DEF Becomes, KeptOrZero

LEMMA CmdDisableKeeps ==
    ASSUME Now \in World, NEW i \in Ports, CmdDisable(i)
    PROVE  KeptOrZero(i)
<1> DEFINE s == [Now EXCEPT !.ctx[i].admin = FALSE]
<1>1. PICK b \in BusOutcomes : Becomes(s) \/ Becomes(switch_off(s, i, b))
  BY DEF CmdDisable
<1>2. s \in World /\ s.res = reserved
  BY AdminUpdate DEF Now
<1> HIDE DEF s
<1>3. switch_off(s, i, b).res = [reserved EXCEPT ![i] = 0]
  BY <1>2, auto_offRes
<1>4. QED
  BY <1>1, <1>2, <1>3 DEF Becomes, KeptOrZero

LEMMA CmdLimitKeeps ==
    ASSUME SettingsOK, Now \in World, NEW i \in Ports, CmdLimit(i)
    PROVE  reserved' = reserved
<1>1. PICK b \in BusOutcomes :
        LET s == Select(Now, i, b) IN
        \/ Becomes(Now)
        \/ Becomes(s)
        \/ Becomes([set_limits(s, i, limit_for(i), port_max_w[i], ctx[i].st.attached, b)
                      EXCEPT !.ctx[i].granted = limit_for(i)])
  BY DEF CmdLimit
<1> DEFINE s == Select(Now, i, b)
           a == ctx[i].st.attached
           t == set_limits(s, i, limit_for(i), port_max_w[i], a, b)
           u == [t EXCEPT !.ctx[i].granted = limit_for(i)]
<1>2. s \in World /\ a \in BOOLEAN /\ s.res = reserved
  BY NowAccount, SelectType, SelectRes, NowCtx, CtxParts
<1> HIDE DEF s, a
<1>3. t \in World /\ t.res = reserved
  BY <1>2, LimitType, set_limitsType, set_limitsRes
<1> HIDE DEF t
<1>4. u.res = reserved
  BY <1>3 DEF World
<1>5. Becomes(Now) \/ Becomes(s) \/ Becomes(u)
  BY <1>1, Zenon DEF s, a, t
<1> HIDE DEF u
<1>6. QED
  BY <1>2, <1>4, <1>5, NowAccount DEF Becomes

LEMMA CmdVoltKeeps ==
    ASSUME SettingsOK, Now \in World, NEW i \in Ports, CmdVolt(i)
    PROVE  reserved' = reserved
<1>1. PICK b \in BusOutcomes :
        \/ Becomes(Now)
        \/ Becomes(set_limits(Select(Now, i, b), i, ctx[i].granted, port_max_w[i],
                              ctx[i].st.attached, b))
  BY DEF CmdVolt
<1>2. /\ ctx[i].granted \in Nat /\ ctx[i].st.attached \in BOOLEAN
      /\ Select(Now, i, b) \in World /\ Select(Now, i, b).res = reserved
  BY NowAccount, SelectType, SelectRes, NowCtx, CtxParts
<1>3. set_limits(Select(Now, i, b), i, ctx[i].granted, port_max_w[i],
                 ctx[i].st.attached, b).res = reserved
  BY <1>2, LimitType, set_limitsRes
<1>4. QED
  BY <1>1, <1>3, NowAccount DEF Becomes

LEMMA port_fsm_alert_sweepKeeps ==
    ASSUME Now \in World, NEW i \in Ports, port_fsm_alert_sweep(i)
    PROVE  KeptOrZero(i)
<1> DEFINE t == [attached |-> sink[i] # 0, contract |-> sink[i]]
<1>1. PICK b \in BusOutcomes :
        LET h == [Select(Now, i, b) EXCEPT !.ctx[i].st = t] IN
        Becomes(h) \/ Becomes(fault(h, i, b))
  BY DEF port_fsm_alert_sweep
<1> DEFINE s == Select(Now, i, b)
           h == [s EXCEPT !.ctx[i].st = t]
           p == [s.ctx[i] EXCEPT !.st = t]
<1>2. s \in World /\ s.res = reserved
  BY NowAccount, SelectType, SelectRes
<1>3. t \in [attached : BOOLEAN, contract : Nat]
  BY DEF Now, World
<1> HIDE DEF s, t
<1>4. p \in PortCtx
  BY <1>2, <1>3, PartsType, HeardCtx
<1>5. h = [s EXCEPT !.ctx[i] = p]
  BY <1>2 DEF World
<1>6. h \in World /\ h.res = reserved
  <2>1. h.res = reserved
    BY <1>2 DEF World
  <2> HIDE DEF p
  <2>2. h \in World
    BY <1>2, <1>4, <1>5, CtxUpdate
  <2>3. QED
    BY <2>1, <2>2
<1>7. Becomes(h) \/ Becomes(fault(h, i, b))
  BY <1>1, Zenon DEF s
<1> HIDE DEF h
<1>8. fault(h, i, b).res = [reserved EXCEPT ![i] = 0]
  BY <1>6, faultRes
<1>9. QED
  BY <1>6, <1>7, <1>8 DEF Becomes, KeptOrZero

LEMMA CommandsSound ==
    ASSUME SettingsOK, Now \in World, NEW i \in Ports, Commands(i)
    PROVE  Sound(reserved, reserved')
<1>1. KeptOrZero(i)
  BY CmdEnableKeeps, CmdDisableKeeps, CmdUpdateKeeps, CmdLimitKeeps, CmdVoltKeeps
     DEF Commands, KeptOrZero
<1>2. QED
  BY <1>1, KeptSound

------------------------------------------------------------------------------
(* The theorem *)

LEMMA StepSound ==
    ASSUME TypeOK, [Next]_vars
    PROVE  Sound(reserved, reserved')
<1>1. SettingsOK /\ Now \in World
  BY SettingsType
<1>2. CASE Tick
  <2>1. PICK c \in Chances(ctx[turn]) : TickWith(c)
    BY <1>2 DEF Tick
  <2>2. turn \in Ports /\ c \in Chance
    BY <1>2, <2>1, ChancesType DEF Tick
  <2>3. PICK w : Granting(w)
    BY <1>1, <2>1, <2>2, TickGrants DEF TickWith
  <2>4. QED
    BY <2>3, GrantingSound
<1>3. CASE Dispatch
  BY <1>1, <1>3, CommandsSound DEF Dispatch
<1>4. CASE AlertSweep
  BY <1>1, <1>4, port_fsm_alert_sweepKeeps, KeptSound DEF AlertSweep
<1>5. CASE Reboot
  <2>1. reserved' = [i \in Ports |-> 0]
    BY <1>5 DEF Reboot
  <2>2. QED
    BY <2>1, NatParameters DEF Sound
<1>6. CASE UNCHANGED reserved
  BY <1>1, <1>6, NowAccount
<1>7. QED
  BY <1>2, <1>3, <1>4, <1>5, <1>6
     DEF Next, Others, Engine, SetCeiling, SetBudget, Committed, RefreshPresence, StartTicks,
         HourPasses, Surroundings, StoreLimit, StoreVolt, Seat, Unseat, Ask, Unplug, Restart,
         Outside, fsm_vars, vars

\* The steps that move a reservation are not the ones that move the budget.
LEMMA StepTotal ==
    ASSUME TypeOK, [Next]_vars, reserved' # reserved
    PROVE  total' = total
BY DEF Next, Tick, TickWith, Others, Engine, Dispatch, AlertSweep, Reboot, SetCeiling, SetBudget,
       Committed, RefreshPresence, StartTicks, HourPasses, Surroundings, StoreLimit, StoreVolt,
       Seat, Unseat, Ask, Unplug, Restart, Outside, fsm_vars, settings, vars

\* No step of the engine raises a reservation above the base without the
\* whole account fitting the budget of that moment: not a contract after a
\* shed that fell short, not a throttled port's share of the headroom, not a
\* step of the recovery, and whatever the budget was set to in between.
THEOREM GrantsWithinBudget == Spec => NeverGrantsPastBudget
<1> DEFINE Step == \A i \in Ports : Rose(i) /\ reserved'[i] > BASE_RESERVE
                     => budget_reserved(reserved') <= total'
<1>1. TypeOK /\ [Next]_vars => [Step]_vars
  <2> SUFFICES ASSUME TypeOK, [Next]_vars, NEW i \in Ports, Rose(i), reserved'[i] > BASE_RESERVE
               PROVE  budget_reserved(reserved') <= total'
    OBVIOUS
  <2>1. OverSlots(reserved') <= total
    BY StepSound DEF Sound, Rose
  <2>2. reserved \in Account
    BY SettingsType, NowAccount
  <2>3. reserved' # reserved
    BY <2>2 DEF Rose, Account
  <2>4. QED
    BY <2>1, <2>3, StepTotal DEF budget_reserved
<1>2. QED
  BY <1>1, TypeCorrect, PTL DEF Spec, NeverGrantsPastBudget

------------------------------------------------------------------------------
(* What has been granted stays within the budget *)

\* The part of each reservation above the base.
Above(r) == [i \in Ports |-> IF r[i] > BASE_RESERVE THEN r[i] - BASE_RESERVE ELSE 0]

LEMMA AboveType ==
    ASSUME NEW r \in Account
    PROVE  Above(r) \in Account /\ Granted(r) = OverSlots(Above(r))
BY NatParameters DEF Above, Account, Granted

\* One port holds more than a base, so the whole account is larger than what
\* was granted by that port's base at least.
LEMMA GrantedBelow ==
    ASSUME NEW r \in Account, NEW i \in Ports, r[i] > BASE_RESERVE
    PROVE  Granted(r) + BASE_RESERVE <= OverSlots(r)
<1> DEFINE g == Above(r)
           f == [r EXCEPT ![i] = r[i] - BASE_RESERVE]
<1>1. g \in Account /\ Granted(r) = OverSlots(g)
  BY AboveType
<1>2. r[i] \in Nat /\ r[i] - BASE_RESERVE \in Nat
  BY NatParameters DEF Account
<1>3. f \in Account /\ Lower(f, g)
  BY <1>2, NatParameters DEF Account, Lower, Above
<1>4. OverSlots(f) = (OverSlots(r) - r[i]) + (r[i] - BASE_RESERVE)
  BY <1>2, OneSlot
<1>5. OverSlots(g) \in Nat /\ OverSlots(f) \in Nat /\ OverSlots(r) \in Nat
  BY <1>1, <1>3, OverSlotsNat DEF Account
<1> HIDE DEF g, f
<1>6. OverSlots(g) <= OverSlots(f)
  BY <1>1, <1>3, FewerWatts
<1>7. QED
  BY <1>1, <1>2, <1>4, <1>5, <1>6, NatParameters

\* As long as the budget is not lowered: either something was granted, and
\* then the account fits, or nothing has risen above the base.
LEMMA GrantsKept ==
    ASSUME TypeOK, TypeOK', [Next]_vars, GrantsFitBudget, total' >= total
    PROVE  GrantsFitBudget'
<1>1. reserved \in Account /\ total \in Nat
  BY SettingsType, NowAccount DEF TypeOK
<1>2. reserved' \in Account /\ total' \in Nat
  BY DEF TypeOK, Now, World, Account
<1>3. Sound(reserved, reserved')
  BY StepSound
<1> SUFFICES ASSUME NEW i \in Ports, reserved'[i] > BASE_RESERVE
             PROVE  Granted(reserved') + BASE_RESERVE <= total'
  BY DEF GrantsFitBudget
<1>4. Granted(reserved) \in Nat /\ Granted(reserved') \in Nat
  BY <1>1, <1>2, AboveType, OverSlotsNat DEF Account
<1>5. CASE \E j \in Ports : reserved'[j] > reserved[j] /\ reserved'[j] > BASE_RESERVE
  <2>1. OverSlots(reserved') <= total
    BY <1>3, <1>5 DEF Sound
  <2>2. OverSlots(reserved') \in Nat /\ Granted(reserved') + BASE_RESERVE <= OverSlots(reserved')
    BY <1>2, GrantedBelow, OverSlotsNat DEF Account
  <2>3. QED
    BY <1>1, <1>2, <1>4, <2>1, <2>2, NatParameters
<1>6. CASE \A j \in Ports : ~(reserved'[j] > reserved[j] /\ reserved'[j] > BASE_RESERVE)
  <2>1. \A j \in Ports : reserved[j] \in Nat /\ reserved'[j] \in Nat
    BY <1>1, <1>2 DEF Account
  <2>2. Lower(Above(reserved), Above(reserved'))
    BY <1>6, <2>1, NatParameters DEF Lower, Above
  <2>3. Granted(reserved') <= Granted(reserved)
    BY <1>1, <1>2, <2>2, AboveType, FewerWatts
  <2>4. reserved[i] > BASE_RESERVE
    BY <1>6, <2>1, NatParameters
  <2>5. Granted(reserved) + BASE_RESERVE <= total
    BY <2>4 DEF GrantsFitBudget
  <2>6. QED
    BY <1>1, <1>2, <1>4, <2>3, <2>5, NatParameters
<1>7. QED
  BY <1>5, <1>6

\* The owner leaves the budget alone.
BudgetStays == \A a, b \in Totals : a = b

\* Whatever order contracts, sheds, steps and restores come in, the watts
\* granted above the bases, with one base, fit the budget: only the bases,
\* which budget_force_reserve() puts in place unasked, can exceed it.  The
\* budget must stay put, for a lower one takes nothing back by itself.
THEOREM GrantsStayWithin == ASSUME BudgetStays PROVE Spec => []GrantsFitBudget
<1> DEFINE IInv == GrantsFitBudget /\ total \in Totals
<1>1. Init => IInv
  BY NatParameters DEF Init, GrantsFitBudget
<1>2. TypeOK /\ TypeOK' /\ IInv /\ [Next]_vars => IInv'
  <2> SUFFICES ASSUME TypeOK, TypeOK', IInv, [Next]_vars PROVE IInv'
    OBVIOUS
  <2>1. total' \in Totals
    BY DEF Next, Tick, TickWith, Others, Engine, Dispatch, AlertSweep, Reboot, SetCeiling,
           SetBudget, Committed, RefreshPresence, StartTicks, HourPasses, Surroundings,
           StoreLimit, StoreVolt, Seat, Unseat, Ask, Unplug, Restart, Outside, settings, vars
  <2>2. total' = total /\ total \in Nat
    BY <2>1 DEF BudgetStays, TypeOK
  <2>3. QED
    BY <2>1, <2>2, GrantsKept
<1>3. QED
  BY <1>1, <1>2, TypeCorrect, PTL DEF Spec

==============================================================================
