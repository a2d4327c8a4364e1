----------------------------- MODULE Enable_proofs -----------------------------
(***************************************************************************)
(* An enable line follows its port's state, and an adopted port's line     *)
(* stays on: EnableFollows and WarmIsOn, for every chassis whose expander  *)
(* answers.  A port that a restart found on (ctx.warm) is on before it is  *)
(* probed; the proof carries along that such a port is still seated and    *)
(* wanted, which is why nothing but the probe's own conclusion ends its    *)
(* wait.  A blade pulled, or a port switched off, in that wait leaves warm *)
(* behind: those are the steps the hypothesis excludes.                    *)
(*                                                                         *)
(* Most helpers touch no line and move a port at most from one powered     *)
(* state to another (Kept); the others end with one port's lamp set.       *)
(***************************************************************************)
EXTENDS Chassis_proofs

\* Nobody switches a port off or takes a blade out.
Calm == Events \cap {"disable", "seat", "unseat"} = {}

\* What the theorems assume: the expander takes every write and read, and
\* where the controller restarts the ports it adopts are left in peace.
ExpanderAnswers == "expander" \notin Flaky
AdoptsInPeace == MaxBoots = 0 \/ Calm

\* A port in state p whose enable line is e, in a slot that is seated or not.
Lamp(p, e, seat) ==
    /\ p.state \in Powered => e
    /\ p.state \in {"FAULT", "DISABLED", "UPDATE"} => ~e
    /\ p.state = "ABSENT" => (p.warm <=> e)
    /\ p.state = "PROBE" /\ p.en_on => e
    /\ p.warm => /\ e /\ seat /\ p.admin /\ Calm
                 /\ p.state \in {"ABSENT", "PROBE"}

Lit(s) == s \in World /\ \A j \in Ports : Lamp(s.ctx[j], s.en[j], seated[j])

LitBut(s, i) ==
    s \in World /\ \A j \in Ports \ {i} : Lamp(s.ctx[j], s.en[j], seated[j])

\* p and q have the same lamp.
Alike(p, q) ==
    /\ q.warm = p.warm /\ q.en_on = p.en_on
    /\ p.warm /\ p.admin => q.admin
    /\ q.state = p.state \/ (p.state \in Powered /\ q.state \in Powered)

\* From s to t no line moves and every port keeps its lamp.
Kept(s, t) ==
    t \in World /\ t.en = s.en /\ \A j \in Ports : Alike(s.ctx[j], t.ctx[j])

------------------------------------------------------------------------------
(* Moving between the worlds *)

LEMMA LitParts ==
    ASSUME NEW s, NEW i \in Ports
    PROVE  Lit(s) <=> LitBut(s, i) /\ Lamp(s.ctx[i], s.en[i], seated[i])
BY DEF Lit, LitBut

LEMMA KeptSame ==
    ASSUME NEW s \in World
    PROVE  Kept(s, s)
BY DEF Kept, Alike

LEMMA AlikeTrans ==
    ASSUME NEW p, NEW q, NEW r, Alike(p, q), Alike(q, r)
    PROVE  Alike(p, r)
BY DEF Alike

LEMMA KeptTrans ==
    ASSUME NEW s, NEW t, NEW u, Kept(s, t), Kept(t, u)
    PROVE  Kept(s, u)
BY AlikeTrans DEF Kept

LEMMA AlikeLamp ==
    ASSUME NEW p \in PortCtx, NEW q \in PortCtx, Alike(p, q), NEW e, NEW h, Lamp(p, e, h)
    PROVE  Lamp(q, e, h)
<1>1. CASE q.state = p.state
  BY <1>1 DEF Alike, Lamp
<1>2. CASE p.state \in Powered /\ q.state \in Powered
  BY <1>2 DEF Alike, Lamp, Powered
<1>3. QED
  BY <1>1, <1>2 DEF Alike

LEMMA KeptLit ==
    ASSUME NEW s, NEW t, Kept(s, t)
    PROVE  /\ Lit(s) => Lit(t)
           /\ \A i \in Ports : /\ s \in World /\ LitBut(s, i) => LitBut(t, i)
                               /\ s.ctx[i].state \in Powered => t.ctx[i].state \in Powered
                               /\ t.ctx[i].warm = s.ctx[i].warm
                               /\ t.en = s.en
<1>1. t \in World /\ t.en = s.en /\ \A j \in Ports : Alike(s.ctx[j], t.ctx[j])
  BY DEF Kept
<1>2. ASSUME s \in World, NEW j \in Ports, Lamp(s.ctx[j], s.en[j], seated[j])
      PROVE  Lamp(t.ctx[j], t.en[j], seated[j])
  <2>1. s.ctx[j] \in PortCtx /\ t.ctx[j] \in PortCtx
    BY <1>1, <1>2, PartsType
  <2>2. QED
    BY <1>1, <1>2, <2>1, AlikeLamp
<1>3. QED
  BY <1>1, <1>2 DEF Lit, LitBut, Alike

\* A new context for a port, alike to the one it had.
LEMMA CtxKept ==
    ASSUME NEW s \in World, NEW i \in Ports, NEW p \in PortCtx, Alike(s.ctx[i], p)
    PROVE  Kept(s, [s EXCEPT !.ctx[i] = p])
<1> DEFINE t == [s EXCEPT !.ctx[i] = p]
<1>1. t \in World
  BY CtxUpdate
<1>2. t.en = s.en /\ t.ctx[i] = p /\ \A j \in Ports \ {i} : t.ctx[j] = s.ctx[j]
  BY DEF World
<1> HIDE DEF t
<1>3. Kept(s, t)
  BY <1>1, <1>2 DEF Kept, Alike
<1>4. QED
  BY <1>3 DEF t

LEMMA CtxResKept ==
    ASSUME NEW s \in World, NEW i \in Ports, NEW p \in PortCtx, Alike(s.ctx[i], p), NEW n \in Nat
    PROVE  /\ Kept(s, [s EXCEPT !.res[i] = n, !.ctx[i] = p])
           /\ Kept(s, [s EXCEPT !.ctx[i] = p, !.res[i] = n])
<1> DEFINE t == [s EXCEPT !.res[i] = n, !.ctx[i] = p]
<1>1. t \in World /\ t = [s EXCEPT !.ctx[i] = p, !.res[i] = n]
  BY CtxResUpdate DEF World
<1>2. t.en = s.en /\ t.ctx[i] = p /\ \A j \in Ports \ {i} : t.ctx[j] = s.ctx[j]
  BY DEF World
<1> HIDE DEF t
<1>3. Kept(s, t)
  BY <1>1, <1>2 DEF Kept, Alike
<1>4. QED
  BY <1>1, <1>3 DEF t

LEMMA ResCtxKept ==
    ASSUME NEW s \in World, NEW i \in Ports, NEW p \in PortCtx, Alike(s.ctx[i], p), NEW n \in Nat
    PROVE  Kept(s, [s EXCEPT !.res[i] = n, !.ctx[i] = p])
BY CtxResKept

LEMMA SameCtxKept ==
    ASSUME NEW s \in World, NEW t \in World, t.ctx = s.ctx, t.en = s.en
    PROVE  Kept(s, t)
BY DEF Kept, Alike

\* Only the port that is out of order has moved.
LEMMA OnlyPort ==
    ASSUME NEW s, NEW i \in Ports, LitBut(s, i), NEW t \in World,
           \A j \in Ports \ {i} : t.ctx[j] = s.ctx[j] /\ t.en[j] = s.en[j]
    PROVE  LitBut(t, i)
BY DEF LitBut

LEMMA ExpanderTakes ==
    ASSUME ExpanderAnswers, NEW b \in BusOutcomes
    PROVE  b.exp
BY DEF ExpanderAnswers, BusOutcomes

------------------------------------------------------------------------------
(* Helpers that keep every lamp *)

LEMMA SelectKept ==
    ASSUME NEW s \in World, NEW i \in Ports, NEW b \in BusOutcomes
    PROVE  Kept(s, Select(s, i, b))
<1>1. Select(s, i, b) \in World
  BY SelectType
<1>2. Select(s, i, b).ctx = s.ctx /\ Select(s, i, b).en = s.en
  BY DEF Select, World
<1>3. QED
  BY <1>1, <1>2, SameCtxKept

LEMMA BladeDownKept ==
    ASSUME NEW s \in World, NEW i \in Ports
    PROVE  Kept(s, BladeDown(s, i))
<1>1. BladeDown(s, i) \in World /\ BladeDown(s, i).ctx = s.ctx
  BY BladeDownType
<1>2. BladeDown(s, i).en = s.en
  BY DEF BladeDown, World
<1>3. QED
  BY <1>1, <1>2, SameCtxKept

LEMMA RebootsKept ==
    ASSUME NEW s \in World, NEW i \in Ports
    PROVE  Kept(s, Reboots(s, i))
<1>1. s.mux # None => s.mux \in Ports
  BY DEF World
<1>2. QED
  BY <1>1, BladeDownKept, KeptSame DEF Reboots

LEMMA RenegotiateParts ==
    ASSUME NEW p \in PortCtx, NEW r
    PROVE  LET q == Renegotiate(p, r)
           IN  /\ q.state = p.state /\ q.admin = p.admin
               /\ q.warm = p.warm /\ q.en_on = p.en_on
<1> DEFINE t == [p EXCEPT !.renegotiating = TRUE, !.renego_from = p.st.contract]
<1>1. Renegotiate(p, r) \in {p, t}
  BY DEF Renegotiate
<1>2. t.state = p.state /\ t.admin = p.admin /\ t.warm = p.warm /\ t.en_on = p.en_on
  BY DEF PortCtx
<1> HIDE DEF t
<1>3. QED
  BY <1>1, <1>2

LEMMA RenegotiateAlike ==
    ASSUME NEW p \in PortCtx, NEW r
    PROVE  Alike(p, Renegotiate(p, r))
BY RenegotiateParts DEF Alike

LEMMA GrantedKept ==
    ASSUME NEW s \in World, NEW i \in Ports, NEW w \in Nat
    PROVE  Kept(s, [s EXCEPT !.ctx[i].granted = w])
<1> DEFINE p == [s.ctx[i] EXCEPT !.granted = w]
<1>0. s.ctx[i] \in PortCtx
  BY PartsType
<1>1. p \in PortCtx /\ Alike(s.ctx[i], p)
  BY <1>0 DEF PortCtx, Alike
<1>2. [s EXCEPT !.ctx[i].granted = w] = [s EXCEPT !.ctx[i] = p]
  BY DEF World
<1> HIDE DEF p
<1>3. QED
  BY <1>1, <1>2, CtxKept

LEMMA WriteLimitsKept ==
    ASSUME NEW s \in World, NEW i \in Ports, NEW w \in Nat, NEW v \in Nat, NEW b \in BusOutcomes
    PROVE  Kept(s, WriteLimits(s, i, w, v, b))
<1>1. WriteLimits(s, i, w, v, b) \in World /\ WriteLimits(s, i, w, v, b).ctx = s.ctx
  BY WriteLimitsType
<1>2. WriteLimits(s, i, w, v, b).en = s.en
  BY DEF WriteLimits, World
<1>3. QED
  BY <1>1, <1>2, SameCtxKept

LEMMA set_limitsKept ==
    ASSUME NEW s \in World, NEW i \in Ports, NEW w \in Nat, NEW v \in Nat,
           NEW r \in BOOLEAN, NEW b \in BusOutcomes
    PROVE  Kept(s, set_limits(s, i, w, v, r, b))
<1> DEFINE t == WriteLimits(s, i, w, v, b)
           p == Renegotiate(s.ctx[i], r)
<1>1. Kept(s, t) /\ t.ctx = s.ctx
  BY WriteLimitsKept, WriteLimitsType
<1>2. set_limits(s, i, w, v, r, b) = [t EXCEPT !.ctx[i] = p]
  BY DEF set_limits
<1>3. p \in PortCtx /\ Alike(s.ctx[i], p)
  BY PartsType, RenegotiateType, RenegotiateAlike
<1> HIDE DEF t, p
<1>4. Kept(t, [t EXCEPT !.ctx[i] = p])
  BY <1>1, <1>3, CtxKept DEF Kept
<1>5. QED
  BY <1>1, <1>2, <1>4, KeptTrans

\* The limits written and noted.
LEMMA LimitedKept ==
    ASSUME SettingsOK, NEW s \in World, NEW i \in Ports, NEW r \in BOOLEAN, NEW b \in BusOutcomes
    PROVE  Kept(s, [set_limits(s, i, limit_for(i), port_max_w[i], r, b)
                      EXCEPT !.ctx[i].granted = limit_for(i)])
<1> DEFINE t == set_limits(s, i, limit_for(i), port_max_w[i], r, b)
<1>1. limit_for(i) \in Nat /\ port_max_w[i] \in Nat
  BY LimitType
<1>2. Kept(s, t)
  BY <1>1, set_limitsKept
<1> HIDE DEF t
<1>3. Kept(t, [t EXCEPT !.ctx[i].granted = limit_for(i)])
  BY <1>1, <1>2, GrantedKept DEF Kept
<1>4. Kept(s, [t EXCEPT !.ctx[i].granted = limit_for(i)])
  BY <1>2, <1>3, KeptTrans
<1>5. QED
  BY <1>4 DEF t

LEMMA sync_limitKept ==
    ASSUME SettingsOK, NEW s \in World, NEW i \in Ports, NEW b \in BusOutcomes
    PROVE  Kept(s, sync_limit(s, i, b))
<1> DEFINE r == s.ctx[i].st.attached
           t == [set_limits(s, i, limit_for(i), port_max_w[i], r, b)
                   EXCEPT !.ctx[i].granted = limit_for(i)]
<1>1. r \in BOOLEAN
  BY PartsType, CtxParts
<1>2. sync_limit(s, i, b) \in {s, t}
  BY DEF sync_limit
<1> HIDE DEF r
<1>3. Kept(s, t)
  BY <1>1, LimitedKept
<1> HIDE DEF t
<1>4. QED
  BY <1>2, <1>3, KeptSame

LEMMA FlagKept ==
    ASSUME NEW s \in World, NEW i \in Ports, NEW f \in BOOLEAN
    PROVE  /\ Kept(s, [s EXCEPT !.ctx[i].cooling = f])
           /\ Kept(s, [s EXCEPT !.ctx[i].switching = f])
           /\ Kept(s, [s EXCEPT !.ctx[i].grace = f])
           /\ Kept(s, [s EXCEPT !.ctx[i].charged = f])
           /\ Kept(s, [s EXCEPT !.ctx[i].renegotiating = f])
<1> DEFINE p == s.ctx[i]
<1>1. /\ [s EXCEPT !.ctx[i].cooling = f] = [s EXCEPT !.ctx[i] = [p EXCEPT !.cooling = f]]
      /\ [s EXCEPT !.ctx[i].switching = f] = [s EXCEPT !.ctx[i] = [p EXCEPT !.switching = f]]
      /\ [s EXCEPT !.ctx[i].grace = f] = [s EXCEPT !.ctx[i] = [p EXCEPT !.grace = f]]
      /\ [s EXCEPT !.ctx[i].charged = f] = [s EXCEPT !.ctx[i] = [p EXCEPT !.charged = f]]
      /\ [s EXCEPT !.ctx[i].renegotiating = f]
           = [s EXCEPT !.ctx[i] = [p EXCEPT !.renegotiating = f]]
  BY DEF World
<1>2. p \in PortCtx
  BY PartsType
<1>3. \A q \in {[p EXCEPT !.cooling = f], [p EXCEPT !.switching = f], [p EXCEPT !.grace = f]} :
        q \in PortCtx /\ Alike(p, q)
  BY <1>2 DEF PortCtx, Alike
<1>4. \A q \in {[p EXCEPT !.charged = f], [p EXCEPT !.renegotiating = f]} :
        q \in PortCtx /\ Alike(p, q)
  BY <1>2 DEF PortCtx, Alike
<1>5. \A q \in PortCtx : Alike(p, q) => Kept(s, [s EXCEPT !.ctx[i] = q])
  BY CtxKept
<1> HIDE DEF p
<1>6. QED
  BY <1>1, <1>3, <1>4, <1>5

------------------------------------------------------------------------------
(* State changes *)

LEMMA enterParts ==
    ASSUME NEW s \in World, NEW i \in Ports, NEW next \in States
    PROVE  /\ enter(s, i, next) \in World /\ enter(s, i, next).en = s.en
           /\ enter(s, i, next).ctx[i] = [s.ctx[i] EXCEPT !.state = next]
           /\ \A j \in Ports \ {i} : enter(s, i, next).ctx[j] = s.ctx[j]
<1>1. enter(s, i, next) \in World
  BY enterType
<1>2. QED
  BY <1>1 DEF enter, World

\* From one powered state to another.
LEMMA enterKept ==
    ASSUME NEW s \in World, NEW i \in Ports, NEW next \in Powered, s.ctx[i].state \in Powered
    PROVE  Kept(s, enter(s, i, next))
<1> DEFINE t == enter(s, i, next)
           p == [s.ctx[i] EXCEPT !.state = next]
<1>1. next \in States
  BY DEF States
<1>2. /\ t \in World /\ t.en = s.en /\ t.ctx[i] = p
      /\ \A j \in Ports \ {i} : t.ctx[j] = s.ctx[j]
  BY <1>1, enterParts
<1>3. Alike(s.ctx[i], p)
  BY PartsType DEF PortCtx, Alike
<1> HIDE DEF p, t
<1>4. Kept(s, t)
  BY <1>2, <1>3 DEF Kept, Alike
<1>5. QED
  BY <1>4 DEF t

\* A port is put into a state its line is right for.
LEMMA enterLit ==
    ASSUME NEW s, NEW i \in Ports, NEW next \in States, LitBut(s, i),
           Lamp([s.ctx[i] EXCEPT !.state = next], s.en[i], seated[i])
    PROVE  Lit(enter(s, i, next))
<1> DEFINE t == enter(s, i, next)
<1>1. s \in World
  BY DEF LitBut
<1>2. /\ t \in World /\ t.en = s.en /\ t.ctx[i] = [s.ctx[i] EXCEPT !.state = next]
      /\ \A j \in Ports \ {i} : t.ctx[j] = s.ctx[j]
  BY <1>1, enterParts
<1> HIDE DEF t
<1>3. LitBut(t, i)
  BY <1>2, OnlyPort
<1>4. Lit(t)
  BY <1>2, <1>3, LitParts
<1>5. QED
  BY <1>4 DEF t

\* What the lamp of a port that has just entered a state must be.
LEMMA LampAfter ==
    ASSUME NEW p \in PortCtx, NEW e \in BOOLEAN, NEW h, NEW next \in States
    PROVE  /\ next \in {"ABSENT", "FAULT", "DISABLED", "UPDATE"} /\ ~p.warm /\ ~e
                => Lamp([p EXCEPT !.state = next], e, h)
           /\ next \in Powered /\ ~p.warm /\ e => Lamp([p EXCEPT !.state = next], e, h)
           /\ next = "PROBE" /\ ~p.en_on /\ ~p.warm => Lamp([p EXCEPT !.state = next], e, h)
           /\ next = "PROBE" /\ ~p.en_on /\ p.warm /\ e /\ h /\ p.admin /\ Calm
                => Lamp([p EXCEPT !.state = next], e, h)
<1> DEFINE q == [p EXCEPT !.state = next]
<1>1. q.state = next /\ q.warm = p.warm /\ q.en_on = p.en_on /\ q.admin = p.admin
  BY DEF PortCtx
<1> HIDE DEF q
<1>2. next \in {"ABSENT", "FAULT", "DISABLED", "UPDATE"} /\ ~p.warm /\ ~e => Lamp(q, e, h)
  BY <1>1 DEF Lamp, Powered
<1>3. next \in Powered /\ ~p.warm /\ e => Lamp(q, e, h)
  BY <1>1 DEF Lamp, Powered
<1>4. next = "PROBE" /\ ~p.en_on /\ ~p.warm => Lamp(q, e, h)
  BY <1>1 DEF Lamp, Powered
<1>5. next = "PROBE" /\ ~p.en_on /\ p.warm /\ e /\ h /\ p.admin /\ Calm => Lamp(q, e, h)
  BY <1>1 DEF Lamp, Powered
<1>6. QED
  BY <1>2, <1>3, <1>4, <1>5 DEF q

\* The line goes low.
LEMMA EnOffDark ==
    ASSUME ExpanderAnswers, NEW s \in World, NEW i \in Ports, NEW b \in BusOutcomes
    PROVE  /\ EnOff(s, i, b) \in World /\ EnOff(s, i, b).ctx = s.ctx /\ ~EnOff(s, i, b).en[i]
           /\ \A j \in Ports \ {i} : EnOff(s, i, b).en[j] = s.en[j]
<1>1. EnOff(s, i, b) = [s EXCEPT !.en[i] = FALSE, !.sink[i] = 0]
  BY ExpanderTakes DEF EnOff
<1>2. EnOff(s, i, b) \in World /\ EnOff(s, i, b).ctx = s.ctx
  BY EnOffType
<1>3. QED
  BY <1>1, <1>2 DEF World

LEMMA UnpoweredWarm ==
    ASSUME NEW p \in PortCtx, NEW next
    PROVE  Unpowered(p, next).warm = p.warm
BY DEF Unpowered, PortCtx

\* Whatever was the matter with a port, taking it down sets its lamp.
LEMMA power_downLit ==
    ASSUME ExpanderAnswers, NEW s, NEW i \in Ports, LitBut(s, i), ~s.ctx[i].warm,
           NEW next \in {"ABSENT", "FAULT", "DISABLED"}, NEW b \in BusOutcomes
    PROVE  Lit(power_down(s, i, next, b))
<1> DEFINE p == Unpowered(s.ctx[i], next)
           e == EnOff(s, i, b)
           t == [e EXCEPT !.res[i] = 0, !.ctx[i] = p]
<1>1. s \in World /\ s.ctx[i] \in PortCtx /\ next \in States
  BY PartsType, StateNames DEF LitBut
<1>2. p \in PortCtx /\ p.warm = s.ctx[i].warm
  BY <1>1, UnpoweredType, UnpoweredWarm
<1>3. power_down(s, i, next, b) = enter(t, i, next)
  BY DEF power_down
<1> HIDE DEF p
<1>4. e \in World /\ e.ctx = s.ctx /\ ~e.en[i] /\ \A j \in Ports \ {i} : e.en[j] = s.en[j]
  BY <1>1, EnOffDark
<1> HIDE DEF e
<1>5. t \in World
  BY <1>2, <1>4, NatParameters, CtxResUpdate
<1>6. t.ctx[i] = p /\ t.en = e.en /\ \A j \in Ports \ {i} : t.ctx[j] = s.ctx[j]
  BY <1>2, <1>4 DEF World
<1> HIDE DEF t
<1>7. LitBut(t, i)
  BY <1>4, <1>5, <1>6, OnlyPort
<1>8. t.en[i] \in BOOLEAN /\ ~t.en[i]
  BY <1>4, <1>5, <1>6, PartsType
<1>9. Lamp([t.ctx[i] EXCEPT !.state = next], t.en[i], seated[i])
  BY <1>1, <1>2, <1>6, <1>8, LampAfter
<1>10. QED
  BY <1>1, <1>3, <1>7, <1>9, enterLit

LEMMA faultLit ==
    ASSUME ExpanderAnswers, NEW s, NEW i \in Ports, LitBut(s, i), ~s.ctx[i].warm,
           NEW b \in BusOutcomes
    PROVE  Lit(fault(s, i, b))
<1> DEFINE t == power_down(s, i, "FAULT", b)
<1>1. Lit(t)
  BY power_downLit
<1>2. fault(s, i, b) = [t EXCEPT !.ctx[i].cooling = TRUE]
  BY DEF fault
<1> HIDE DEF t
<1>3. Kept(t, [t EXCEPT !.ctx[i].cooling = TRUE])
  BY <1>1, FlagKept DEF Lit
<1>4. QED
  BY <1>1, <1>2, <1>3, KeptLit

\* A flag of the port that is out of order.
LEMMA AdminBut ==
    ASSUME NEW s, NEW i \in Ports, LitBut(s, i), ~s.ctx[i].warm
    PROVE  /\ LitBut([s EXCEPT !.ctx[i].admin = FALSE], i)
           /\ ~[s EXCEPT !.ctx[i].admin = FALSE].ctx[i].warm
<1> DEFINE t == [s EXCEPT !.ctx[i].admin = FALSE]
           p == [s.ctx[i] EXCEPT !.admin = FALSE]
<1>1. s \in World /\ s.ctx[i] \in PortCtx
  BY PartsType DEF LitBut
<1>2. t \in World
  BY <1>1, AdminUpdate
<1>3. t.ctx[i] = p /\ t.en = s.en /\ \A j \in Ports \ {i} : t.ctx[j] = s.ctx[j]
  BY <1>1 DEF World
<1>4. p.warm = s.ctx[i].warm
  BY <1>1 DEF PortCtx
<1> HIDE DEF t, p
<1>5. LitBut(t, i) /\ ~t.ctx[i].warm
  BY <1>2, <1>3, <1>4, OnlyPort
<1>6. QED
  BY <1>5 DEF t

LEMMA switch_offLit ==
    ASSUME ExpanderAnswers, NEW s, NEW i \in Ports, LitBut(s, i), ~s.ctx[i].warm,
           NEW b \in BusOutcomes
    PROVE  Lit(switch_off(s, i, b)) /\ Lit(auto_off(s, i, b))
<1> DEFINE t == [s EXCEPT !.ctx[i].admin = FALSE]
<1>1. LitBut(t, i) /\ ~t.ctx[i].warm
  BY AdminBut
<1>2. switch_off(s, i, b) = power_down(s, i, "DISABLED", b)
      /\ auto_off(s, i, b) = power_down(t, i, "DISABLED", b)
  BY DEF switch_off, auto_off
<1> HIDE DEF t
<1>3. QED
  BY <1>1, <1>2, power_downLit

LEMMA FreshParts ==
    ASSUME NEW p \in PortCtx
    PROVE  ~Fresh(p).en_on /\ Fresh(p).warm = p.warm /\ Fresh(p).admin = p.admin
BY DEF Fresh, PortCtx

\* A probe starts with a line nobody has raised for it yet, or with one that
\* was found on.
LEMMA start_probeLit ==
    ASSUME NEW s, NEW i \in Ports, LitBut(s, i),
           s.ctx[i].warm => s.en[i] /\ seated[i] /\ s.ctx[i].admin /\ Calm
    PROVE  Lit(start_probe(s, i))
<1> DEFINE p == Fresh(s.ctx[i])
           t == [s EXCEPT !.ctx[i] = p]
<1>1. s \in World /\ s.ctx[i] \in PortCtx
  BY PartsType DEF LitBut
<1>2. p \in PortCtx /\ ~p.en_on /\ p.warm = s.ctx[i].warm /\ p.admin = s.ctx[i].admin
  BY <1>1, FreshType, FreshParts
<1>3. start_probe(s, i) = enter(t, i, "PROBE")
  BY DEF start_probe
<1> HIDE DEF p
<1>4. t \in World
  BY <1>1, <1>2, CtxUpdate
<1>5. t.ctx[i] = p /\ t.en = s.en /\ \A j \in Ports \ {i} : t.ctx[j] = s.ctx[j]
  BY <1>1 DEF World
<1> HIDE DEF t
<1>6. LitBut(t, i) /\ t.en[i] \in BOOLEAN
  BY <1>4, <1>5, OnlyPort, PartsType
<1>7. Lamp([t.ctx[i] EXCEPT !.state = "PROBE"], t.en[i], seated[i])
  BY <1>2, <1>5, <1>6, LampAfter, StateNames
<1>8. QED
  BY <1>3, <1>6, <1>7, enterLit, StateNames

\* A port that serves, or is asked about an offer it made, is not an adopted
\* one that waits for its probe.
LEMMA NotWarm ==
    ASSUME NEW s, NEW i \in Ports, Lit(s), s.ctx[i].state \notin {"ABSENT", "PROBE"}
    PROVE  ~s.ctx[i].warm
BY DEF Lit, Lamp

LEMMA go_idleLit ==
    ASSUME NEW s, NEW i \in Ports, LitBut(s, i), s.en[i], ~s.ctx[i].warm
    PROVE  Lit(go_idle(s, i))
<1>1. s \in World /\ s.ctx[i] \in PortCtx /\ s.en[i] \in BOOLEAN
  BY PartsType DEF LitBut
<1>2. "IDLE" \in States /\ "IDLE" \in Powered
  BY DEF States, Powered
<1>3. Lamp([s.ctx[i] EXCEPT !.state = "IDLE"], s.en[i], seated[i])
  BY <1>1, <1>2, LampAfter
<1>4. QED
  BY <1>2, <1>3, enterLit DEF go_idle

LEMMA probe_failedLit ==
    ASSUME ExpanderAnswers, NEW s, NEW i \in Ports, Lit(s),
           NEW late \in BOOLEAN, NEW b \in BusOutcomes
    PROVE  Lit(probe_failed(s, i, late, b))
<1> DEFINE p == [s.ctx[i] EXCEPT !.switching = FALSE, !.attempts = @ + 1]
           q == [p EXCEPT !.warm = FALSE]
           t == [s EXCEPT !.ctx[i] = p]
           u == [s EXCEPT !.ctx[i] = q]
<1>0. s \in World /\ s.ctx[i] \in PortCtx
  BY PartsType DEF Lit
<1>1. p \in PortCtx
  BY <1>0, ProbeCtx
<1>2. Alike(s.ctx[i], p)
  BY <1>0 DEF PortCtx, Alike
<1>3. probe_failed(s, i, late, b) \in {s, t, fault(u, i, b)}
  BY DEF probe_failed
<1> HIDE DEF p
<1>4. q \in PortCtx /\ ~q.warm
  <2>1. q \in PortCtx
    BY <1>1, FlagCtx
  <2>2. ~q.warm
    BY <1>1 DEF PortCtx
  <2>3. QED
    BY <2>1, <2>2
<1> HIDE DEF q
<1>5. Kept(s, t)
  BY <1>0, <1>1, <1>2, CtxKept
<1>6. u \in World /\ u.ctx[i] = q /\ u.en = s.en /\ \A j \in Ports \ {i} : u.ctx[j] = s.ctx[j]
  BY <1>0, <1>4 DEF World
<1> HIDE DEF t, u
<1>7. Lit(t)
  BY <1>5, KeptLit
<1>8. LitBut(u, i)
  BY <1>6, LitParts, OnlyPort
<1>9. Lit(fault(u, i, b))
  BY <1>4, <1>6, <1>8, faultLit
<1>10. QED
  BY <1>3, <1>7, <1>9

LEMMA warm_probe_failedKept ==
    ASSUME NEW s \in World, NEW i \in Ports, NEW late \in BOOLEAN
    PROVE  Kept(s, warm_probe_failed(s, i, late))
<1> DEFINE p == [s.ctx[i] EXCEPT !.switching = FALSE, !.attempts = @ + 1]
           q == [p EXCEPT !.silent = TRUE]
           t == [s EXCEPT !.ctx[i] = p]
           u == [s EXCEPT !.ctx[i].switching = FALSE]
           v == [s EXCEPT !.ctx[i] = q, !.res[i] = BASE_RESERVE]
<1>0. s.ctx[i] \in PortCtx
  BY PartsType
<1>1. p \in PortCtx
  BY <1>0, ProbeCtx
<1>2. Alike(s.ctx[i], p)
  BY <1>0 DEF PortCtx, Alike
<1>3. warm_probe_failed(s, i, late) \in {s, t, u, v}
  BY DEF warm_probe_failed
<1> HIDE DEF p
<1>4. q \in PortCtx /\ Alike(p, q)
  <2>1. q \in PortCtx
    BY <1>1, FlagCtx
  <2>2. Alike(p, q)
    BY <1>1 DEF PortCtx, Alike
  <2>3. QED
    BY <2>1, <2>2
<1> HIDE DEF q
<1>5. Kept(s, t) /\ Kept(s, u) /\ Kept(s, v)
  BY <1>1, <1>2, <1>4, AlikeTrans, CtxKept, FlagKept, NatParameters, CtxResKept
<1> HIDE DEF t, u, v
<1>6. QED
  BY <1>3, <1>5, KeptSame

------------------------------------------------------------------------------
(* Bootloader trips *)

LEMMA begin_updateLit ==
    ASSUME ExpanderAnswers, NEW s, NEW i \in Ports, LitBut(s, i), NEW b \in BusOutcomes
    PROVE  Lit(begin_update(s, i, b))
<1> DEFINE p == [s.ctx[i] EXCEPT !.warm = FALSE, !.silent = FALSE]
           e == EnOff(s, i, b)
           dark == BladeDown(e, i)
           q == [p EXCEPT !.held = TRUE]
           r == [p EXCEPT !.rounds = @ + 1, !.rewrite = FALSE]
           t == [dark EXCEPT !.ctx[i] = q]
           u == [dark EXCEPT !.ctx[i] = r]
<1>0. s \in World /\ s.ctx[i] \in PortCtx
  BY PartsType DEF LitBut
<1>1. p \in PortCtx /\ ~p.warm
  BY <1>0 DEF PortCtx
<1>2. e \in World /\ e.ctx = s.ctx /\ ~e.en[i] /\ \A j \in Ports \ {i} : e.en[j] = s.en[j]
  BY <1>0, EnOffDark
<1> HIDE DEF e
<1>3. dark \in World /\ dark.ctx = s.ctx /\ dark.en = e.en
  BY <1>2, BladeDownType DEF BladeDown, World
<1>4. \A o \in PortCtx : LET w == [dark EXCEPT !.ctx[i] = o]
                         IN  /\ LitBut(w, i) /\ w.ctx[i] = o /\ w \in World
                             /\ w.en[i] \in BOOLEAN /\ ~w.en[i]
  <2> SUFFICES ASSUME NEW o \in PortCtx, NEW w, w = [dark EXCEPT !.ctx[i] = o]
               PROVE  LitBut(w, i) /\ w.ctx[i] = o /\ w \in World /\ w.en[i] \in BOOLEAN /\ ~w.en[i]
    OBVIOUS
  <2> HIDE DEF dark, p
  <2>1. w \in World
    BY <1>3, CtxUpdate
  <2>2. w.ctx[i] = o /\ w.en = dark.en /\ \A j \in Ports \ {i} : w.ctx[j] = dark.ctx[j]
    BY <1>3 DEF World
  <2>3. LitBut(w, i)
    <3>1. \A j \in Ports \ {i} : w.ctx[j] = s.ctx[j] /\ w.en[j] = s.en[j]
      BY <1>2, <1>3, <2>2
    <3>2. QED
      BY <2>1, <3>1 DEF LitBut
  <2>4. w.en[i] \in BOOLEAN /\ ~w.en[i]
    BY <1>2, <1>3, <2>1, <2>2, PartsType
  <2>5. QED
    BY <2>1, <2>2, <2>3, <2>4
<1>5. CASE p.rounds >= UPDATE_ROUNDS_MAX
  <2>1. begin_update(s, i, b) = fault(t, i, b)
    BY <1>5 DEF begin_update, e
  <2> HIDE DEF p, dark
  <2>2. q \in PortCtx
    BY <1>1, FlagCtx
  <2>3. ~q.warm
    BY <1>1 DEF PortCtx
  <2> HIDE DEF q
  <2>4. LitBut(t, i) /\ t.ctx[i] = q
    BY <1>4, <2>2
  <2> HIDE DEF t
  <2>5. QED
    BY <2>1, <2>3, <2>4, faultLit
<1>6. CASE ~(p.rounds >= UPDATE_ROUNDS_MAX)
  <2>1. begin_update(s, i, b) = enter(u, i, "UPDATE")
    BY <1>6 DEF begin_update, e
  <2> HIDE DEF p, dark
  <2>2. r \in PortCtx
    <3>1. p.rounds \in 0..UPDATE_ROUNDS_MAX
      BY <1>1, CtxParts
    <3>2. p.rounds + 1 \in 0..UPDATE_ROUNDS_MAX
      BY <1>6, <3>1, NatParameters
    <3>3. QED
      BY <1>1, <3>2 DEF PortCtx
  <2>3. ~r.warm
    BY <1>1 DEF PortCtx
  <2> HIDE DEF r
  <2>4. LitBut(u, i) /\ u.ctx[i] = r /\ u.en[i] \in BOOLEAN /\ ~u.en[i]
    BY <1>4, <2>2
  <2> HIDE DEF u
  <2>5. Lamp([u.ctx[i] EXCEPT !.state = "UPDATE"], u.en[i], seated[i])
    BY <2>2, <2>3, <2>4, LampAfter, StateNames
  <2>6. QED
    BY <2>1, <2>4, <2>5, enterLit, StateNames
<1>7. QED
  BY <1>5, <1>6

LEMMA ReleasedAlike ==
    ASSUME NEW p \in PortCtx
    PROVE  Alike(p, Released(p)) /\ Released(p).rounds = p.rounds
BY DEF Released, PortCtx, Alike

\* The blade is sent away and its port probed anew, or the port is kept.
LEMMA send_to_loaderLit ==
    ASSUME NEW s, NEW i \in Ports, Lit(s), ~s.ctx[i].warm, NEW b \in BusOutcomes
    PROVE  /\ Lit(send_to_loader(s, i, b))
           /\ ~Sends(s, i, b) => Kept(s, send_to_loader(s, i, b))
<1> DEFINE p == s.ctx[i]
           boot_opt == "boot_opt" \in blade_wants(p)
           sent == [Released(p) EXCEPT !.rounds = IF boot_opt THEN @ + 1 ELSE @]
           away == Reboots(s, i)
           gone == [away EXCEPT !.res[i] = 0, !.ctx[i] = sent]
           probe == start_probe(gone, i)
           again == [probe EXCEPT !.ctx[i].switching = TRUE]
           stuck == [p EXCEPT !.stuck = TRUE, !.rewrite = FALSE, !.rounds = 0]
           kept == [s EXCEPT !.ctx[i] = stuck]
<1>0. s \in World /\ p \in PortCtx
  BY PartsType DEF Lit
<1>1. CASE Sends(s, i, b)
  <2>1. p.rounds < UPDATE_ROUNDS_MAX /\ p.rounds \in 0..UPDATE_ROUNDS_MAX
    BY <1>0, <1>1, CtxParts DEF Sends
  <2>2. send_to_loader(s, i, b) = again
    <3>1. ~(p.rounds >= UPDATE_ROUNDS_MAX)
      BY <2>1, NatParameters
    <3>2. QED
      BY <1>1, <3>1 DEF send_to_loader
  <2>3. Released(p) \in PortCtx /\ Alike(p, Released(p)) /\ Released(p).rounds = p.rounds
    BY <1>0, ReleasedType, ReleasedAlike
  <2>4. sent \in PortCtx /\ Alike(p, sent)
    <3>1. (IF boot_opt THEN Released(p).rounds + 1 ELSE Released(p).rounds) \in 0..UPDATE_ROUNDS_MAX
      BY <2>1, <2>3, NatParameters
    <3>2. sent \in PortCtx
      BY <2>3, <3>1 DEF PortCtx
    <3>3. Alike(Released(p), sent)
      BY <2>3 DEF PortCtx, Alike
    <3>4. QED
      BY <2>3, <3>2, <3>3, AlikeTrans
  <2> HIDE DEF sent
  <2>5. Kept(s, away)
    BY <1>0, RebootsKept
  <2>6. away.ctx = s.ctx
    BY <1>0, BladeDownType, RebootsType DEF Reboots, World
  <2> HIDE DEF away
  <2>7. Kept(away, gone)
    <3>1. away \in World /\ Alike(away.ctx[i], sent) /\ 0 \in Nat
      BY <2>4, <2>5, <2>6 DEF Kept
    <3>2. QED
      BY <2>4, <3>1, ResCtxKept
  <2> HIDE DEF gone
  <2>8. Kept(s, gone)
    BY <2>5, <2>7, KeptTrans
  <2>9. LitBut(gone, i) /\ ~gone.ctx[i].warm
    BY <2>8, KeptLit, LitParts
  <2>10. Lit(probe)
    BY <2>9, start_probeLit
  <2> HIDE DEF probe
  <2>11. Kept(probe, again)
    BY <2>10, FlagKept DEF Lit
  <2> HIDE DEF again
  <2>12. QED
    BY <1>1, <2>2, <2>10, <2>11, KeptLit
<1>2. CASE ~Sends(s, i, b)
  <2>1. send_to_loader(s, i, b) \in {s, kept}
    BY <1>2 DEF send_to_loader
  <2>2. \A z \in 0..UPDATE_ROUNDS_MAX :
          [p EXCEPT !.stuck = TRUE, !.rewrite = FALSE, !.rounds = z] \in PortCtx
    BY <1>0 DEF PortCtx
  <2>3. stuck \in PortCtx
    BY <2>2, NatParameters
  <2>4. Alike(p, stuck)
    BY <1>0 DEF PortCtx, Alike
  <2> HIDE DEF stuck
  <2>5. Kept(s, kept)
    BY <1>0, <2>3, <2>4, CtxKept
  <2> HIDE DEF kept
  <2>6. QED
    BY <1>0, <2>1, <2>5, KeptSame, KeptLit
<1>3. QED
  BY <1>1, <1>2

------------------------------------------------------------------------------
(* Sharing the budget *)

LEMMA ThrottledAlike ==
    ASSUME NEW p \in PortCtx, p.state \in {"ACTIVE", "THROTTLED"}, NEW i, NEW grant, NEW want
    PROVE  Alike(p, ThrottledCtx(p, i, grant, want))
<1> DEFINE q == Renegotiate(p, TRUE)
           d == IF want > q.denied THEN want ELSE q.denied
           g == ThrottleLimit(i, grant)
           t == [q EXCEPT !.granted = g, !.contract = grant, !.denied = d, !.state = "THROTTLED"]
<1>1. q \in PortCtx /\ Alike(p, q) /\ q.admin = p.admin
  BY RenegotiateType, RenegotiateAlike, RenegotiateParts
<1>2. ThrottledCtx(p, i, grant, want) = t
  BY DEF ThrottledCtx
<1> HIDE DEF q, g, d
<1>3. t.state = "THROTTLED" /\ t.warm = q.warm /\ t.en_on = q.en_on /\ t.admin = q.admin
  BY <1>1 DEF PortCtx
<1> HIDE DEF t
<1>4. QED
  BY <1>1, <1>2, <1>3 DEF Alike, Powered

LEMMA apply_throttleKept ==
    ASSUME SettingsOK, NEW s \in World, NEW i \in Ports,
           s.ctx[i].state \in {"ACTIVE", "THROTTLED"},
           NEW grant \in Nat, NEW want \in Nat, NEW b \in BusOutcomes
    PROVE  Kept(s, apply_throttle(s, i, grant, want, b))
<1> DEFINE g == ThrottleLimit(i, grant)
           t == WriteLimits(s, i, g, port_max_w[i], b)
           p == ThrottledCtx(s.ctx[i], i, grant, want)
<1>0. s.ctx[i] \in PortCtx
  BY PartsType
<1>1. g \in Nat /\ port_max_w[i] \in Nat
  BY ThrottleLimitType, LimitType
<1> HIDE DEF g
<1>2. t \in World /\ t.ctx = s.ctx /\ Kept(s, t)
  BY <1>1, WriteLimitsType, WriteLimitsKept
<1>3. apply_throttle(s, i, grant, want, b) = [t EXCEPT !.res[i] = grant, !.ctx[i] = p]
  BY <1>2 DEF apply_throttle, World, g
<1>4. p \in PortCtx /\ Alike(s.ctx[i], p)
  BY <1>0, ThrottledCtxType, ThrottledAlike
<1> HIDE DEF t, p
<1>5. Kept(t, [t EXCEPT !.res[i] = grant, !.ctx[i] = p])
  BY <1>2, <1>4, CtxResKept
<1>6. QED
  BY <1>2, <1>3, <1>5, KeptTrans

LEMMA throttleKept ==
    ASSUME SettingsOK, NEW s \in World, NEW i \in Ports,
           s.ctx[i].state \in {"ACTIVE", "THROTTLED"}, NEW want \in Nat, NEW b \in BusOutcomes
    PROVE  Kept(s, throttle(s, i, want, b))
<1> DEFINE room == budget_headroom(s.res, total) + s.res[i]
           floor == IF room < BASE_RESERVE THEN BASE_RESERVE ELSE room
           n == Least(floor, want)
<1>1. room \in Nat
  BY HeadroomType, PartsType
<1>2. throttle(s, i, want, b) = apply_throttle(s, i, n, want, b)
  BY DEF throttle
<1> HIDE DEF room
<1>3. n \in Nat
  BY <1>1, NatParameters DEF Least
<1> HIDE DEF n
<1>4. QED
  BY <1>2, <1>3, apply_throttleKept

\* A shed lowers limits: no line moves.
LEMMA shed_lower_priorityKept ==
    ASSUME SettingsOK, NEW s \in World, NEW i \in Ports, NEW want \in Nat, NEW b \in BusOutcomes
    PROVE  /\ Kept(s, shed_lower_priority(s, i, want, b))
           /\ shed_lower_priority(s, i, want, b).ctx[i] = s.ctx[i]
<1> DEFINE V == Victims(s, i) \cap b.reach
           take == [v \in Ports |-> Reclaim(s, i, want, V, v)]
           hit == {v \in Ports : take[v] > 0}
           grant == [v \in Ports |-> s.res[v] - take[v]]
           c == [v \in Ports |->
                   IF v \in hit THEN ThrottledCtx(s.ctx[v], v, grant[v], s.ctx[v].contract)
                   ELSE s.ctx[v]]
           t == shed_lower_priority(s, i, want, b)
<1>1. t \in World
  BY shed_lower_priorityType
<1>2. t.ctx = c /\ t.en = s.en
  BY DEF shed_lower_priority, World
<1>3. \A v \in Ports \ V : take[v] = 0
  BY DEF Reclaim
<1>4. \A v \in hit : v \in Ports /\ take[v] # 0
  OBVIOUS
<1>5. \A v \in V : v # i /\ s.ctx[v].state \in {"ACTIVE", "THROTTLED"}
  BY DEF Victims
<1> HIDE DEF V, take, hit, grant, t
<1>6. \A v \in hit : v # i /\ s.ctx[v].state \in {"ACTIVE", "THROTTLED"}
  BY <1>3, <1>4, <1>5
<1>7. \A v \in Ports : Alike(s.ctx[v], c[v])
  <2> SUFFICES ASSUME NEW v \in Ports PROVE Alike(s.ctx[v], c[v])
    OBVIOUS
  <2>1. s.ctx[v] \in PortCtx
    BY PartsType
  <2>2. CASE v \in hit
    BY <1>6, <2>1, <2>2, ThrottledAlike
  <2>3. CASE v \notin hit
    BY <2>3 DEF Alike
  <2>4. QED
    BY <2>2, <2>3
<1>8. t.ctx[i] = s.ctx[i]
  BY <1>2, <1>6
<1>9. Kept(s, t)
  BY <1>1, <1>2, <1>7 DEF Kept
<1>10. QED
  BY <1>8, <1>9 DEF t

LEMMA track_contractKept ==
    ASSUME SettingsOK, NEW s \in World, NEW i \in Ports,
           s.ctx[i].state \in {"ACTIVE", "THROTTLED"},
           NEW late \in BOOLEAN, NEW b \in BusOutcomes
    PROVE  Kept(s, track_contract(s, i, late, b))
<1> DEFINE p == s.ctx[i]
           want == IF p.st.contract < BASE_RESERVE THEN BASE_RESERVE ELSE p.st.contract
           heard == [s EXCEPT !.ctx[i].renegotiating = FALSE]
           shed == IF budget_fits(s.res, total, i, want) THEN heard
                   ELSE shed_lower_priority(heard, i, want, b)
           q == [shed.ctx[i] EXCEPT !.contract = want]
           given == [shed EXCEPT !.res[i] = want, !.ctx[i].contract = want]
           cut == throttle(shed, i, want, b)
<1>0. p \in PortCtx
  BY PartsType
<1>1. want \in Nat
  BY <1>0, CtxParts, NatParameters
<1>2. Kept(s, heard)
  BY FlagKept
<1>3. track_contract(s, i, late, b) \in {s, heard, given, cut}
  BY DEF track_contract
<1>4. heard \in World /\ heard.ctx[i].state = p.state
  BY <1>0, <1>2 DEF Kept, World, PortCtx
<1> HIDE DEF want, heard
<1>5. Kept(heard, shed) /\ shed \in World /\ shed.ctx[i] = heard.ctx[i]
  BY <1>1, <1>4, shed_lower_priorityKept, KeptSame DEF Kept
<1> HIDE DEF shed
<1>6. shed.ctx[i].state \in {"ACTIVE", "THROTTLED"} /\ shed.ctx[i] \in PortCtx
  BY <1>4, <1>5, PartsType
<1>7. Kept(shed, cut)
  BY <1>1, <1>5, <1>6, throttleKept
<1>8. Kept(shed, given)
  <2>1. q \in PortCtx
    BY <1>1, <1>6, ContractCtx
  <2>2. Alike(shed.ctx[i], q)
    BY <1>6 DEF PortCtx, Alike
  <2>3. given = [shed EXCEPT !.res[i] = want, !.ctx[i] = q]
    BY <1>5 DEF World
  <2> HIDE DEF q
  <2>4. QED
    BY <1>1, <1>5, <2>1, <2>2, <2>3, CtxResKept
<1> HIDE DEF given, cut
<1>9. Kept(s, shed)
  BY <1>2, <1>5, KeptTrans
<1>10. Kept(s, given) /\ Kept(s, cut)
  BY <1>7, <1>8, <1>9, KeptTrans
<1>11. QED
  BY <1>2, <1>3, <1>10, KeptSame

LEMMA unthrottleKept ==
    ASSUME SettingsOK, NEW s \in World, NEW i \in Ports, s.ctx[i].state = "THROTTLED",
           NEW b \in BusOutcomes
    PROVE  Kept(s, unthrottle(s, i, b))
<1> DEFINE yes == TRUE
           t == [set_limits(s, i, limit_for(i), port_max_w[i], yes, b)
                   EXCEPT !.ctx[i].granted = limit_for(i)]
<1>0. yes \in BOOLEAN
  OBVIOUS
<1>1. unthrottle(s, i, b) \in {enter(s, i, "ACTIVE"), enter(t, i, "ACTIVE")}
  BY DEF unthrottle
<1> HIDE DEF yes
<1>2. Kept(s, t)
  BY <1>0, LimitedKept
<1> HIDE DEF t
<1>3. \A u : Kept(s, u) => Kept(s, enter(u, i, "ACTIVE"))
  <2> SUFFICES ASSUME NEW u, Kept(s, u) PROVE Kept(s, enter(u, i, "ACTIVE"))
    OBVIOUS
  <2>1. u \in World /\ u.ctx[i].state \in Powered
    BY DEF Kept, Alike, Powered
  <2>2. Kept(u, enter(u, i, "ACTIVE"))
    BY <2>1, enterKept DEF Powered
  <2>3. QED
    BY <2>2, KeptTrans
<1>4. QED
  BY <1>1, <1>2, <1>3, KeptSame

LEMMA RecoverKept ==
    ASSUME SettingsOK, NEW s \in World, NEW i \in Ports, NEW due \in BOOLEAN, NEW b \in BusOutcomes
    PROVE  Kept(s, Recover(s, i, due, b))
<1> DEFINE n == s.ctx[i].denied
           room == budget_headroom(s.res, total)
           more == s.res[i] + room
           q == [s.ctx[i] EXCEPT !.contract = n, !.denied = 0]
           all == [s EXCEPT !.res[i] = n, !.ctx[i].contract = n, !.ctx[i].denied = 0]
<1>0. s.ctx[i] \in PortCtx
  BY PartsType
<1>1. n \in Nat /\ room \in Nat /\ s.res[i] \in Nat
  BY <1>0, HeadroomType, PartsType, CtxParts
<1>2. \/ Recover(s, i, due, b) = s
      \/ s.ctx[i].state = "THROTTLED" /\ Recover(s, i, due, b) = unthrottle(all, i, b)
      \/ s.ctx[i].state = "THROTTLED" /\ Recover(s, i, due, b) = apply_throttle(s, i, more, n, b)
  BY DEF Recover
<1>3. all = [s EXCEPT !.res[i] = n, !.ctx[i] = q]
  BY <1>0 DEF World
<1>4. more \in Nat
  BY <1>1
<1>5. q \in PortCtx
  BY <1>0, <1>1, ContractCtx
<1>6. Alike(s.ctx[i], q) /\ q.state = s.ctx[i].state
  BY <1>0 DEF PortCtx, Alike
<1> HIDE DEF n, room, more, q, all
<1>7. Kept(s, all) /\ all \in World /\ all.ctx[i] = q
  <2>1. Kept(s, all)
    BY <1>1, <1>3, <1>5, <1>6, CtxResKept
  <2>2. all.ctx[i] = q
    BY <1>3 DEF World
  <2>3. QED
    BY <2>1, <2>2 DEF Kept
<1>8. CASE s.ctx[i].state = "THROTTLED" /\ Recover(s, i, due, b) = unthrottle(all, i, b)
  BY <1>6, <1>7, <1>8, unthrottleKept, KeptTrans
<1>9. CASE s.ctx[i].state = "THROTTLED" /\ Recover(s, i, due, b) = apply_throttle(s, i, more, n, b)
  BY <1>1, <1>4, <1>9, apply_throttleKept
<1>10. QED
  BY <1>2, <1>8, <1>9, KeptSame

------------------------------------------------------------------------------
(* A powered port's tick *)

LEMMA charge_trackLit ==
    ASSUME ExpanderAnswers, NEW s, NEW i \in Ports, Lit(s), ~s.ctx[i].warm,
           NEW charge, NEW b \in BusOutcomes
    PROVE  /\ Lit(charge_track(s, i, charge, b))
           /\ charge # "off" => Kept(s, charge_track(s, i, charge, b))
<1> DEFINE t == [s EXCEPT !.ctx[i].charged = TRUE]
           u == [s EXCEPT !.ctx[i].charged = FALSE]
<1>0. s \in World /\ LitBut(s, i)
  BY LitParts DEF Lit
<1>1. /\ charge # "off" => charge_track(s, i, charge, b) \in {s, t, u}
      /\ charge = "off" => charge_track(s, i, charge, b) = auto_off(s, i, b)
  BY DEF charge_track
<1>2. Kept(s, t) /\ Kept(s, u)
  BY <1>0, FlagKept
<1> HIDE DEF t, u
<1>3. Lit(auto_off(s, i, b))
  BY <1>0, switch_offLit
<1>4. QED
  BY <1>0, <1>1, <1>2, <1>3, KeptSame, KeptLit

LEMMA attach_beginKept ==
    ASSUME NEW s \in World, NEW i \in Ports
    PROVE  Kept(s, attach_begin(s, i))
<1> DEFINE p == [s.ctx[i] EXCEPT !.renegotiating = FALSE, !.charged = FALSE]
<1>0. s.ctx[i] \in PortCtx
  BY PartsType
<1>1. p \in PortCtx /\ Alike(s.ctx[i], p)
  BY <1>0 DEF PortCtx, Alike
<1>2. attach_begin(s, i) = [s EXCEPT !.ctx[i] = p]
  BY DEF attach_begin, World
<1> HIDE DEF p
<1>3. QED
  BY <1>1, <1>2, CtxKept

LEMMA ServeIdleLit ==
    ASSUME SettingsOK, NEW s, NEW i \in Ports, Lit(s), s.ctx[i].state = "IDLE",
           NEW c \in Chance, NEW b \in BusOutcomes
    PROVE  Lit(ServeIdle(s, i, c, b))
<1> DEFINE t == sync_limit(s, i, b)
           k == attach_begin(t, i)
           a == enter(k, i, "ACTIVE")
           l == send_to_loader(t, i, b)
           no == FALSE
           r == track_contract(a, i, no, b)
<1>0. s \in World /\ ~s.ctx[i].warm /\ no \in BOOLEAN /\ "ACTIVE" \in Powered /\ "ACTIVE" \in States
  BY NotWarm DEF Lit, Powered, States
<1>1. Kept(s, t)
  BY <1>0, sync_limitKept
<1>2. ServeIdle(s, i, c, b) \in {t, l, r}
  BY DEF ServeIdle
<1> HIDE DEF t, no
<1>3. Lit(t) /\ t \in World /\ ~t.ctx[i].warm
  BY <1>0, <1>1, KeptLit DEF Kept
<1>4. Kept(t, k)
  BY <1>3, attach_beginKept
<1> HIDE DEF k
<1>5. Kept(s, k) /\ k \in World /\ k.ctx[i].state \in Powered
  BY <1>0, <1>1, <1>4, KeptTrans, KeptLit DEF Kept, Powered
<1>6. Kept(k, a)
  BY <1>0, <1>5, enterKept
<1>7. a.ctx[i].state = "ACTIVE"
  <2>1. a.ctx[i] = [k.ctx[i] EXCEPT !.state = "ACTIVE"] /\ k.ctx[i] \in PortCtx
    BY <1>0, <1>5, enterParts, PartsType
  <2>2. QED
    BY <2>1 DEF PortCtx
<1> HIDE DEF a
<1>8. Kept(a, r)
  BY <1>0, <1>6, <1>7, track_contractKept DEF Kept
<1>9. Kept(s, r)
  BY <1>5, <1>6, <1>8, KeptTrans
<1> HIDE DEF r
<1>10. Lit(l)
  BY <1>3, send_to_loaderLit
<1>11. QED
  BY <1>2, <1>3, <1>9, <1>10, KeptLit

LEMMA sync_limitState ==
    ASSUME SettingsOK, NEW s \in World, NEW i \in Ports, NEW b \in BusOutcomes
    PROVE  sync_limit(s, i, b).ctx[i].state = s.ctx[i].state
<1> DEFINE t == WriteLimits(s, i, limit_for(i), port_max_w[i], b)
           a == s.ctx[i].st.attached
           p == Renegotiate(s.ctx[i], a)
           q == [p EXCEPT !.granted = limit_for(i)]
           u == [[t EXCEPT !.ctx[i] = p] EXCEPT !.ctx[i].granted = limit_for(i)]
<1>0. limit_for(i) \in Nat /\ port_max_w[i] \in Nat /\ s.ctx[i] \in PortCtx
  BY LimitType, PartsType
<1>1. t \in World /\ t.ctx = s.ctx
  BY <1>0, WriteLimitsType
<1>2. sync_limit(s, i, b) \in {s, u}
  BY DEF sync_limit, set_limits
<1>3. p \in PortCtx /\ p.state = s.ctx[i].state
  <2>1. a \in BOOLEAN
    BY <1>0, CtxParts
  <2> HIDE DEF a
  <2>2. QED
    BY <1>0, <2>1, RenegotiateType, RenegotiateParts
<1> HIDE DEF t, p
<1>4. u.ctx[i] = q
  BY <1>1 DEF World
<1>5. q.state = p.state
  BY <1>3 DEF PortCtx
<1>6. QED
  BY <1>2, <1>3, <1>4, <1>5

LEMMA ServeAttachedLit ==
    ASSUME SettingsOK, ExpanderAnswers, NEW s, NEW i \in Ports, Lit(s),
           s.ctx[i].state \in {"ACTIVE", "THROTTLED"}, NEW c \in Chance, NEW b \in BusOutcomes
    PROVE  Lit(ServeAttached(s, i, c, b))
<1> DEFINE l == sync_limit(s, i, b)
           late == c.late /\ l.ctx[i].granted = s.ctx[i].granted
           t == track_contract(l, i, late, b)
           u == charge_track(t, i, c.charge, b)
           v == send_to_loader(u, i, b)
           r == Recover(u, i, c.due, b)
           w == Recover(v, i, c.due, b)
<1>0. s \in World /\ ~s.ctx[i].warm
  BY NotWarm DEF Lit
<1>1. c.late \in BOOLEAN /\ c.due \in BOOLEAN
  BY DEF Chance
<1>2. late \in BOOLEAN
  BY <1>1
<1>3. \/ ServeAttached(s, i, c, b) = u
      \/ c.charge # "off" /\ ServeAttached(s, i, c, b) \in {v, r, w}
  BY DEF ServeAttached
<1> HIDE DEF late
<1>4. Kept(s, l) /\ l.ctx[i].state \in {"ACTIVE", "THROTTLED"}
  <2>1. Kept(s, l)
    BY <1>0, sync_limitKept
  <2>2. l.ctx[i].state = s.ctx[i].state
    BY <1>0, sync_limitState
  <2>3. QED
    BY <2>1, <2>2
<1> HIDE DEF l
<1>5. Kept(l, t)
  BY <1>2, <1>4, track_contractKept DEF Kept
<1> HIDE DEF t
<1>6. Lit(t) /\ ~t.ctx[i].warm
  BY <1>0, <1>4, <1>5, KeptTrans, KeptLit
<1>7. Lit(u) /\ (c.charge # "off" => Kept(t, u))
  BY <1>6, charge_trackLit
<1> HIDE DEF u
<1>8. c.charge # "off" => Lit(v) /\ Lit(r) /\ Lit(w)
  <2> SUFFICES ASSUME c.charge # "off" PROVE Lit(v) /\ Lit(r) /\ Lit(w)
    OBVIOUS
  <2>1. ~u.ctx[i].warm
    BY <1>6, <1>7, KeptLit
  <2>2. Lit(v)
    BY <1>7, <2>1, send_to_loaderLit
  <2> HIDE DEF v
  <2>3. Kept(u, r) /\ Kept(v, w)
    BY <1>1, <1>7, <2>2, RecoverKept DEF Lit
  <2>4. QED
    BY <1>7, <2>2, <2>3, KeptLit
<1> HIDE DEF v, r, w
<1>9. QED
  BY <1>3, <1>7, <1>8

LEMMA DetachedKept ==
    ASSUME NEW s \in World, NEW i \in Ports
    PROVE  Kept(s, Detached(s, i))
<1> DEFINE p == [s.ctx[i] EXCEPT !.contract = 0, !.denied = 0]
           t == [s EXCEPT !.res[i] = BASE_RESERVE, !.ctx[i] = p]
           z == 0
<1>0. s.ctx[i] \in PortCtx /\ z \in Nat
  BY PartsType
<1>1. p \in PortCtx
  BY <1>0, ContractCtx
<1>2. Alike(s.ctx[i], p)
  BY <1>0 DEF PortCtx, Alike
<1>3. Detached(s, i) = t
  BY <1>0 DEF Detached, World
<1> HIDE DEF p
<1>4. QED
  <2>1. BASE_RESERVE \in Nat
    BY NatParameters
  <2>2. Kept(s, t)
    BY <1>1, <1>2, <2>1, ResCtxKept
  <2> HIDE DEF t
  <2>3. QED
    BY <1>3, <2>2

LEMMA ServeLit ==
    ASSUME SettingsOK, ExpanderAnswers, NEW s, NEW i \in Ports, Lit(s), s.ctx[i].state \in Powered,
           NEW c \in Chance, NEW b \in BusOutcomes
    PROVE  Lit(Serve(s, i, c, b))
<1> DEFINE e == Detached(s, i)
           d == sync_limit(e, i, b)
<1>0. s \in World /\ ~s.ctx[i].warm /\ s.en[i]
  BY NotWarm DEF Lit, Lamp, Powered
<1>1. \/ s.ctx[i].state = "IDLE" /\ Serve(s, i, c, b) = ServeIdle(s, i, c, b)
      \/ s.ctx[i].state # "IDLE" /\ Serve(s, i, c, b) = ServeAttached(s, i, c, b)
      \/ Serve(s, i, c, b) = go_idle(d, i)
  BY DEF Serve
<1>2. Kept(s, e)
  BY <1>0, DetachedKept
<1> HIDE DEF e
<1>3. Kept(e, d)
  BY <1>2, sync_limitKept DEF Kept
<1> HIDE DEF d
<1>4. Kept(s, d)
  BY <1>2, <1>3, KeptTrans
<1>5. LitBut(d, i) /\ ~d.ctx[i].warm /\ d.en[i]
  BY <1>0, <1>4, KeptLit, LitParts
<1>6. Lit(go_idle(d, i))
  BY <1>5, go_idleLit
<1>7. CASE s.ctx[i].state = "IDLE" /\ Serve(s, i, c, b) = ServeIdle(s, i, c, b)
  BY <1>7, ServeIdleLit
<1>8. CASE s.ctx[i].state # "IDLE" /\ Serve(s, i, c, b) = ServeAttached(s, i, c, b)
  BY <1>8, ServeAttachedLit DEF Powered
<1>9. QED
  BY <1>1, <1>6, <1>7, <1>8

LEMMA HeardKept ==
    ASSUME NEW s \in World, NEW i \in Ports
    PROVE  Kept(s, Heard(s, i))
<1> DEFINE t == [attached |-> s.sink[i] # 0, contract |-> s.sink[i]]
           p == [s.ctx[i] EXCEPT !.st = t, !.polls = 0, !.silent = FALSE]
<1>1. t \in [attached : BOOLEAN, contract : Nat]
  BY PlugType
<1>2. Heard(s, i) = [s EXCEPT !.ctx[i] = p]
  BY ZenonT(40) DEF Heard, World
<1> HIDE DEF t
<1>3. s.ctx[i] \in PortCtx
  BY PartsType
<1>4. p \in PortCtx
  BY <1>1, <1>3, HeardCtx
<1>5. Alike(s.ctx[i], p)
  BY <1>3 DEF PortCtx, Alike
<1> HIDE DEF p
<1>6. QED
  BY <1>2, <1>4, <1>5, CtxKept

LEMMA ReadoptedKept ==
    ASSUME SettingsOK, NEW s \in World, NEW i \in Ports
    PROVE  Kept(s, Readopted(s, i))
<1>1. Readopted(s, i) \in World
  BY ReadoptedType
<1>2. Readopted(s, i).ctx = s.ctx /\ Readopted(s, i).en = s.en
  BY DEF Readopted, World
<1>3. QED
  BY <1>1, <1>2, SameCtxKept

LEMMA RecheckKept ==
    ASSUME SettingsOK, NEW s \in World, NEW i \in Ports
    PROVE  Kept(s, Recheck(s, i))
BY LimitType, GrantedKept, KeptSame DEF Recheck

LEMMA PollsKept ==
    ASSUME NEW s \in World, NEW i \in Ports, NEW n \in Nat
    PROVE  /\ Kept(s, [s EXCEPT !.ctx[i].polls = n])
           /\ Kept(s, [s EXCEPT !.ctx[i].silent = TRUE, !.ctx[i].polls = n])
<1> DEFINE m == [s.ctx[i] EXCEPT !.polls = n]
           q == [s.ctx[i] EXCEPT !.silent = TRUE, !.polls = n]
<1>1. s.ctx[i] \in PortCtx
  BY PartsType
<1>2. m \in PortCtx /\ q \in PortCtx
  BY <1>1, PollsCtx
<1>3. Alike(s.ctx[i], m)
  BY <1>1 DEF PortCtx, Alike
<1>4. Alike(s.ctx[i], q)
  BY <1>1 DEF PortCtx, Alike
<1>5. [s EXCEPT !.ctx[i].polls = n] = [s EXCEPT !.ctx[i] = m]
  BY DEF World
<1>6. [s EXCEPT !.ctx[i].silent = TRUE, !.ctx[i].polls = n] = [s EXCEPT !.ctx[i] = q]
  BY DEF World
<1> HIDE DEF m, q
<1>7. Kept(s, [s EXCEPT !.ctx[i] = m])
  BY <1>2, <1>3, CtxKept
<1>8. Kept(s, [s EXCEPT !.ctx[i] = q])
  BY <1>2, <1>4, CtxKept
<1>9. QED
  BY <1>5, <1>6, <1>7, <1>8

LEMMA ReprobedLit ==
    ASSUME NEW s, NEW i \in Ports, Lit(s), ~s.ctx[i].warm
    PROVE  Lit(Reprobed(s, i))
<1> DEFINE p == [s.ctx[i] EXCEPT !.contract = 0]
           t == [s EXCEPT !.res[i] = BASE_RESERVE, !.ctx[i] = p]
           z == 0
<1>0. s \in World /\ s.ctx[i] \in PortCtx /\ z \in Nat
  BY PartsType DEF Lit
<1>1. p \in PortCtx
  BY <1>0, ContractCtx
<1>2. Alike(s.ctx[i], p)
  BY <1>0 DEF PortCtx, Alike
<1>3. [s EXCEPT !.res[i] = BASE_RESERVE, !.ctx[i].contract = 0] = t
  BY <1>0 DEF World
<1>4. Reprobed(s, i) = start_probe(t, i)
  BY <1>3 DEF Reprobed
<1> HIDE DEF p
<1>5. Kept(s, t)
  BY <1>0, <1>1, <1>2, NatParameters, CtxResKept
<1> HIDE DEF t
<1>6. LitBut(t, i) /\ ~t.ctx[i].warm
  BY <1>0, <1>5, KeptLit, LitParts
<1>7. QED
  BY <1>4, <1>6, start_probeLit

LEMMA blade_silentLit ==
    ASSUME SettingsOK, ExpanderAnswers, NEW s, NEW i \in Ports, Lit(s), s.ctx[i].state \in Powered,
           NEW loader \in BOOLEAN, NEW c \in Chance, NEW b \in BusOutcomes
    PROVE  Lit(blade_silent(s, i, loader, c, b))
<1> DEFINE p == s.ctx[i]
           more == p.polls + 1
           n == IF p.silent THEN p.polls ELSE more
           r == Released(p)
           missed == [s EXCEPT !.ctx[i].polls = more]
           quiet == [s EXCEPT !.ctx[i].silent = TRUE, !.ctx[i].polls = n]
           gone == [s EXCEPT !.res[i] = 0, !.ctx[i] = r]
           serves == Serve(missed, i, c, b)
           loads == begin_update(gone, i, b)
<1>0. s \in World /\ LitBut(s, i)
  BY LitParts DEF Lit
<1>1. p \in PortCtx /\ p.polls \in Nat
  BY <1>0, PartsType, CtxParts
<1>2. more \in Nat /\ n \in Nat
  BY <1>1
<1>3. [s EXCEPT !.ctx[i].polls = @ + 1] = missed
  BY <1>0 DEF World
<1>4. [s EXCEPT !.ctx[i].silent = TRUE, !.ctx[i].polls = IF p.silent THEN @ ELSE @ + 1] = quiet
  BY <1>0 DEF World
<1>5. blade_silent(s, i, loader, c, b) \in {serves, loads, quiet}
  BY <1>3, <1>4 DEF blade_silent
<1> HIDE DEF more, n
<1>6. Kept(s, missed) /\ Kept(s, quiet)
  BY <1>0, <1>2, PollsKept
<1> HIDE DEF missed, quiet
<1>7. Lit(missed) /\ Lit(quiet) /\ missed.ctx[i].state \in Powered
  BY <1>0, <1>6, KeptLit
<1>8. Lit(serves)
  BY <1>7, ServeLit
<1>9. r \in PortCtx /\ Alike(p, r)
  BY <1>1, ReleasedType, ReleasedAlike
<1> HIDE DEF r
<1>10. Kept(s, gone)
  BY <1>0, <1>9, NatParameters, CtxResKept
<1> HIDE DEF gone
<1>11. LitBut(gone, i)
  BY <1>0, <1>10, KeptLit
<1>12. Lit(loads)
  BY <1>11, begin_updateLit
<1> HIDE DEF serves, loads
<1>13. QED
  BY <1>5, <1>7, <1>8, <1>12

------------------------------------------------------------------------------
(* The ticks *)

\* A world whose lamps are right is put in place.
Lights(w) == Lit(w) /\ Becomes(w)

\* The engine knows of a seated blade, or nobody may be on hold.
Seen(i, on) == Calm /\ seated[i] => on

\* The slot is empty: no adopted port waits in it.
LEMMA PowerDownLights ==
    ASSUME ExpanderAnswers, Lit(Now), NEW i \in Ports, NEW on, Seen(i, on), ~on,
           NEW b \in BusOutcomes, Becomes(power_down(Now, i, "ABSENT", b))
    PROVE  \E w : Lights(w)
<1>1. ~Now.ctx[i].warm
  BY DEF Seen, Lit, Lamp
<1>2. Lit(power_down(Now, i, "ABSENT", b))
  BY <1>1, LitParts, power_downLit
<1>3. QED
  BY <1>2 DEF Lights

LEMMA TickPoweredLights ==
    ASSUME SettingsOK, ExpanderAnswers, Lit(Now), NEW i \in Ports, NEW on, Seen(i, on),
           NEW c \in Chance, TickPowered(i, on, c)
    PROVE  \E w : Lights(w)
<1>1. PICK b \in BusOutcomes :
         LET s == Recheck(Select(Now, i, b), i)
             h == Heard(Readopted(s, i), i)
         IN
         \/ ~on /\ Becomes(power_down(Now, i, "ABSENT", b))
         \/ Becomes(Now)
         \/ Becomes(Serve(Now, i, c, b))
         \/ \E loader \in BOOLEAN : Becomes(blade_silent(s, i, loader, c, b))
         \/ Becomes(fault(Heard(s, i), i, b))
         \/ Becomes(Reprobed(h, i))
         \/ Becomes(Serve(h, i, c, b))
  BY DEF TickPowered
<1> DEFINE a == Select(Now, i, b)
           s == Recheck(a, i)
           r == Readopted(s, i)
           h == Heard(r, i)
           g == Heard(s, i)
<1>2. Now \in World /\ Now.ctx[i].state \in Powered /\ ~Now.ctx[i].warm
  BY NotWarm DEF Lit, Now, TickPowered, Powered
<1>3. Kept(Now, a)
  BY <1>2, SelectKept
<1> HIDE DEF a
<1>4. Kept(a, s)
  BY <1>3, RecheckKept DEF Kept
<1> HIDE DEF s
<1>5. Kept(s, r) /\ Kept(s, g)
  BY <1>4, ReadoptedKept, HeardKept DEF Kept
<1> HIDE DEF r, g
<1>6. Kept(r, h)
  BY <1>5, HeardKept DEF Kept
<1> HIDE DEF h
<1>7. Kept(Now, s) /\ Kept(Now, g) /\ Kept(Now, h)
  BY <1>3, <1>4, <1>5, <1>6, KeptTrans
<1>8. \A t : Kept(Now, t) => Lit(t) /\ t.ctx[i].state \in Powered /\ ~t.ctx[i].warm
  BY <1>2, KeptLit
<1>9. Lit(Serve(Now, i, c, b)) /\ Lit(Serve(h, i, c, b))
  BY <1>2, <1>7, <1>8, ServeLit
<1>10. \A loader \in BOOLEAN : Lit(blade_silent(s, i, loader, c, b))
  BY <1>7, <1>8, blade_silentLit
<1>11. Lit(fault(g, i, b))
  BY <1>7, <1>8, LitParts, faultLit
<1>12. Lit(Reprobed(h, i))
  BY <1>7, <1>8, ReprobedLit
<1>13. CASE ~on /\ Becomes(power_down(Now, i, "ABSENT", b))
  BY <1>13, PowerDownLights
<1>14. CASE \E w : Lit(w) /\ Becomes(w)
  BY <1>14 DEF Lights
<1>15. QED
  BY <1>1, <1>9, <1>10, <1>11, <1>12, <1>13, <1>14, Zenon DEF a, s, r, h, g

LEMMA TickAbsentLights ==
    ASSUME Lit(Now), NEW i \in Ports, NEW on, TickAbsent(i, on)
    PROVE  \E w : Lights(w)
<1> DEFINE e == enter(Now, i, "DISABLED")
           p == start_probe(Now, i)
           q == Now.ctx[i]
<1>1. q.state = "ABSENT" /\ Now \in World /\ q \in PortCtx /\ LitBut(Now, i)
  BY LitParts, PartsType DEF TickAbsent, Now, Lit
<1>2. /\ q.warm <=> Now.en[i]
      /\ q.warm => Now.en[i] /\ seated[i] /\ q.admin /\ Calm
  BY <1>1 DEF Lit, Lamp
<1>3. Lit(p)
  BY <1>1, <1>2, start_probeLit
<1>4. ~q.admin => Lit(e)
  <2> SUFFICES ASSUME ~q.admin PROVE Lit(e)
    OBVIOUS
  <2>1. ~q.warm /\ ~Now.en[i] /\ Now.en[i] \in BOOLEAN
    BY <1>1, <1>2, PartsType
  <2>2. Lamp([q EXCEPT !.state = "DISABLED"], Now.en[i], seated[i])
    BY <1>1, <2>1, LampAfter, StateNames
  <2>3. QED
    BY <1>1, <2>2, enterLit, StateNames
<1>5. Becomes(Now) \/ (~q.admin /\ Becomes(e)) \/ Becomes(p)
  BY DEF TickAbsent, Now
<1> HIDE DEF e, p, q
<1>6. QED
  BY <1>3, <1>4, <1>5 DEF Lights

LEMMA ProbingKept ==
    ASSUME Now \in World, NEW i \in Ports
    PROVE  Kept(Now, Probing(i)) /\ Probing(i).ctx[i].state = Now.ctx[i].state
<1> DEFINE p == [Now.ctx[i] EXCEPT !.grace = FALSE, !.switching = TRUE]
           t == [Now EXCEPT !.ctx[i] = p]
<1>1. Now.ctx[i] \in PortCtx
  BY PartsType
<1>2. p \in PortCtx
  BY <1>1 DEF PortCtx
<1>3. Alike(Now.ctx[i], p) /\ p.state = Now.ctx[i].state
  BY <1>1 DEF PortCtx, Alike
<1>4. [Now EXCEPT !.ctx[i].grace = FALSE, !.ctx[i].switching = TRUE] = t
  BY DEF World
<1>5. Probing(i) \in {Now, t}
  BY <1>4 DEF Probing
<1> HIDE DEF p
<1>6. Kept(Now, t) /\ t.ctx[i] = p
  BY <1>2, <1>3, CtxKept DEF World
<1> HIDE DEF t
<1>7. QED
  BY <1>3, <1>5, <1>6, KeptSame

LEMMA IdentifiedKept ==
    ASSUME NEW s \in World, NEW i \in Ports, NEW g \in Generations, NEW id \in Identity
    PROVE  /\ Kept(s, Identified(s, i, g, id))
           /\ Identified(s, i, g, id).ctx[i].state = s.ctx[i].state
<1> DEFINE p == [s.ctx[i] EXCEPT !.gen = g, !.id = id]
           n == IF id.ok /\ blade_wants(p) = {} THEN 0 ELSE p.rounds
           q == [p EXCEPT !.rounds = n]
<1>0. s.ctx[i] \in PortCtx
  BY PartsType
<1>1. p \in PortCtx
  BY <1>0 DEF PortCtx
<1>2. Alike(s.ctx[i], p) /\ p.state = s.ctx[i].state
  BY <1>0 DEF PortCtx, Alike
<1>3. Identified(s, i, g, id) = [s EXCEPT !.ctx[i] = q]
  BY DEF Identified
<1> HIDE DEF p
<1>4. n \in 0..UPDATE_ROUNDS_MAX
  BY <1>1, CtxParts, NatParameters
<1> HIDE DEF n
<1>5. q \in PortCtx
  BY <1>1, <1>4 DEF PortCtx
<1>6. Alike(p, q) /\ q.state = p.state
  BY <1>1 DEF PortCtx, Alike
<1> HIDE DEF q
<1>7. Kept(s, [s EXCEPT !.ctx[i] = q])
  BY <1>2, <1>5, <1>6, AlikeTrans, CtxKept
<1>8. [s EXCEPT !.ctx[i] = q].ctx[i] = q
  BY DEF World
<1>9. QED
  BY <1>2, <1>3, <1>6, <1>7, <1>8

LEMMA GenKept ==
    ASSUME NEW s \in World, NEW i \in Ports, NEW g \in Generations
    PROVE  /\ Kept(s, [s EXCEPT !.ctx[i].gen = g])
           /\ [s EXCEPT !.ctx[i].gen = g].ctx[i].state = s.ctx[i].state
<1> DEFINE p == [s.ctx[i] EXCEPT !.gen = g]
<1>0. s.ctx[i] \in PortCtx
  BY PartsType
<1>1. p \in PortCtx
  BY <1>0 DEF PortCtx
<1>2. Alike(s.ctx[i], p) /\ p.state = s.ctx[i].state
  BY <1>0 DEF PortCtx, Alike
<1>3. [s EXCEPT !.ctx[i].gen = g] = [s EXCEPT !.ctx[i] = p]
  BY DEF World
<1> HIDE DEF p
<1>4. [s EXCEPT !.ctx[i] = p].ctx[i] = p
  BY DEF World
<1>5. Kept(s, [s EXCEPT !.ctx[i] = p])
  BY <1>1, <1>2, CtxKept
<1>6. QED
  BY <1>2, <1>3, <1>4, <1>5

LEMMA ConfiguredLit ==
    ASSUME SettingsOK, NEW s, NEW i \in Ports, LitBut(s, i), ~s.ctx[i].warm, s.en[i]
    PROVE  Lit(Configured(s, i))
<1> DEFINE m == limit_for(i)
           o == [w |-> m, v |-> port_max_w[i]]
           p == [s.ctx[i] EXCEPT !.granted = m]
           t == [s EXCEPT !.ctx[i] = p, !.res[i] = BASE_RESERVE, !.offer[i] = o]
<1>0. s \in World /\ s.ctx[i] \in PortCtx /\ m \in Nat
  BY PartsType, LimitType DEF LitBut
<1>1. o \in [w : Nat, v : Nat]
  BY LimitType, OfferType
<1>2. [s EXCEPT !.ctx[i].granted = m, !.res[i] = BASE_RESERVE, !.offer[i] = o] = t
  BY <1>0 DEF World
<1>3. Configured(s, i) = go_idle(t, i)
  BY <1>2 DEF Configured
<1> HIDE DEF m, o
<1>4. p \in PortCtx
  BY <1>0 DEF PortCtx
<1>5. p.warm = s.ctx[i].warm
  BY <1>0 DEF PortCtx
<1> HIDE DEF p
<1>6. t \in World
  BY <1>0, <1>1, <1>4, ServedUpdate
<1>7. t.ctx[i] = p /\ t.en = s.en /\ \A j \in Ports \ {i} : t.ctx[j] = s.ctx[j]
  BY <1>0 DEF World
<1> HIDE DEF t
<1>8. LitBut(t, i)
  BY <1>6, <1>7, OnlyPort
<1>9. QED
  BY <1>3, <1>5, <1>7, <1>8, go_idleLit

\* The wait ends with the port in service and its line as it was found.
LEMMA AdoptedLit ==
    ASSUME SettingsOK, NEW s, NEW i \in Ports, LitBut(s, i), s.en[i]
    PROVE  Lit(Adopted(s, i))
<1> DEFINE max == limit_for(i)
           keep == /\ s.ctx[i].gen = "GEN_3" /\ s.sink[i] # 0 /\ s.offer[i].w # 0
                   /\ s.offer[i].v = port_max_w[i] /\ s.offer[i].w <= max
           w == IF keep THEN s.offer[i].w ELSE max
           h == Heard(s, i).ctx[i]
           n == s.ctx[i].polls
           p == [h EXCEPT !.polls = n, !.warm = FALSE, !.granted = w]
           o == [w |-> w, v |-> port_max_w[i]]
           t == [s EXCEPT !.ctx[i] = p, !.res[i] = BASE_RESERVE, !.offer[i] = o]
           k == attach_begin(t, i)
           m == offer_w(i, max)
           q == [k.ctx[i] EXCEPT !.denied = m]
           d == [k EXCEPT !.ctx[i].denied = m]
<1>0. s \in World
  BY DEF LitBut
<1>1. Adopted(s, i) \in {enter(d, i, "THROTTLED"), go_idle(t, i)}
  BY DEF Adopted
<1>2. w \in Nat /\ m \in Nat
  <2>1. s.offer[i].w \in Nat
    BY <1>0, PartsType
  <2>2. QED
    BY <2>1, LimitType
<1> HIDE DEF w, m
<1>3. o \in [w : Nat, v : Nat]
  BY <1>2, LimitType, OfferType
<1> HIDE DEF o
<1>4. h \in PortCtx /\ n \in Nat
  BY <1>0, HeardType, PartsType, CtxParts
<1> HIDE DEF h, n
<1>5. p \in PortCtx
  BY <1>2, <1>4, AdoptedCtx
<1>6. ~p.warm
  BY <1>4 DEF PortCtx
<1> HIDE DEF p
<1>7. t \in World
  BY <1>0, <1>3, <1>5, ServedUpdate
<1>8. t.ctx[i] = p /\ t.en = s.en /\ \A j \in Ports \ {i} : t.ctx[j] = s.ctx[j]
  BY <1>0 DEF World
<1> HIDE DEF t
<1>9. LitBut(t, i) /\ ~t.ctx[i].warm /\ t.en[i]
  BY <1>6, <1>7, <1>8, OnlyPort
<1>10. Lit(go_idle(t, i))
  BY <1>9, go_idleLit
<1>11. Kept(t, k)
  BY <1>7, attach_beginKept
<1> HIDE DEF k
<1>12. Kept(k, d)
  <2>1. k \in World /\ k.ctx[i] \in PortCtx
    BY <1>11, PartsType DEF Kept
  <2>2. q \in PortCtx
    BY <1>2, <2>1 DEF PortCtx
  <2>3. Alike(k.ctx[i], q)
    BY <2>1 DEF PortCtx, Alike
  <2>4. d = [k EXCEPT !.ctx[i] = q]
    BY <2>1 DEF World
  <2> HIDE DEF q, d
  <2>5. QED
    BY <2>1, <2>2, <2>3, <2>4, CtxKept
<1> HIDE DEF d
<1>13. Kept(t, d)
  BY <1>11, <1>12, KeptTrans
<1>14. LitBut(d, i) /\ ~d.ctx[i].warm /\ d.en[i] /\ d \in World
  BY <1>7, <1>9, <1>13, KeptLit DEF Kept
<1>15. Lit(enter(d, i, "THROTTLED"))
  <2>1. "THROTTLED" \in States /\ "THROTTLED" \in Powered
    BY DEF States, Powered
  <2>2. d.ctx[i] \in PortCtx /\ d.en[i] \in BOOLEAN
    BY <1>14, PartsType
  <2>3. Lamp([d.ctx[i] EXCEPT !.state = "THROTTLED"], d.en[i], seated[i])
    BY <1>14, <2>1, <2>2, LampAfter
  <2>4. QED
    BY <1>14, <2>1, <2>3, enterLit
<1>16. QED
  BY <1>1, <1>10, <1>15

LEMMA ColdAnswerLights ==
    ASSUME SettingsOK, ExpanderAnswers, NEW s, Lit(s), NEW i \in Ports,
           ~s.ctx[i].warm, s.en[i],
           NEW late \in BOOLEAN, NEW b \in BusOutcomes, ColdAnswer(s, i, late, b)
    PROVE  \E w : Lights(w)
<1>1. PICK g \in Answering(s, i),
           id \in ReadIds(IF "GEN_3" \in Found THEN "GEN_3" ELSE "NONE") :
         LET k == Identified(s, i, g, id)
             l == send_to_loader(k, i, b)
         IN  \/ Becomes(begin_update([s EXCEPT !.ctx[i].gen = g], i, b))
             \/ Becomes(l)
             \/ ~Sends(k, i, b) /\ Becomes(Configured(l, i))
             \/ Becomes(probe_failed(l, i, late, b))
  BY DEF ColdAnswer
<1> DEFINE k == Identified(s, i, g, id)
           l == send_to_loader(k, i, b)
           m == [s EXCEPT !.ctx[i].gen = g]
           u == begin_update(m, i, b)
           c == Configured(l, i)
           f == probe_failed(l, i, late, b)
           sends == Sends(k, i, b)
<1>2. g \in Generations /\ id \in Identity /\ s \in World
  BY AnsweringType, ReadIdsType DEF Lit
<1>3. Kept(s, k) /\ Kept(s, m)
  BY <1>2, IdentifiedKept, GenKept
<1> HIDE DEF k, m
<1>4. Lit(k) /\ ~k.ctx[i].warm /\ k.en[i] /\ Lit(m)
  BY <1>3, KeptLit
<1>5. Lit(l) /\ (~sends => Kept(k, l))
  BY <1>4, send_to_loaderLit
<1> HIDE DEF l, sends
<1>6. Lit(u)
  BY <1>4, LitParts, begin_updateLit
<1>7. ~sends => Lit(c)
  BY <1>4, <1>5, KeptLit, LitParts, ConfiguredLit
<1>8. Lit(f)
  BY <1>5, probe_failedLit
<1>9. Becomes(u) \/ Becomes(l) \/ (~sends /\ Becomes(c)) \/ Becomes(f)
  BY <1>1, Zenon DEF k, l, m, sends
<1> HIDE DEF u, c, f
<1>10. QED
  BY <1>5, <1>6, <1>7, <1>8, <1>9 DEF Lights

LEMMA EnOnLit ==
    ASSUME NEW s, NEW i \in Ports, Lit(s), ~s.ctx[i].warm, s.ctx[i].state = "PROBE"
    PROVE  Lit([s EXCEPT !.en[i] = TRUE, !.ctx[i].en_on = TRUE])
<1> DEFINE p == [s.ctx[i] EXCEPT !.en_on = TRUE]
           t == [s EXCEPT !.en[i] = TRUE, !.ctx[i] = p]
<1>0. s \in World /\ s.ctx[i] \in PortCtx /\ LitBut(s, i)
  BY PartsType, LitParts DEF Lit
<1>1. p.state = "PROBE" /\ ~p.warm
  BY <1>0 DEF PortCtx
<1>2. [s EXCEPT !.en[i] = TRUE, !.ctx[i].en_on = TRUE] = t
  BY <1>0 DEF World
<1>3. t \in World
  BY <1>0, <1>2, EnOnUpdate
<1> HIDE DEF p
<1>4. /\ t.ctx[i] = p /\ t.en[i]
      /\ \A j \in Ports \ {i} : t.ctx[j] = s.ctx[j] /\ t.en[j] = s.en[j]
  BY <1>0 DEF World
<1> HIDE DEF t
<1>5. LitBut(t, i)
  BY <1>0, <1>3, <1>4, OnlyPort
<1>6. Lamp(t.ctx[i], t.en[i], seated[i])
  BY <1>1, <1>4 DEF Lamp, Powered
<1>7. QED
  BY <1>2, <1>5, <1>6, LitParts

LEMMA ColdProbeLights ==
    ASSUME SettingsOK, ExpanderAnswers, Lit(Now), NEW i \in Ports, Now.ctx[i].state = "PROBE",
           NEW c \in Chance, ColdProbe(i, c)
    PROVE  \E w : Lights(w)
<1>1. PICK b \in BusOutcomes :
         LET s == Probing(i) IN
         \/ Becomes(probe_failed(s, i, c.late, b))
         \/ Becomes([s EXCEPT !.en[i] = TRUE, !.ctx[i].en_on = TRUE])
         \/ Becomes(s)
         \/ ctx[i].en_on /\ ColdAnswer(Select(s, i, b), i, c.late, b)
  BY DEF ColdProbe
<1> DEFINE s == Probing(i)
           a == Select(s, i, b)
           f == probe_failed(s, i, c.late, b)
           e == [s EXCEPT !.en[i] = TRUE, !.ctx[i].en_on = TRUE]
<1>2. /\ Kept(Now, s) /\ s.ctx[i].state = "PROBE" /\ c.late \in BOOLEAN
      /\ ~Now.ctx[i].warm /\ (ctx[i].en_on => Now.en[i])
  BY ProbingKept DEF Lit, Chance, ColdProbe, Now, Lamp
<1> HIDE DEF s
<1>3. Lit(s) /\ s \in World /\ ~s.ctx[i].warm
  BY <1>2, KeptLit DEF Kept
<1>4. Kept(s, a) /\ Lit(e)
  BY <1>2, <1>3, SelectKept, EnOnLit
<1>5. Lit(f)
  BY <1>2, <1>3, probe_failedLit
<1>6. Becomes(f) \/ Becomes(e) \/ Becomes(s) \/ (ctx[i].en_on /\ ColdAnswer(a, i, c.late, b))
  BY <1>1, Zenon DEF s
<1> HIDE DEF a, f, e
<1>7. Lit(a) /\ ~a.ctx[i].warm /\ (ctx[i].en_on => a.en[i])
  <2>1. Kept(Now, a)
    BY <1>2, <1>4, KeptTrans
  <2>2. QED
    BY <1>2, <2>1, KeptLit
<1>8. CASE ctx[i].en_on /\ ColdAnswer(a, i, c.late, b)
  BY <1>2, <1>7, <1>8, ColdAnswerLights
<1>9. CASE Becomes(f) \/ Becomes(e) \/ Becomes(s)
  BY <1>3, <1>4, <1>5, <1>9 DEF Lights
<1>10. QED
  BY <1>6, <1>8, <1>9

LEMMA WarmOffBut ==
    ASSUME NEW s, NEW i \in Ports, LitBut(s, i)
    PROVE  /\ LitBut([s EXCEPT !.ctx[i].warm = FALSE], i)
           /\ ~[s EXCEPT !.ctx[i].warm = FALSE].ctx[i].warm
<1> DEFINE t == [s EXCEPT !.ctx[i].warm = FALSE]
           p == [s.ctx[i] EXCEPT !.warm = FALSE]
<1>1. s \in World /\ s.ctx[i] \in PortCtx
  BY PartsType DEF LitBut
<1>2. t \in World
  BY <1>1, WarmUpdate
<1>3. t.ctx[i] = p /\ t.en = s.en /\ \A j \in Ports \ {i} : t.ctx[j] = s.ctx[j]
  BY <1>1 DEF World
<1>4. ~p.warm
  BY <1>1 DEF PortCtx
<1> HIDE DEF t, p
<1>5. LitBut(t, i) /\ ~t.ctx[i].warm
  BY <1>2, <1>3, <1>4, OnlyPort
<1>6. QED
  BY <1>5 DEF t

LEMMA WarmAnswerLights ==
    ASSUME SettingsOK, ExpanderAnswers, NEW s, Lit(s), NEW i \in Ports, s.en[i],
           NEW late \in BOOLEAN, NEW b \in BusOutcomes, WarmAnswer(s, i, late, b)
    PROVE  \E w : Lights(w)
<1>1. PICK g \in IF s.ctx[i].gen = "NONE" \/ s.ctx[i].silent
                 THEN Answering(s, i) ELSE {s.ctx[i].gen} :
      \E id \in ReadIds(g) :
        LET k == IF g = "GEN_3" THEN Identified(s, i, g, id) ELSE [s EXCEPT !.ctx[i].gen = g] IN
        \/ Becomes(begin_update(k, i, b))
        \/ Becomes(Adopted(k, i))
        \/ Becomes(fault([k EXCEPT !.ctx[i].warm = FALSE], i, b))
        \/ Becomes(warm_probe_failed(k, i, late))
  BY ZenonT(40) DEF WarmAnswer
<1>2. PICK id \in ReadIds(g) :
        LET k == IF g = "GEN_3" THEN Identified(s, i, g, id) ELSE [s EXCEPT !.ctx[i].gen = g] IN
        \/ Becomes(begin_update(k, i, b))
        \/ Becomes(Adopted(k, i))
        \/ Becomes(fault([k EXCEPT !.ctx[i].warm = FALSE], i, b))
        \/ Becomes(warm_probe_failed(k, i, late))
  BY <1>1
<1> DEFINE k == IF g = "GEN_3" THEN Identified(s, i, g, id) ELSE [s EXCEPT !.ctx[i].gen = g]
           u == begin_update(k, i, b)
           a == Adopted(k, i)
           n == [k EXCEPT !.ctx[i].warm = FALSE]
           f == fault(n, i, b)
           p == warm_probe_failed(k, i, late)
<1>3. s \in World
  BY DEF Lit
<1>4. g \in Generations /\ id \in Identity
  BY <1>3, AnsweringType, ReadIdsType, PartsType, CtxParts
<1>5. Kept(s, k)
  BY <1>3, <1>4, IdentifiedKept, GenKept
<1> HIDE DEF k
<1>6. Lit(k) /\ LitBut(k, i) /\ k \in World /\ k.en[i]
  BY <1>5, KeptLit, LitParts DEF Kept
<1>7. Lit(u) /\ Lit(a)
  BY <1>6, begin_updateLit, AdoptedLit
<1>8. Lit(p)
  BY <1>6, warm_probe_failedKept, KeptLit
<1>9. LitBut(n, i) /\ ~n.ctx[i].warm
  BY <1>6, WarmOffBut
<1> HIDE DEF n
<1>10. Lit(f)
  BY <1>9, faultLit
<1>11. Becomes(u) \/ Becomes(a) \/ Becomes(f) \/ Becomes(p)
  BY <1>2, Zenon DEF k, n
<1> HIDE DEF u, a, f, p
<1>12. QED
  BY <1>7, <1>8, <1>10, <1>11 DEF Lights

LEMMA WarmProbeLights ==
    ASSUME SettingsOK, ExpanderAnswers, Lit(Now), NEW i \in Ports, NEW c \in Chance, WarmProbe(i, c)
    PROVE  \E w : Lights(w)
<1>1. PICK b \in BusOutcomes :
         LET s == Probing(i) IN
         \/ Becomes(s)
         \/ Becomes(warm_probe_failed(s, i, c.late))
         \/ WarmAnswer(Select(s, i, b), i, c.late, b)
  BY DEF WarmProbe
<1> DEFINE s == Probing(i)
           a == Select(s, i, b)
           f == warm_probe_failed(s, i, c.late)
<1>2. Kept(Now, s) /\ c.late \in BOOLEAN /\ Now.en[i]
  BY ProbingKept DEF Lit, Chance, WarmProbe, Now, Lamp
<1> HIDE DEF s
<1>3. Lit(s) /\ s \in World /\ s.en[i]
  BY <1>2, KeptLit DEF Kept
<1>4. Kept(s, a) /\ Kept(s, f)
  BY <1>2, <1>3, SelectKept, warm_probe_failedKept
<1>5. Becomes(s) \/ Becomes(f) \/ WarmAnswer(a, i, c.late, b)
  BY <1>1, Zenon DEF s
<1> HIDE DEF a, f
<1>6. Lit(a) /\ a.en[i] /\ Lit(f)
  BY <1>3, <1>4, KeptLit
<1>7. CASE WarmAnswer(a, i, c.late, b)
  BY <1>2, <1>6, <1>7, WarmAnswerLights
<1>8. CASE Becomes(s) \/ Becomes(f)
  BY <1>3, <1>6, <1>8 DEF Lights
<1>9. QED
  BY <1>5, <1>7, <1>8

LEMMA TickProbeLights ==
    ASSUME SettingsOK, ExpanderAnswers, Lit(Now), NEW i \in Ports, NEW on, Seen(i, on),
           NEW c \in Chance, TickProbe(i, on, c)
    PROVE  \E w : Lights(w)
<1>0. Now.ctx[i].state = "PROBE"
  BY DEF TickProbe, Now
<1>1. CASE ColdProbe(i, c)
  BY <1>0, <1>1, ColdProbeLights
<1>2. CASE WarmProbe(i, c)
  BY <1>2, WarmProbeLights
<1>3. CASE ~on /\ \E b \in BusOutcomes : Becomes(power_down(Now, i, "ABSENT", b))
  BY <1>3, PowerDownLights
<1>4. QED
  BY <1>1, <1>2, <1>3 DEF TickProbe

LEMMA TickFaultLights ==
    ASSUME ExpanderAnswers, Lit(Now), NEW i \in Ports, NEW on, Seen(i, on),
           NEW c \in Chance, TickFault(i, on, c)
    PROVE  \E w : Lights(w)
<1>1. PICK b \in BusOutcomes :
         LET s == IF ctx[i].gen = "GEN_3" THEN Select(Now, i, b) ELSE Now IN
         \/ ~on /\ Becomes(power_down(Now, i, "ABSENT", b))
         \/ Becomes(s)
         \/ Becomes([s EXCEPT !.ctx[i].cooling = TRUE])
         \/ Becomes(start_probe([s EXCEPT !.ctx[i].cooling = FALSE], i))
  BY DEF TickFault
<1> DEFINE s == IF ctx[i].gen = "GEN_3" THEN Select(Now, i, b) ELSE Now
           hot == [s EXCEPT !.ctx[i].cooling = TRUE]
           cool == [s EXCEPT !.ctx[i].cooling = FALSE]
           p == start_probe(cool, i)
<1>2. Now \in World /\ ~Now.ctx[i].warm
  BY NotWarm DEF Lit, Now, TickFault
<1>3. Kept(Now, s)
  BY <1>2, SelectKept, KeptSame
<1> HIDE DEF s
<1>4. Kept(s, hot) /\ Kept(s, cool)
  <2>1. s \in World
    BY <1>3 DEF Kept
  <2>2. Kept(s, hot)
    BY <2>1, FlagKept
  <2>3. Kept(s, cool)
    BY <2>1, FlagKept
  <2>4. QED
    BY <2>2, <2>3
<1> HIDE DEF hot, cool
<1>5. Lit(s) /\ Lit(hot) /\ Lit(cool) /\ ~cool.ctx[i].warm
  BY <1>2, <1>3, <1>4, KeptLit
<1>6. Lit(p)
  BY <1>5, LitParts, start_probeLit
<1> HIDE DEF p
<1>7. \/ ~on /\ Becomes(power_down(Now, i, "ABSENT", b))
      \/ Becomes(s) \/ Becomes(hot) \/ Becomes(p)
  BY <1>1, Zenon DEF s, hot, cool, p
<1>8. CASE ~on /\ Becomes(power_down(Now, i, "ABSENT", b))
  BY <1>8, PowerDownLights
<1>9. CASE Becomes(s) \/ Becomes(hot) \/ Becomes(p)
  BY <1>5, <1>6, <1>9 DEF Lights
<1>10. QED
  BY <1>7, <1>8, <1>9

LEMMA TickUpdateLights ==
    ASSUME ExpanderAnswers, Lit(Now), NEW i \in Ports, NEW on, Seen(i, on),
           NEW c \in Chance, TickUpdate(i, on, c)
    PROVE  \E w : Lights(w)
<1>1. PICK b \in BusOutcomes :
         LET s == [Select(Now, i, b) EXCEPT !.loader = i] IN
         \/ ~on /\ Becomes(power_down(Now, i, "ABSENT", b))
         \/ Becomes(Now)
         \/ Becomes(s)
         \/ Becomes([start_probe(s, i) EXCEPT !.ctx[i].grace = TRUE])
         \/ Becomes(fault(s, i, b))
  BY DEF TickUpdate
<1> DEFINE a == Select(Now, i, b)
           s == [a EXCEPT !.loader = i]
           p == start_probe(s, i)
           q == [p EXCEPT !.ctx[i].grace = TRUE]
           f == fault(s, i, b)
<1>2. Now \in World /\ ~Now.ctx[i].warm
  BY NotWarm DEF Lit, Now, TickUpdate
<1>3. Kept(Now, a) /\ a \in World
  BY <1>2, SelectKept DEF Kept
<1> HIDE DEF a
<1>4. Kept(a, s)
  <2>1. s \in World
    BY <1>3, LoaderUpdate
  <2>2. s.ctx = a.ctx /\ s.en = a.en
    BY <1>3 DEF World
  <2> HIDE DEF s
  <2>3. QED
    BY <1>3, <2>1, <2>2, SameCtxKept
<1> HIDE DEF s
<1>5. Kept(Now, s)
  BY <1>3, <1>4, KeptTrans
<1>6. Lit(s) /\ LitBut(s, i) /\ ~s.ctx[i].warm
  BY <1>2, <1>5, KeptLit, LitParts
<1>7. Lit(p) /\ Lit(f)
  BY <1>6, start_probeLit, faultLit
<1> HIDE DEF p, f
<1>8. Kept(p, q)
  BY <1>7, FlagKept DEF Lit
<1> HIDE DEF q
<1>9. Lit(q)
  BY <1>7, <1>8, KeptLit
<1>10. \/ ~on /\ Becomes(power_down(Now, i, "ABSENT", b))
       \/ Becomes(Now) \/ Becomes(s) \/ Becomes(q) \/ Becomes(f)
  BY <1>1, Zenon DEF a, s, p, q, f
<1>11. CASE ~on /\ Becomes(power_down(Now, i, "ABSENT", b))
  BY <1>11, PowerDownLights
<1>12. CASE Becomes(Now) \/ Becomes(s) \/ Becomes(q) \/ Becomes(f)
  BY <1>6, <1>7, <1>9, <1>12 DEF Lights
<1>13. QED
  BY <1>10, <1>11, <1>12

LEMMA TickDisabledLights ==
    ASSUME ExpanderAnswers, Lit(Now), NEW i \in Ports, NEW on, Seen(i, on), TickDisabled(i, on)
    PROVE  \E w : Lights(w)
<1>1. PICK b \in BusOutcomes :
         LET s == IF ctx[i].gen = "GEN_3" THEN Select(Now, i, b) ELSE Now IN
         \/ ~on /\ Becomes(power_down(Now, i, "ABSENT", b))
         \/ Becomes(start_probe(Now, i))
         \/ Becomes(s)
  BY DEF TickDisabled
<1> DEFINE s == IF ctx[i].gen = "GEN_3" THEN Select(Now, i, b) ELSE Now
           p == start_probe(Now, i)
<1>2. Now \in World /\ ~Now.ctx[i].warm /\ LitBut(Now, i)
  BY NotWarm, LitParts DEF Lit, Now, TickDisabled
<1>3. Kept(Now, s)
  BY <1>2, SelectKept, KeptSame
<1>4. Lit(p)
  BY <1>2, start_probeLit
<1>5. (~on /\ Becomes(power_down(Now, i, "ABSENT", b))) \/ Becomes(p) \/ Becomes(s)
  BY <1>1
<1> HIDE DEF s, p
<1>6. Lit(s)
  BY <1>3, KeptLit
<1>7. CASE ~on /\ Becomes(power_down(Now, i, "ABSENT", b))
  BY <1>7, PowerDownLights
<1>8. CASE Becomes(p) \/ Becomes(s)
  BY <1>4, <1>6, <1>8 DEF Lights
<1>9. QED
  BY <1>5, <1>7, <1>8

LEMMA TickLights ==
    ASSUME SettingsOK, ExpanderAnswers, Lit(Now), NEW i \in Ports, NEW on, Seen(i, on),
           NEW c \in Chance, port_fsm_tick(i, on, c)
    PROVE  \E w : Lights(w)
BY TickAbsentLights, TickProbeLights, TickPoweredLights, TickFaultLights, TickUpdateLights,
   TickDisabledLights DEF port_fsm_tick

------------------------------------------------------------------------------
(* Commands and the sweep *)

LEMMA CmdEnableLights ==
    ASSUME Lit(Now), NEW i \in Ports, CmdEnable(i)
    PROVE  \E w : Lights(w)
<1> DEFINE p == [Now.ctx[i] EXCEPT !.admin = TRUE, !.stuck = FALSE]
           q == [p EXCEPT !.held = FALSE, !.rounds = 0, !.cooling = FALSE]
           r == IF p.held THEN q ELSE p
           t == [Now EXCEPT !.ctx[i] = r]
<1>1. Becomes(t)
  BY DEF CmdEnable, Now
<1>2. Now \in World /\ Now.ctx[i] \in PortCtx
  BY PartsType DEF Lit
<1>3. p \in PortCtx
  BY <1>2 DEF PortCtx
<1>4. Alike(Now.ctx[i], p)
  BY <1>2 DEF PortCtx, Alike
<1> HIDE DEF p
<1>5. q \in PortCtx
  BY <1>3, NatParameters DEF PortCtx
<1>6. Alike(p, q)
  BY <1>3 DEF PortCtx, Alike
<1> HIDE DEF q
<1>7. r \in PortCtx /\ Alike(Now.ctx[i], r)
  BY <1>3, <1>4, <1>5, <1>6, AlikeTrans
<1> HIDE DEF r
<1>8. Kept(Now, t)
  BY <1>2, <1>7, CtxKept
<1> HIDE DEF t
<1>9. QED
  BY <1>1, <1>8, KeptLit DEF Lights

LEMMA CmdUpdateLights ==
    ASSUME ExpanderAnswers, Lit(Now), NEW i \in Ports, CmdUpdate(i)
    PROVE  \E w : Lights(w)
<1> DEFINE p == [ctx[i] EXCEPT !.rewrite = TRUE, !.rounds = 0, !.stuck = FALSE, !.held = FALSE]
           s == [Now EXCEPT !.ctx[i] = p]
           r == Released(p)
           cold == [s EXCEPT !.ctx[i].warm = FALSE]
<1>1. PICK b \in BusOutcomes :
         \/ Becomes([power_down(cold, i, "FAULT", b) EXCEPT !.ctx[i].cooling = FALSE])
         \/ p.state \in Powered
            /\ Becomes([start_probe([BladeDown(Select(s, i, b), i)
                                    EXCEPT !.res[i] = 0, !.ctx[i] = r], i)
                       EXCEPT !.ctx[i].grace = TRUE])
         \/ Becomes([(IF p.state \in Powered THEN Select(s, i, b) ELSE s) EXCEPT
              !.ctx[i].cooling = IF p.state = "FAULT" THEN FALSE ELSE @])
  BY Zenon DEF CmdUpdate
<1> DEFINE down == power_down(cold, i, "FAULT", b)
           warm == [down EXCEPT !.ctx[i].cooling = FALSE]
           a == Select(s, i, b)
           d == BladeDown(a, i)
           gone == [d EXCEPT !.res[i] = 0, !.ctx[i] = r]
           again == start_probe(gone, i)
           asked == [again EXCEPT !.ctx[i].grace = TRUE]
           kept == IF p.state \in Powered THEN a ELSE s
           f == IF p.state = "FAULT" THEN FALSE ELSE kept.ctx[i].cooling
           soon == [kept EXCEPT !.ctx[i].cooling = f]
           serving == p.state \in Powered
<1>2. Now \in World /\ ctx[i] \in PortCtx /\ ctx[i] = Now.ctx[i] /\ p \in PortCtx
  BY NowCtx, RewriteCtx DEF Lit, Now
<1>3. Alike(ctx[i], p) /\ p.state = ctx[i].state /\ p.warm = ctx[i].warm
  BY <1>2 DEF PortCtx, Alike
<1>4. r \in PortCtx /\ Alike(p, r)
  BY <1>2, ReleasedType, ReleasedAlike
<1>5. Kept(Now, s)
  <2> HIDE DEF p
  <2>1. QED
    BY <1>2, <1>3, CtxKept
<1>6. [kept EXCEPT !.ctx[i].cooling = IF p.state = "FAULT" THEN FALSE ELSE @] = soon
  BY <1>2 DEF World, Select
<1>7. serving => ~p.warm
  BY <1>2, <1>3, NotWarm DEF Powered
<1>8. \/ Becomes(warm) \/ (serving /\ Becomes(asked)) \/ Becomes(soon)
  BY <1>1, <1>6, Zenon
<1>9. s.ctx[i] = p
  BY <1>2 DEF World
<1> HIDE DEF p, s, r, serving
<1>10. Lit(s) /\ s \in World
  BY <1>5, KeptLit DEF Kept
<1>11. Kept(s, a) /\ a.ctx = s.ctx
  BY <1>10, SelectKept DEF Select, World
<1>12. LitBut(cold, i) /\ ~cold.ctx[i].warm
  BY <1>10, LitParts, WarmOffBut
<1> HIDE DEF cold, a
<1>13. Lit(a) /\ a \in World /\ a.ctx[i] = p
  BY <1>9, <1>10, <1>11, KeptLit DEF Kept
<1>14. Lit(warm)
  <2>1. Lit(down)
    BY <1>12, power_downLit
  <2> HIDE DEF down
  <2>2. Kept(down, warm)
    BY <2>1, FlagKept DEF Lit
  <2> HIDE DEF warm
  <2>3. QED
    BY <2>1, <2>2, KeptLit
<1>15. serving => Lit(asked)
  <2> SUFFICES ASSUME serving PROVE Lit(asked)
    OBVIOUS
  <2>1. Kept(a, d) /\ d.ctx = a.ctx
    BY <1>13, BladeDownKept, BladeDownType
  <2> HIDE DEF d
  <2>2. Kept(d, gone)
    <3>1. d \in World /\ Alike(d.ctx[i], r) /\ 0 \in Nat
      BY <1>4, <1>13, <2>1 DEF Kept
    <3>2. QED
      BY <1>4, <3>1, ResCtxKept
  <2> HIDE DEF gone
  <2>3. Kept(a, gone)
    BY <2>1, <2>2, KeptTrans
  <2>4. LitBut(gone, i) /\ ~gone.ctx[i].warm
    BY <1>7, <1>13, <2>3, KeptLit, LitParts
  <2>5. Lit(again)
    BY <2>4, start_probeLit
  <2> HIDE DEF again
  <2>6. Kept(again, asked)
    BY <2>5, FlagKept DEF Lit
  <2> HIDE DEF asked
  <2>7. QED
    BY <2>5, <2>6, KeptLit
<1>16. Lit(soon)
  <2>1. Lit(kept) /\ kept \in World
    BY <1>10, <1>13
  <2> HIDE DEF kept
  <2>2. f \in BOOLEAN
    BY <2>1, PartsType DEF PortCtx
  <2> HIDE DEF f
  <2>3. Kept(kept, soon)
    BY <2>1, <2>2, FlagKept
  <2> HIDE DEF soon
  <2>4. QED
    BY <2>1, <2>3, KeptLit
<1> HIDE DEF warm, asked, soon
<1>17. QED
  BY <1>8, <1>14, <1>15, <1>16 DEF Lights

\* A port may be switched off only where none was adopted.
LEMMA CmdDisableLights ==
    ASSUME ExpanderAnswers, ~Calm, Lit(Now), NEW i \in Ports, CmdDisable(i)
    PROVE  \E w : Lights(w)
<1> DEFINE s == [Now EXCEPT !.ctx[i].admin = FALSE]
           p == [Now.ctx[i] EXCEPT !.admin = FALSE]
<1>1. PICK b \in BusOutcomes : Becomes(s) \/ Becomes(switch_off(s, i, b))
  BY DEF CmdDisable
<1>2. Now \in World /\ Now.ctx[i] \in PortCtx /\ ~Now.ctx[i].warm
  BY PartsType DEF Lit, Lamp
<1>3. p \in PortCtx
  BY <1>2 DEF PortCtx
<1>4. Alike(Now.ctx[i], p)
  BY <1>2 DEF PortCtx, Alike
<1>5. s = [Now EXCEPT !.ctx[i] = p]
  BY <1>2 DEF World
<1> HIDE DEF s, p
<1>6. Kept(Now, s)
  BY <1>2, <1>3, <1>4, <1>5, CtxKept
<1>7. Lit(s) /\ LitBut(s, i) /\ ~s.ctx[i].warm
  BY <1>2, <1>6, KeptLit, LitParts
<1>8. Lit(switch_off(s, i, b))
  BY <1>7, switch_offLit
<1>9. QED
  BY <1>1, <1>7, <1>8 DEF Lights

LEMMA CmdLimitLights ==
    ASSUME SettingsOK, Lit(Now), NEW i \in Ports, CmdLimit(i)
    PROVE  \E w : Lights(w)
<1>1. PICK b \in BusOutcomes :
        LET s == Select(Now, i, b) IN
        \/ Becomes(Now)
        \/ Becomes(s)
        \/ Becomes([set_limits(s, i, limit_for(i), port_max_w[i], ctx[i].st.attached, b)
                      EXCEPT !.ctx[i].granted = limit_for(i)])
  BY DEF CmdLimit
<1> DEFINE s == Select(Now, i, b)
           a == ctx[i].st.attached
           u == [set_limits(s, i, limit_for(i), port_max_w[i], a, b)
                   EXCEPT !.ctx[i].granted = limit_for(i)]
<1>2. Kept(Now, s) /\ a \in BOOLEAN
  BY SelectKept, NowCtx, CtxParts DEF Lit
<1>3. Becomes(Now) \/ Becomes(s) \/ Becomes(u)
  BY <1>1
<1> HIDE DEF s, a
<1>4. Lit(s) /\ s \in World
  BY <1>2, KeptLit DEF Kept
<1>5. Kept(s, u)
  BY <1>2, <1>4, LimitedKept
<1> HIDE DEF u
<1>6. QED
  BY <1>3, <1>4, <1>5, KeptLit DEF Lights

LEMMA CmdVoltLights ==
    ASSUME SettingsOK, Lit(Now), NEW i \in Ports, CmdVolt(i)
    PROVE  \E w : Lights(w)
<1> DEFINE a == ctx[i].st.attached
           g == ctx[i].granted
<1>1. PICK b \in BusOutcomes :
        \/ Becomes(Now)
        \/ Becomes(set_limits(Select(Now, i, b), i, g, port_max_w[i], a, b))
  BY DEF CmdVolt
<1> DEFINE s == Select(Now, i, b)
           t == set_limits(s, i, g, port_max_w[i], a, b)
<1>2. Kept(Now, s) /\ a \in BOOLEAN /\ g \in Nat /\ port_max_w[i] \in Nat
  BY SelectKept, NowCtx, CtxParts, LimitType DEF Lit
<1>3. Becomes(Now) \/ Becomes(t)
  BY <1>1
<1> HIDE DEF s, a, g
<1>4. Lit(s) /\ s \in World
  BY <1>2, KeptLit DEF Kept
<1>5. Kept(s, t)
  BY <1>2, <1>4, set_limitsKept
<1> HIDE DEF t
<1>6. QED
  BY <1>3, <1>4, <1>5, KeptLit DEF Lights

LEMMA port_fsm_alert_sweepLights ==
    ASSUME ExpanderAnswers, Lit(Now), NEW i \in Ports, port_fsm_alert_sweep(i)
    PROVE  \E w : Lights(w)
<1> DEFINE t == [attached |-> sink[i] # 0, contract |-> sink[i]]
<1>1. PICK b \in BusOutcomes :
        LET h == [Select(Now, i, b) EXCEPT !.ctx[i].st = t] IN
        Becomes(h) \/ Becomes(fault(h, i, b))
  BY DEF port_fsm_alert_sweep
<1> DEFINE s == Select(Now, i, b)
           h == [s EXCEPT !.ctx[i].st = t]
           p == [s.ctx[i] EXCEPT !.st = t]
<1>2. Kept(Now, s) /\ ~Now.ctx[i].warm
  BY SelectKept, NotWarm DEF Lit, port_fsm_alert_sweep, Now, Powered
<1>3. t \in [attached : BOOLEAN, contract : Nat]
  BY DEF Now, World, Lit
<1>4. Becomes(h) \/ Becomes(fault(h, i, b))
  BY <1>1, Zenon
<1> HIDE DEF s, t
<1>5. s \in World /\ s.ctx[i] \in PortCtx
  BY <1>2, PartsType DEF Kept
<1>6. p \in PortCtx
  BY <1>3, <1>5, HeardCtx
<1>7. Alike(s.ctx[i], p)
  BY <1>5 DEF PortCtx, Alike
<1>8. h = [s EXCEPT !.ctx[i] = p]
  BY <1>5 DEF World
<1> HIDE DEF p, h
<1>9. Kept(s, h)
  BY <1>5, <1>6, <1>7, <1>8, CtxKept
<1>10. Lit(h) /\ ~h.ctx[i].warm
  BY <1>2, <1>9, KeptTrans, KeptLit
<1>11. Lit(fault(h, i, b))
  BY <1>10, LitParts, faultLit
<1>12. QED
  BY <1>4, <1>10, <1>11 DEF Lights

LEMMA CommandsLights ==
    ASSUME SettingsOK, ExpanderAnswers, Lit(Now), NEW i \in Ports, Commands(i)
    PROVE  \E w : Lights(w)
<1>1. CASE "disable" \in Events /\ CmdDisable(i)
  <2>1. ~Calm
    BY <1>1 DEF Calm
  <2>2. QED
    BY <1>1, <2>1, CmdDisableLights
<1>2. QED
  BY <1>1, CmdEnableLights, CmdUpdateLights, CmdLimitLights, CmdVoltLights DEF Commands

------------------------------------------------------------------------------
(* The theorems *)

\* Every lamp is right, and no seated blade is overlooked where the adopted
\* ports are left in peace.
Lighted == Lit(Now) /\ \A i \in Ports : Seen(i, present[i])

LEMMA LightsLighted ==
    ASSUME NEW w, Lights(w), UNCHANGED <<present, seated>>, Lighted
    PROVE  Lighted'
<1>1. Now' = [ctx |-> w.ctx, res |-> w.res, en |-> w.en, mux |-> w.mux,
              loader |-> w.loader, offer |-> w.offer, sink |-> w.sink]
  BY DEF Now, Becomes, Lights
<1>2. w = [ctx |-> w.ctx, res |-> w.res, en |-> w.en, mux |-> w.mux,
           loader |-> w.loader, offer |-> w.offer, sink |-> w.sink]
  BY DEF World, Lit, Lights
<1>3. Now' = w
  BY <1>1, <1>2
<1>4. QED
  BY <1>3 DEF Lighted, Lights, Lit, Seen

\* A port at power-up: adopted where its line stays on, and only there.
LEMMA BootLamp ==
    ASSUME NEW i \in Ports, NEW read, read[i] \in BOOLEAN,
           NEW powered, NEW admin \in [Ports -> BOOLEAN],
           NEW e \in BOOLEAN, e <=> StaysOn(i, read, powered, admin), e => Calm
    PROVE  Lamp(BootCtx(i, read, powered, admin), e, read[i])
<1> DEFINE p == BootCtx(i, read, powered, admin)
           r == ResetCtx(admin[i])
           up == {j \in Ports : read[j] /\ admin[j]}
           w == i \in up \cap powered
           off == i \in powered /\ read[i] /\ ~admin[i]
<1>1. r.state = "ABSENT" /\ r.admin = admin[i] /\ ~r.en_on
  BY DEF ResetCtx
<1>2. r \in PortCtx
  BY ResetCtxType
<1>3. w <=> StaysOn(i, read, powered, admin)
  BY DEF StaysOn
<1>4. PICK n : p = [r EXCEPT !.warm = w, !.slot = n,
                            !.state = IF off THEN "DISABLED" ELSE r.state]
  BY DEF BootCtx
<1>5. w => admin[i] /\ read[i]
  OBVIOUS
<1>6. off => ~admin[i]
  OBVIOUS
<1> HIDE DEF p, r, w, off
<1>7. /\ p.state = IF off THEN "DISABLED" ELSE "ABSENT"
      /\ p.warm = w /\ p.admin = admin[i] /\ p.en_on = r.en_on
  BY <1>1, <1>2, <1>4 DEF PortCtx
<1>8. w \in BOOLEAN /\ off \in BOOLEAN
  BY DEF w, off
<1>9. p.state \notin Powered /\ p.state \in {"DISABLED", "ABSENT"}
  BY <1>7 DEF Powered
<1>10. (p.warm <=> e) /\ (p.warm => p.admin /\ read[i])
  BY <1>3, <1>5, <1>7
<1>11. p.state = "DISABLED" => ~p.warm
  BY <1>5, <1>6, <1>7
<1>12. Lamp(p, e, read[i])
  BY <1>9, <1>10, <1>11 DEF Lamp
<1>13. QED
  BY <1>12 DEF p

LEMMA BootLit ==
    ASSUME NEW read \in [Ports -> BOOLEAN], NEW powered, NEW admin \in [Ports -> BOOLEAN],
           powered = {} \/ Calm, NEW t \in World,
           t.ctx = [i \in Ports |-> BootCtx(i, read, powered, admin)],
           \A i \in Ports : t.en[i] <=> StaysOn(i, read, powered, admin)
    PROVE  \A i \in Ports : Lamp(t.ctx[i], t.en[i], read[i])
<1> SUFFICES ASSUME NEW i \in Ports PROVE Lamp(t.ctx[i], t.en[i], read[i])
  OBVIOUS
<1>1. t.en[i] \in BOOLEAN /\ read[i] \in BOOLEAN
  BY PartsType
<1>2. t.en[i] => Calm
  BY DEF StaysOn
<1>3. Lamp(BootCtx(i, read, powered, admin), t.en[i], read[i])
  BY <1>1, <1>2, BootLamp
<1>4. QED
  BY <1>3

LEMMA InitLighted == Init => Lighted
<1> SUFFICES ASSUME Init PROVE Lighted
  OBVIOUS
<1>1. PICK off \in BootOff :
        ctx = [i \in Ports |-> BootCtx(i, seated, {}, [j \in Ports |-> j \notin off])]
  BY DEF Init
<1> DEFINE admin == [j \in Ports |-> j \notin off]
           dark == {}
           t == Now
<1>2. t \in World /\ seated \in [Ports -> BOOLEAN] /\ present = seated
  BY InitType DEF TypeOK, Init
<1>3. admin \in [Ports -> BOOLEAN] /\ dark = {}
  OBVIOUS
<1>4. t.ctx = [i \in Ports |-> BootCtx(i, seated, dark, admin)]
  BY <1>1 DEF Now
<1>5. t.en = [i \in Ports |-> FALSE]
  BY DEF Now, Init
<1> HIDE DEF admin, dark, t
<1>6. \A i \in Ports : t.en[i] <=> StaysOn(i, seated, dark, admin)
  BY <1>3, <1>5 DEF StaysOn
<1>7. \A i \in Ports : Lamp(t.ctx[i], t.en[i], seated[i])
  BY <1>2, <1>3, <1>4, <1>6, BootLit
<1>8. QED
  BY <1>2, <1>7 DEF Lighted, Lit, Seen, t

LEMMA RebootLighted ==
    ASSUME ExpanderAnswers, AdoptsInPeace, TypeOK, TypeOK', Reboot
    PROVE  Lighted'
<1>1. Calm
  BY ChassisAssumption DEF Reboot, AdoptsInPeace, TypeOK
<1>2. PICK off \in BootOff : BootInventory(seated, {i \in Ports : en[i]}, off)
  BY DEF Reboot, ExpanderAnswers
<1> DEFINE admin == [j \in Ports |-> j \notin off]
           powered == {i \in Ports : en[i]}
           seats == seated
           t == Now'
<1>3. t \in World /\ seats \in [Ports -> BOOLEAN] /\ seated' = seats /\ present' = seats
  BY <1>2 DEF TypeOK, Reboot, BootInventory
<1>4. admin \in [Ports -> BOOLEAN]
  OBVIOUS
<1>5. t.ctx = [i \in Ports |-> BootCtx(i, seats, powered, admin)]
  BY <1>2 DEF Now, BootInventory
<1>6. \A i \in Ports : t.en[i] <=> StaysOn(i, seats, powered, admin)
  BY <1>2 DEF Now, BootInventory
<1> HIDE DEF admin, powered, seats, t
<1>7. \A i \in Ports : Lamp(t.ctx[i], t.en[i], seats[i])
  BY <1>1, <1>3, <1>4, <1>5, <1>6, BootLit
<1>8. QED
  BY <1>3, <1>7 DEF Lighted, Lit, Seen, t

\* A blade that sits in its slot is not taken for gone: at most one of the
\* two reads is wrong.
LEMMA PresenceSeen ==
    ASSUME TypeOK, RefreshPresence, NEW i \in Ports, Seen(i, present[i])
    PROVE  Seen(i, present'[i])
<1> SUFFICES ASSUME Calm, seated[i] PROVE present'[i]
  BY DEF Seen
<1>1. present[i] /\ seated[i] = TRUE
  BY DEF Seen, TypeOK
<1>2. PICK flips \in SUBSET Ports, first \in BOOLEAN :
         LET read == [k \in Ports |-> seated[k] # (first /\ k \in flips)]
             again == [k \in Ports |-> seated[k] # (~first /\ k \in flips)]
             gone == \E k \in Ports : present[k] /\ ~read[k]
         IN  present' = [k \in Ports |-> read[k] \/ (gone /\ again[k])]
  <2>1. (IF "flip" \in Flaky THEN SUBSET Ports ELSE {{}}) \subseteq SUBSET Ports
    OBVIOUS
  <2>2. QED
    BY <2>1, Zenon DEF RefreshPresence
<1> DEFINE read == [k \in Ports |-> seated[k] # (first /\ k \in flips)]
           again == [k \in Ports |-> seated[k] # (~first /\ k \in flips)]
           gone == \E k \in Ports : present[k] /\ ~read[k]
<1>3. present'[i] = (read[i] \/ (gone /\ again[i]))
  BY <1>2
<1>4. CASE first
  <2>1. again[i]
    BY <1>1, <1>4
  <2>2. ~read[i] => gone
    BY <1>1
  <2> HIDE DEF read, again, gone
  <2>3. QED
    BY <1>3, <2>1, <2>2
<1>5. CASE ~first
  <2>1. read[i]
    BY <1>1, <1>5
  <2> HIDE DEF read, again, gone
  <2>2. QED
    BY <1>3, <2>1
<1>6. QED
  BY <1>4, <1>5

\* The lines and the ports stand still; the blades, the devices, the
\* settings or the engine's view of the slots move.
LEMMA StillLighted ==
    ASSUME TypeOK', Lighted, UNCHANGED <<ctx, en>>,
           \A i \in Ports : Calm => seated'[i] = seated[i],
           \A i \in Ports : Seen(i, present[i])'
    PROVE  Lighted'
<1>1. Now' \in World /\ Now'.ctx = Now.ctx /\ Now'.en = Now.en
  BY DEF TypeOK, Now
<1>2. \A j \in Ports : Lamp(Now.ctx[j], Now.en[j], seated'[j])
  <2> SUFFICES ASSUME NEW j \in Ports PROVE Lamp(Now.ctx[j], Now.en[j], seated'[j])
    OBVIOUS
  <2>1. Lamp(Now.ctx[j], Now.en[j], seated[j])
    BY DEF Lighted, Lit
  <2>2. QED
    BY <2>1 DEF Lamp
<1>3. QED
  BY <1>1, <1>2 DEF Lighted, Lit

LEMMA StepLighted ==
    ASSUME ExpanderAnswers, AdoptsInPeace, TypeOK, TypeOK', Lighted, [Next]_vars
    PROVE  Lighted'
<1>1. SettingsOK /\ Lit(Now) /\ \A i \in Ports : Seen(i, present[i])
  BY SettingsType DEF Lighted
<1>2. CASE Tick
  <2>1. PICK c \in Chances(ctx[turn]) : TickWith(c)
    BY <1>2 DEF Tick
  <2>2. turn \in Ports /\ c \in Chance
    BY <1>2, <2>1, ChancesType DEF Tick
  <2>3. PICK w : Lights(w)
    BY <1>1, <2>1, <2>2, TickLights DEF TickWith
  <2>4. QED
    BY <2>1, <2>3, LightsLighted DEF TickWith
<1>3. CASE Dispatch
  <2>1. PICK w : Lights(w)
    BY <1>1, <1>3, CommandsLights DEF Dispatch
  <2>2. QED
    BY <1>3, <2>1, LightsLighted DEF Dispatch, AtTop, engine_vars
<1>4. CASE AlertSweep
  <2>1. PICK w : Lights(w)
    BY <1>1, <1>4, port_fsm_alert_sweepLights DEF AlertSweep
  <2>2. QED
    BY <1>4, <2>1, LightsLighted DEF AlertSweep, AtTop, engine_vars
<1>5. CASE Reboot
  BY <1>5, RebootLighted
<1>6. CASE RefreshPresence
  <2>1. UNCHANGED <<ctx, en, seated>>
    BY <1>6 DEF RefreshPresence, fsm_vars
  <2>2. \A i \in Ports : Seen(i, present'[i])
    BY <1>1, <1>6, PresenceSeen
  <2>3. QED
    BY <2>1, <2>2, StillLighted DEF Seen
<1>7. CASE UNCHANGED <<ctx, en, present, seated>>
  BY <1>1, <1>7, StillLighted DEF Seen
<1>8. CASE \E i \in Ports : Seat(i) \/ Unseat(i)
  <2>1. ~Calm /\ UNCHANGED <<ctx, en, present>>
    BY <1>8 DEF Seat, Unseat, Outside, engine_vars, Calm
  <2>2. QED
    BY <2>1, StillLighted DEF Seen
<1>9. QED
  BY <1>2, <1>3, <1>4, <1>5, <1>6, <1>7, <1>8
     DEF Next, Others, Engine, SetCeiling, SetBudget, Committed, StartTicks, AtTop, engine_vars,
         HourPasses, Surroundings, StoreLimit, StoreVolt, Ask, Unplug, Restart,
         Outside, fsm_vars, vars

LEMMA AlwaysLighted ==
    ASSUME ExpanderAnswers, AdoptsInPeace
    PROVE  Spec => []Lighted
<1>1. Init => Lighted
  BY InitLighted
<1>2. TypeOK /\ TypeOK' /\ Lighted /\ [Next]_vars => Lighted'
  BY StepLighted
<1>3. QED
  BY <1>1, <1>2, TypeCorrect, PTL DEF Spec

\* A port counted as powered has its enable line high, and one that is
\* faulted, switched off or in its bootloader has it low, after any order of
\* probes, silences, bootloader trips, commands and restarts: no path through
\* port_fsm.c changes a state without the line that goes with it.
THEOREM LinesFollowStates ==
    ASSUME ExpanderAnswers, AdoptsInPeace
    PROVE  Spec => []EnableFollows
<1>1. Lighted => EnableFollows
  BY DEF Lighted, Lit, Lamp, EnableFollows, Now
<1>2. QED
  BY <1>1, AlwaysLighted, PTL

\* A port that a restart found on stays on until its probe has concluded: the
\* flag that says so never outlives the line.
THEOREM AdoptedStaysOn ==
    ASSUME ExpanderAnswers, AdoptsInPeace
    PROVE  Spec => []WarmIsOn
<1>1. Lighted => WarmIsOn
  BY DEF Lighted, Lit, Lamp, WarmIsOn, Now
<1>2. QED
  BY <1>1, AlwaysLighted, PTL

==============================================================================
