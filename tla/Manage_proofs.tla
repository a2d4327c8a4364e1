---------------------------- MODULE Manage_proofs ----------------------------
(***************************************************************************)
(* Proofs about what core 0 does besides the chassis: the controller's own *)
(* update, for every number of slots' cells, clients and versions; the     *)
(* link to the broker and what is announced over it, for every number of   *)
(* ports and topics and every set of modes; the main loop, for queues of   *)
(* every length; the log ring, for every size of it; and the fan, for      *)
(* every hold that fits its clock twice.                                   *)
(***************************************************************************)
EXTENDS Update, Mqtt, MainLoop, LogShip, Fan, FiniteSetTheorems, SequenceTheorems,
        WellFoundedInduction, TLAPS

------------------------------------------------------------------------------
(* The update *)

\* The console waives the signature of no image: what a transfer holds at its
\* end is then known to be of one image by its signature.
SignedOnly == \A w \in Waivers : "unsigned" \notin w

Outcomes == {"good", "bad", "fails"}
SlotTypes == [Slots -> [cells : [1..Cells -> Versions \cup {0}], trial : BOOLEAN]]
Boots(s) == s.cells[1] # 0 /\ ~s.trial

\* What the slots s hold: every image that the bootrom may choose is whole, and
\* so is the one that runs; and there is one to choose, which is the one that
\* runs unless that is on trial.
Home(s) ==
    /\ s \in SlotTypes /\ run \in Slots
    /\ \A x \in Slots : Boots(s[x]) => Whole(s[x])
    /\ Whole(s[run])
    /\ \E x \in Slots : Boots(s[x]) /\ (pending \/ x = run)

UpFields == {"active", "stale", "allow", "fmt", "placed", "target", "reboot", "ver"}

\* A transfer u goes to the other slot, whose first sector is erased until the
\* end; what is about to be started is whole and on trial.
Transfer(u, s) ==
    /\ u = [f \in UpFields |-> u[f]]
    /\ u.placed \in Seq(Versions) /\ Len(u.placed) <= Cells
    /\ u.target \in Slots /\ "unsigned" \notin u.allow
    /\ u.active \/ u.reboot => ~pending /\ u.target # run
    /\ u.active => ~u.reboot /\ s[u.target].cells[1] = 0
    /\ u.reboot => Whole(s[u.target]) /\ s[u.target].trial

Sound(d) ==
    /\ d = [f \in {"ok", "up", "slot"} |-> d[f]]
    /\ Home(d.slot) /\ Transfer(d.up, d.slot)

\* What the clients send.
Clients ==
    /\ http \in [Conns -> [on : BOOLEAN, img : Versions, at : Nat]]
    /\ pull = [f \in DOMAIN NoPull |-> pull[f]]
    /\ pull.img \in Versions /\ "unsigned" \notin pull.allow
    /\ latest \in Versions \cup {0}

IInv == Sound(Here) /\ Clients

------------------------------------------------------------------------------
(* The flash *)

LEMMA CellSet ==
    ASSUME NEW s \in SlotTypes, NEW t \in Slots, NEW i \in 1..Cells, NEW v \in Versions \cup {0}
    PROVE  LET z == [s EXCEPT ![t].cells[i] = v]
           IN  /\ z \in SlotTypes /\ \A x \in Slots : x # t => z[x] = s[x]
               /\ z[t].trial = s[t].trial
               /\ \A j \in 1..Cells : z[t].cells[j] = IF j = i THEN v ELSE s[t].cells[j]
  BY DEF SlotTypes

LEMMA TrialSet ==
    ASSUME NEW s \in SlotTypes, NEW t \in Slots
    PROVE  LET z == [s EXCEPT ![t].trial = TRUE]
           IN  /\ z \in SlotTypes /\ \A x \in Slots : x # t => z[x] = s[x]
               /\ z[t].trial /\ z[t].cells = s[t].cells
  BY DEF SlotTypes

\* What changes only a slot that does not run and cannot be chosen leaves the
\* others as they were.
LEMMA HomeStays ==
    ASSUME NEW s, Home(s), ~pending, NEW t \in Slots, t # run,
           NEW z \in SlotTypes, \A x \in Slots : x # t => z[x] = s[x], ~Boots(z[t])
    PROVE  Home(z)
  BY DEF Home, Boots

LEMMA FirstCell == 1 \in 1..Cells /\ Cells \in Nat /\ Cells >= 2
  BY UpdateAssumption

LEMMA TargetOther == ASSUME run \in Slots PROVE Target \in Slots /\ Target # run
  BY DEF Target, Slots

------------------------------------------------------------------------------
(* The transport core *)

LEMMA AbortIs ==
    ASSUME NEW d, d = [f \in {"ok", "up", "slot"} |-> d[f]]
    PROVE  LET e == update_abort(d)
           IN  /\ e = [f \in {"ok", "up", "slot"} |-> e[f]] /\ ~e.ok
               /\ e.slot = d.slot /\ e.up = [d.up EXCEPT !.active = FALSE]
  BY DEF update_abort

LEMMA AbortSound ==
    ASSUME NEW d, Sound(d)
    PROVE  Sound(update_abort(d)) /\ ~update_abort(d).up.active
  <1>1. ASSUME NEW u, Transfer(u, d.slot), NEW v, v = [u EXCEPT !.active = FALSE]
        PROVE  Transfer(v, d.slot) /\ ~v.active
    BY <1>1 DEF Transfer, UpFields
  <1> QED
    BY <1>1, AbortIs DEF Sound

LEMMA FreshTransfer ==
    /\ NoTransfer = [f \in UpFields |-> NoTransfer[f]] 
    /\ NoTransfer.placed \in Seq(Versions) /\ Len(NoTransfer.placed) = 0
    /\ NoTransfer.target \in Slots /\ NoTransfer.allow = {}
    /\ ~NoTransfer.active /\ ~NoTransfer.reboot
  BY DEF NoTransfer, UpFields, Slots

LEMMA BeginSound ==
    ASSUME IInv, NEW allow, "unsigned" \notin allow, NEW f \in Outcomes
    PROVE  Sound(update_begin(allow, f))
  <1>1. CASE Refuses
    BY <1>1 DEF update_begin, IInv, Sound, Here
  <1>2. CASE ~Refuses
    <2> DEFINE u == [NoTransfer EXCEPT !.active = f # "fails", !.allow = allow, !.target = Target]
               z == IF f = "fails" THEN slot ELSE [slot EXCEPT ![Target].cells[1] = 0]
    <2>1. update_begin(allow, f) = [ok |-> f # "fails", up |-> u, slot |-> z]
      BY <1>2 DEF update_begin
    <2>2. ~pending /\ Home(slot) /\ slot \in SlotTypes /\ run \in Slots
      BY <1>2 DEF Refuses, IInv, Sound, Here, Home
    <2>3. Home(z) /\ (f # "fails" => z[Target].cells[1] = 0)
      <3>1. CASE f = "fails"
        BY <2>2, <3>1
      <3>2. CASE f # "fails"
        <4>1. /\ z \in SlotTypes /\ \A x \in Slots : x # Target => z[x] = slot[x]
              /\ z[Target].cells[1] = 0
          BY <2>2, <3>2, CellSet, FirstCell, TargetOther
        <4> QED
          BY <2>2, <4>1, HomeStays, TargetOther DEF Boots
      <3> QED
        BY <3>1, <3>2
    <2>4. /\ u = [x \in UpFields |-> u[x]] /\ u.target = Target
          /\ u.placed \in Seq(Versions) /\ Len(u.placed) = 0
          /\ u.allow = allow /\ (u.active => f # "fails") /\ ~u.reboot
      <3>1. PICK b \in BOOLEAN : b = (f # "fails")
        OBVIOUS
      <3>2. u = [NoTransfer EXCEPT !.active = b, !.allow = allow, !.target = Target]
        BY <3>1
      <3> HIDE DEF u
      <3> QED
        BY <3>1, <3>2, FreshTransfer DEF UpFields
    <2> HIDE DEF u, z
    <2>5. Transfer(u, z)
      <3>1. u.placed \in Seq(Versions) /\ Len(u.placed) <= Cells
        BY <2>4, FirstCell
      <3>2. u.target \in Slots /\ "unsigned" \notin u.allow
        BY <2>2, <2>4, TargetOther
      <3>3. u.active \/ u.reboot => ~pending /\ u.target # run
        BY <2>2, <2>4, TargetOther
      <3>4. u.active => ~u.reboot /\ z[u.target].cells[1] = 0
        BY <2>3, <2>4
      <3> QED
        BY <2>4, <3>1, <3>2, <3>3, <3>4 DEF Transfer
    <2> QED
      BY <2>1, <2>3, <2>5 DEF Sound
  <1> QED
    BY <1>1, <1>2

\* A sector past the first is written: the slot stays unbootable.
LEMMA SectorSound ==
    ASSUME NEW d, Sound(d), d.up.active, NEW i \in 2..Cells, NEW v \in Versions,
           NEW f \in Outcomes
    PROVE  LET e == flash_sector(d, i, v, f)
           IN  Sound(e) /\ (e.ok => e.up = d.up)
  <1>1. CASE f = "fails"
    BY <1>1, AbortSound DEF flash_sector, update_abort, Sound
  <1>2. CASE f # "fails"
    <2> DEFINE t == d.up.target
               w == IF f = "bad" THEN 0 ELSE v
               z == [d.slot EXCEPT ![t].cells[i] = w]
    <2>1. flash_sector(d, i, v, f) = [d EXCEPT !.slot = z]
      BY <1>2 DEF flash_sector
    <2>2. /\ ~pending /\ t \in Slots /\ t # run /\ Home(d.slot) /\ d.slot \in SlotTypes
          /\ d.slot[t].cells[1] = 0 /\ ~d.up.reboot
      BY DEF Sound, Transfer, Home
    <2>3. w \in Versions \cup {0} /\ i \in 1..Cells /\ i # 1
      BY FirstCell
    <2> HIDE DEF w, t
    <2>4. /\ z \in SlotTypes /\ \A x \in Slots : x # t => z[x] = d.slot[x]
          /\ z[t].cells[1] = 0
      BY <2>2, <2>3, CellSet, FirstCell
    <2> HIDE DEF z
    <2>5. Home(z) /\ Transfer(d.up, z)
      BY <2>2, <2>4, HomeStays DEF Boots, Sound, Transfer, t
    <2>6. LET e == [d EXCEPT !.slot = z]
          IN  e = [x \in {"ok", "up", "slot"} |-> e[x]] /\ e.up = d.up /\ e.slot = z
      BY DEF Sound
    <2> QED
      BY <2>1, <2>5, <2>6 DEF Sound
  <1> QED
    BY <1>1, <1>2

LEMMA FieldSound ==
    ASSUME NEW u, NEW s, Transfer(u, s), NEW v
    PROVE  /\ Transfer([u EXCEPT !.fmt = v], s) /\ Transfer([u EXCEPT !.stale = v], s)
           /\ Transfer([u EXCEPT !.ver = v], s)
           /\ [u EXCEPT !.fmt = v].active = u.active
  BY DEF Transfer, UpFields

LEMMA AppendSound ==
    ASSUME NEW u, NEW s, Transfer(u, s), NEW v \in Versions, Len(u.placed) < Cells
    PROVE  Transfer([u EXCEPT !.placed = Append(@, v)], s)
  <1>1. Append(u.placed, v) \in Seq(Versions) /\ Len(Append(u.placed, v)) <= Cells
    BY FirstCell DEF Transfer
  <1> QED
    BY <1>1 DEF Transfer, UpFields

LEMMA UpSet ==
    ASSUME NEW d, Sound(d), NEW u, Transfer(u, d.slot)
    PROVE  Sound([d EXCEPT !.up = u])
  BY DEF Sound

LEMMA PutSound ==
    ASSUME NEW d, Sound(d), d.up.active, NEW v \in Versions, NEW f \in Outcomes
    PROVE  Sound(put_bytes(d, v, f))
  <1> DEFINE cell == Len(d.up.placed) + 1
             e == IF cell = 1 THEN d ELSE flash_sector(d, cell, v, f)
             r == [e EXCEPT !.up.placed = Append(@, v), !.up.stale = FALSE]
  <1>1. put_bytes(d, v, f) = IF cell > Cells THEN update_abort(d) ELSE IF ~e.ok THEN e ELSE r
    BY DEF put_bytes
  <1>2. cell \in Nat /\ cell >= 1
    BY DEF Sound, Transfer
  <1>3. CASE cell > Cells
    BY <1>1, <1>3, AbortSound
  <1>4. CASE ~(cell > Cells)
    <2>1. Sound(e) /\ (e.ok => e.up = d.up)
      <3>1. CASE cell = 1
        BY <3>1
      <3>2. CASE cell # 1
        <4>1. cell \in 2..Cells
          BY <1>2, <1>4, <3>2, FirstCell
        <4> QED
          BY <3>2, <4>1, SectorSound
      <3> QED
        BY <3>1, <3>2
    <2> HIDE DEF e
    <2>2. CASE ~e.ok
      BY <1>1, <1>4, <2>1, <2>2
    <2>3. CASE e.ok
      <3>1. Len(e.up.placed) < Cells /\ Transfer(e.up, e.slot)
        BY <1>4, <2>1, <2>3, FirstCell DEF Sound, Transfer
      <3>2. Transfer([e.up EXCEPT !.placed = Append(@, v)], e.slot)
        BY <3>1, AppendSound
      <3>3. Transfer([[e.up EXCEPT !.placed = Append(@, v)] EXCEPT !.stale = FALSE], e.slot)
        BY <3>2, FieldSound
      <3>4. r = [e EXCEPT !.up = [[e.up EXCEPT !.placed = Append(@, v)] EXCEPT !.stale = FALSE]]
        OBVIOUS
      <3>5. Sound(r)
        BY <2>1, <3>3, <3>4, UpSet
      <3> QED
        BY <1>1, <1>4, <2>3, <3>5
    <2> QED
      BY <2>2, <2>3
  <1> QED
    BY <1>3, <1>4

LEMMA NotOk == ASSUME NEW d, Sound(d) PROVE Sound([d EXCEPT !.ok = FALSE])
  BY DEF Sound

LEMMA WriteSound ==
    ASSUME IInv, NEW v \in Versions, NEW i, NEW f \in Outcomes
    PROVE  Sound(update_write(v, i, f))
  <1> DEFINE fmt == IF up.fmt # "unknown" THEN up.fmt ELSE IF v \in Signed THEN "bin" ELSE "uf2"
             d == [Here EXCEPT !.up.fmt = fmt]
  <1>1. update_write(v, i, f) \in {[Here EXCEPT !.ok = FALSE], update_abort(d), put_bytes(d, v, f)}
        /\ (update_write(v, i, f) # [Here EXCEPT !.ok = FALSE] => up.active)
    BY DEF update_write
  <1>2. Sound(Here)
    BY DEF IInv
  <1>3. Sound(d) /\ (up.active => d.up.active)
    <2>1. d = [Here EXCEPT !.up = [up EXCEPT !.fmt = fmt]] /\ Here.up = up /\ Here.slot = slot
      BY DEF Here
    <2>2. Transfer([up EXCEPT !.fmt = fmt], slot) /\ [up EXCEPT !.fmt = fmt].active = up.active
      BY <1>2, <2>1, FieldSound, ZenonT(40) DEF Sound
    <2> HIDE DEF fmt
    <2>3. d.up = [up EXCEPT !.fmt = fmt]
      BY <2>1, <1>2 DEF Sound
    <2> QED
      BY <1>2, <2>1, <2>2, <2>3, UpSet
  <1> HIDE DEF d
  <1> QED
    BY <1>1, <1>2, <1>3, AbortSound, NotOk, PutSound

\* A signed image is complete and of one image.
LEMMA FitIsOne ==
    ASSUME NEW u, NEW s, Transfer(u, s), ~Unfit(u)
    PROVE  /\ Len(u.placed) = Cells /\ u.placed[1] \in Versions /\ u.placed[1] # 0
           /\ \A i \in 1..Cells : u.placed[i] = u.placed[1]
  <1>1. /\ u.fmt = "bin" /\ ~(Len(u.placed) < Cells)
        /\ \A i \in DOMAIN u.placed : u.placed[i] = u.placed[Len(u.placed)]
    BY DEF Unfit, Transfer
  <1>2. Len(u.placed) = Cells /\ DOMAIN u.placed = 1..Cells
    BY <1>1, FirstCell DEF Transfer
  <1>3. \A i \in 1..Cells : u.placed[i] \in Versions
    BY <1>2 DEF Transfer
  <1>4. u.placed[1] \in Versions
    BY <1>3, FirstCell
  <1> QED
    BY <1>1, <1>2, <1>4, FirstCell, UpdateAssumption DEF Versions

\* The end of a transfer: the slot it wrote is on trial, and whole if all read
\* back as it was sent.
LEMMA FinishSound ==
    ASSUME NEW d, Sound(d), NEW f \in Outcomes
    PROVE  LET e == update_finish(d, f)
           IN  Sound(e) /\ (e.ok => Sound(update_schedule_reboot(e)))
  <1> DEFINE u == d.up
             t == u.target
             c == IF f = "bad" THEN 0 ELSE u.placed[1]
             y == [d EXCEPT !.slot[t].trial = TRUE]
             e == flash_sector(y, 1, u.placed[1], f)
             same == \A i \in DOMAIN u.placed : e.slot[t].cells[i] = u.placed[i]
             r == [e EXCEPT !.ok = TRUE, !.up.active = FALSE, !.up.ver = u.placed[1]]
  <1>1. CASE ~u.active
    BY <1>1, NotOk DEF update_finish, Sound
  <1>2. CASE u.active /\ (u.placed = <<>> \/ Unfit(u) \/ f = "fails")
    BY <1>2, AbortSound DEF update_finish, update_abort, Sound
  <1>3. CASE u.active /\ ~(u.placed = <<>> \/ Unfit(u)) /\ f # "fails"
    <2>1. update_finish(d, f) = IF ~same THEN update_abort(e) ELSE r
      BY <1>3 DEF update_finish
    <2>2. /\ Len(u.placed) = Cells /\ u.placed[1] \in Versions /\ u.placed[1] # 0
          /\ \A i \in 1..Cells : u.placed[i] = u.placed[1]
      BY <1>3, FitIsOne DEF Sound
    <2>3. /\ Home(d.slot) /\ Transfer(u, d.slot) /\ ~pending /\ t \in Slots /\ t # run
          /\ ~u.reboot
      BY <1>3 DEF Sound, Transfer
    <2> DEFINE w == [d.slot EXCEPT ![t].trial = TRUE]
               z == [w EXCEPT ![t].cells[1] = c]
    <2>4. e = [d EXCEPT !.slot = z]
      <3>1. y = [d EXCEPT !.slot = w] /\ y.slot = w /\ y.up = u
        BY DEF Sound
      <3>2. e = [y EXCEPT !.slot[y.up.target].cells[1] = c]
        BY <1>3 DEF flash_sector
      <3> HIDE DEF w, c, y
      <3> QED
        BY <3>1, <3>2 DEF Sound
    <2>5. /\ z \in SlotTypes /\ \A x \in Slots : x # t => z[x] = d.slot[x]
          /\ z[t].trial
      <3>1. w \in SlotTypes /\ (\A x \in Slots : x # t => w[x] = d.slot[x]) /\ w[t].trial
        BY <2>3, TrialSet DEF Home
      <3>2. c \in Versions \cup {0}
        BY <2>2
      <3> HIDE DEF w, c, t
      <3> QED
        BY <2>3, <3>1, <3>2, CellSet, FirstCell
    <2>6. e.slot = z /\ e.up = u /\ e = [x \in {"ok", "up", "slot"} |-> e[x]]
      BY <2>4 DEF Sound
    <2> HIDE DEF z, e
    <2>7. Home(z)
      BY <2>3, <2>5, HomeStays DEF Boots
    <2>8. ASSUME NEW v, v.active = FALSE, v = [x \in UpFields |-> v[x]],
                 \A x \in UpFields \ {"active", "ver", "reboot"} : v[x] = u[x],
                 v.reboot => Whole(z[t])
          PROVE  Transfer(v, z)
      BY <2>3, <2>5, <2>8 DEF Transfer, UpFields
    <2>9. CASE ~same
      <3>1. ASSUME NEW v, v = [u EXCEPT !.active = FALSE]
            PROVE  Transfer(v, z)
        BY <2>3, <2>8, <3>1 DEF Transfer, UpFields
      <3>2. /\ update_abort(e) = [x \in {"ok", "up", "slot"} |-> update_abort(e)[x]]
            /\ update_abort(e).slot = z /\ ~update_abort(e).ok
            /\ update_abort(e).up = [u EXCEPT !.active = FALSE]
        BY <2>6, AbortIs
      <3> QED
        BY <2>1, <2>7, <2>9, <3>1, <3>2 DEF Sound
    <2>10. CASE same
      <3>1. Whole(z[t])
        <4>1. DOMAIN u.placed = 1..Cells
          BY <2>2, <2>3 DEF Transfer
        <4>2. \A i \in 1..Cells : z[t].cells[i] = u.placed[1]
          BY <2>2, <2>6, <2>10, <4>1
        <4> QED
          BY <2>2, <4>2, FirstCell DEF Whole
      <3> DEFINE a == [[u EXCEPT !.active = FALSE] EXCEPT !.ver = u.placed[1]]
                 b == [a EXCEPT !.reboot = TRUE]
                 q == update_schedule_reboot(r)
      <3>2. Transfer(a, z)
        BY <2>3, <2>8 DEF Transfer, UpFields
      <3>3. Transfer(b, z)
        BY <2>3, <2>8, <3>1 DEF Transfer, UpFields
      <3>4. r = [x \in {"ok", "up", "slot"} |-> r[x]] /\ r.slot = z /\ r.up = a
        BY <2>6
      <3> HIDE DEF r, a
      <3>5. q = [x \in {"ok", "up", "slot"} |-> q[x]] /\ q.slot = z /\ q.up = b
        BY <3>4 DEF update_schedule_reboot
      <3> QED
        BY <2>1, <2>7, <2>10, <3>2, <3>3, <3>4, <3>5 DEF Sound
    <2> QED
      BY <2>9, <2>10
  <1> QED
    BY <1>1, <1>2, <1>3

------------------------------------------------------------------------------
(* The steps *)

LEMMA InitSound == Init => IInv
  <1> SUFFICES ASSUME Init PROVE IInv
    OBVIOUS
  <1>1. /\ slot["A"] = [cells |-> [i \in 1..Cells |-> Factory], trial |-> FALSE]
        /\ slot \in SlotTypes
    BY DEF Init, SlotTypes, Slots, Empty, Versions
  <1>2. Factory \in Versions /\ Factory # 0
    BY UpdateAssumption DEF Versions
  <1>3. Whole(slot["A"]) /\ Boots(slot["A"]) /\ run = "A" /\ "A" \in Slots /\ ~pending
    BY <1>1, <1>2, FirstCell DEF Init, Whole, Boots, Slots
  <1>4. ~Boots(slot["B"])
    BY FirstCell DEF Init, Slots, Empty, Boots
  <1>5. Home(slot)
    <2>1. \A x \in Slots : x = "A" \/ x = "B"
      BY DEF Slots
    <2> QED
      <3>1. \A x \in Slots : Boots(slot[x]) => Whole(slot[x])
        BY <1>3, <1>4, <2>1
      <3>2. Whole(slot[run]) /\ Boots(slot[run]) /\ run \in Slots
        BY <1>3
      <3> QED
        BY <1>1, <3>1, <3>2 DEF Home
  <1>6. Transfer(up, slot)
    <2>1. up = NoTransfer
      BY DEF Init
    <2> QED
      BY <2>1, FreshTransfer, FirstCell DEF Transfer
  <1>7. Clients
    BY <1>2 DEF Init, Clients, Idle, NoPull
  <1> QED
    BY <1>5, <1>6, <1>7 DEF IInv, Sound, Here

\* What a step of the transport core leaves.
LEMMA BecomesSound ==
    ASSUME NEW d, NEW f, Sound(d), Becomes(d, f), UNCHANGED boot_vars, Clients'
    PROVE  IInv'
  <1>1. run' = run /\ pending' = pending /\ up' = d.up /\ slot' = d.slot
    BY DEF Becomes, boot_vars
  <1>2. Home(slot)' /\ Transfer(up, slot)'
    BY <1>1 DEF Sound, Home, Transfer
  <1> QED
    BY <1>2 DEF IInv, Sound, Here

\* What leaves the transfer, the slots and the clients alone.
LEMMA SameSound ==
    ASSUME IInv, UNCHANGED <<slot, run, pending, up, http, pull, latest>>
    PROVE  IInv'
  BY DEF IInv, Sound, Here, Home, Transfer, Clients

LEMMA OutcomesAre == FlashOutcomes \subseteq Outcomes /\ "good" \in Outcomes
  BY DEF FlashOutcomes, Outcomes

LEMMA StallsHold == IInv /\ Stalls => IInv'
  <1> SUFFICES ASSUME IInv, Stalls PROVE IInv'
    OBVIOUS
  <1>1. Transfer([up EXCEPT !.stale = TRUE], slot)
    BY FieldSound DEF IInv, Sound, Here
  <1>2. up' = [up EXCEPT !.stale = TRUE] /\ UNCHANGED <<slot, run, pending, http, pull, latest>>
    BY DEF Stalls, boot_vars, net_vars, auto_vars
  <1> QED
    BY <1>1, <1>2 DEF IInv, Sound, Here, Home, Transfer, Clients

LEMMA HttpHolds == IInv /\ HttpNext => IInv'
  <1> SUFFICES ASSUME IInv, NEW c \in Conns, HttpStart(c) \/ HttpFeed(c) \/ HttpDrop(c)
               PROVE  IInv'
    BY DEF HttpNext
  <1>1. Clients /\ Idle \in [on : BOOLEAN, img : Versions, at : Nat]
    BY UpdateAssumption DEF IInv, Idle, Versions
  <1>2. CASE HttpStart(c)
    <2>1. PICK v \in Pushed, f \in FlashOutcomes :
             LET d == update_begin({}, f)
             IN  /\ Becomes(d, f)
                 /\ http' = IF d.ok THEN [b \in Conns |-> IF b = c
                                                            THEN [on |-> TRUE, img |-> v, at |-> 0]
                                                            ELSE Idle]
                            ELSE http
      BY <1>2 DEF HttpStart
    <2>2. v \in Versions
      BY DEF Versions
    <2>3. Clients'
      BY <1>1, <1>2, <2>1, <2>2 DEF Clients, HttpStart, auto_vars
    <2> QED
      BY <1>2, <2>1, <2>3, BeginSound, BecomesSound, OutcomesAre DEF HttpStart
  <1>3. CASE HttpFeed(c)
    <2> DEFINE cell == http[c].at + 1
               D(f) == update_write(http[c].img, cell, f)
               E(f, g) == update_finish(D(f), g)
               last(f) == D(f).ok /\ cell = Cells
               R(f, g) == IF last(f) /\ E(f, g).ok THEN update_schedule_reboot(E(f, g))
                          ELSE IF last(f) THEN update_abort(E(f, g))
                          ELSE IF D(f).ok THEN D(f) ELSE update_abort(D(f))
    <2>1. PICK f \in FlashOutcomes, g \in FlashOutcomes :
             /\ Becomes(R(f, g), IF f = "good" THEN g ELSE f)
             /\ http' = [http EXCEPT ![c] = IF R(f, g).ok /\ ~last(f) THEN [@ EXCEPT !.at = cell]
                                            ELSE Idle]
      BY <1>3 DEF HttpFeed
    <2>2. http[c].img \in Versions /\ cell \in Nat
      BY <1>1 DEF Clients
    <2>3. Sound(R(f, g))
      <3>1. Sound(D(f))
        BY <2>2, OutcomesAre, WriteSound
      <3> HIDE DEF D
      <3>2. Sound(E(f, g)) /\ (E(f, g).ok => Sound(update_schedule_reboot(E(f, g))))
        BY <3>1, OutcomesAre, FinishSound
      <3> HIDE DEF E, last
      <3> QED
        BY <3>1, <3>2, AbortSound
    <2>4. Clients'
      <3>1. UNCHANGED <<pull, latest>>
        BY <1>3 DEF HttpFeed, auto_vars
      <3>2. [http[c] EXCEPT !.at = cell] \in [on : BOOLEAN, img : Versions, at : Nat]
        BY <1>1, <2>2 DEF Clients
      <3> HIDE DEF R, last, cell
      <3> QED
        BY <1>1, <2>1, <3>1, <3>2 DEF Clients
    <2> HIDE DEF R
    <2> QED
      BY <1>3, <2>1, <2>3, <2>4, BecomesSound DEF HttpFeed
  <1>4. CASE HttpDrop(c)
    <2>1. Clients' /\ Becomes(update_abort(Here), "good") /\ UNCHANGED boot_vars
      BY <1>1, <1>4 DEF HttpDrop, Clients, auto_vars
    <2> QED
      BY <2>1, AbortSound, BecomesSound DEF IInv
  <1> QED
    BY <1>2, <1>3, <1>4

LEMMA FreshPull ==
    /\ NoPull = [f \in DOMAIN NoPull |-> NoPull[f]] /\ NoPull.img \in Versions
    /\ NoPull.allow = {}
  BY UpdateAssumption DEF NoPull, Versions

LEMMA PullHolds ==
    ASSUME SignedOnly, IInv, PullNext
    PROVE  IInv'
  <1>1. /\ Clients /\ UNCHANGED <<boot_vars, latest>>
        /\ pull = [f \in DOMAIN NoPull |-> pull[f]]
    BY DEF IInv, Clients, PullNext, PullStart, PullMarks, PullHeaders, PullBody, PullDone,
           PullFails, auto_vars
  <1>2. ASSUME NEW v \in Versions, NEW allow, "unsigned" \notin allow, NEW main,
               pull_start(v, allow, main), UNCHANGED http
        PROVE  Clients'
    BY <1>1, <1>2, FreshPull DEF pull_start, Clients, NoPull
  <1>3. ASSUME PullOver, UNCHANGED http PROVE Clients'
    BY <1>1, <1>3, FreshPull DEF PullOver, Clients, NoPull
  <1>4. ASSUME NEW x, NEW y,
               pull' = [pull EXCEPT !.at = x, !.failed = y] \/ pull' = [pull EXCEPT !.ph = x]
                 \/ pull' = [pull EXCEPT !.marks = x],
               UNCHANGED http
        PROVE  Clients'
    BY <1>1, <1>4 DEF Clients, NoPull
  <1>5. CASE PullStart
    <2>1. Clients'
      <3>1. UNCHANGED http /\ latest \in Versions \cup {0} /\ Pulled \subseteq Versions
        BY <1>1, <1>5 DEF PullStart, Clients, Versions
      <3>2. \/ \E v \in Pulled, allow \in Waivers : pull_start(v, allow, TRUE)
            \/ latest # 0 /\ pull_start(latest, {}, FALSE)
        BY <1>5 DEF PullStart
      <3> QED
        BY <1>2, <3>1, <3>2 DEF SignedOnly
    <2> QED
      BY <1>5, <2>1 DEF PullStart, boot_vars, IInv, Sound, Here, Home, Transfer
  <1>6. CASE PullMarks
    <2>1. Clients'
      BY <1>4, <1>6 DEF PullMarks
    <2> QED
      BY <1>6, <2>1 DEF PullMarks, boot_vars, IInv, Sound, Here, Home, Transfer
  <1>7. CASE PullHeaders
    <2> DEFINE D(f) == update_begin(pull.allow, f)
    <2>1. PICK f \in FlashOutcomes :
             /\ Becomes(IF D(f).ok THEN D(f) ELSE update_abort(D(f)), f)
             /\ PullOver \/ pull' = [pull EXCEPT !.ph = "body"]
             /\ UNCHANGED http
      BY <1>7 DEF PullHeaders
    <2>2. Sound(D(f))
      BY <1>1, OutcomesAre, BeginSound DEF Clients
    <2>3. Clients'
      BY <1>3, <1>4, <2>1
    <2> HIDE DEF D
    <2> QED
      BY <1>1, <2>1, <2>2, <2>3, AbortSound, BecomesSound
  <1>8. CASE PullBody
    <2> DEFINE D(f) == IF pull.failed THEN Here ELSE update_write(pull.img, pull.at + 1, f)
    <2>1. PICK f \in FlashOutcomes :
             /\ Becomes(D(f), f)
             /\ pull' = [pull EXCEPT !.at = @ + 1, !.failed = @ \/ ~D(f).ok] /\ UNCHANGED http
      BY <1>8 DEF PullBody
    <2>2. Sound(D(f))
      BY <1>1, OutcomesAre, WriteSound DEF Clients, IInv
    <2>3. Clients'
      BY <1>4, <2>1
    <2> HIDE DEF D
    <2> QED
      BY <1>1, <2>1, <2>2, <2>3, BecomesSound
  <1>9. CASE PullDone
    <2> DEFINE E(f) == update_finish(Here, f)
    <2>1. PICK f \in FlashOutcomes :
             /\ Becomes(IF E(f).ok THEN update_schedule_reboot(E(f)) ELSE E(f), f)
             /\ PullOver /\ UNCHANGED http
      BY <1>9 DEF PullDone
    <2>2. Sound(E(f)) /\ (E(f).ok => Sound(update_schedule_reboot(E(f))))
      BY OutcomesAre, FinishSound DEF IInv
    <2>3. Clients'
      BY <1>3, <2>1
    <2> HIDE DEF E
    <2> QED
      BY <1>1, <2>1, <2>2, <2>3, BecomesSound
  <1>10. CASE PullFails
    <2>1. /\ Becomes(IF pull.failed THEN Here ELSE update_abort(Here), "good")
          /\ PullOver /\ UNCHANGED http
      BY <1>10 DEF PullFails
    <2>2. Clients'
      BY <1>3, <2>1
    <2> QED
      BY <1>1, <2>1, <2>2, AbortSound, BecomesSound DEF IInv
  <1> QED
    BY <1>5, <1>6, <1>7, <1>8, <1>9, <1>10 DEF PullNext

LEMMA AutoHolds == IInv /\ AutoNext => IInv'
  <1> SUFFICES ASSUME IInv, AutoNext PROVE IInv'
    OBVIOUS
  <1>1. UNCHANGED <<slot, run, pending, up, http>>
    BY DEF AutoNext, Offer, AutoNotes, AutoPoll, UserSkips, SettingsSaved, boot_vars, net_vars
  <1>2. Clients'
    <2>1. latest' \in Versions \cup {0}
      BY DEF AutoNext, Offer, AutoNotes, AutoPoll, UserSkips, SettingsSaved, Versions, IInv, Clients
    <2>2. CASE UNCHANGED pull
      BY <1>1, <2>1, <2>2 DEF IInv, Clients
    <2>3. CASE pull_start(latest, {}, TRUE) /\ MayInstall
      <3>1. latest \in Versions
        <4>1. Running \in Nat
          BY FirstCell, UpdateAssumption
             DEF Running, IInv, Sound, Here, Home, SlotTypes, Versions
        <4>2. latest > Running /\ latest \in Versions \cup {0}
          BY <2>3 DEF MayInstall, IInv, Clients
        <4>3. ~(0 > Running)
          BY <4>1
        <4> QED
          BY <4>2, <4>3
      <3> QED
        BY <1>1, <2>1, <2>3, <3>1, FreshPull DEF pull_start, IInv, Clients, NoPull
    <2> QED
      BY <2>2, <2>3 DEF AutoNext, Offer, AutoNotes, AutoPoll, UserSkips, SettingsSaved, net_vars
  <1> QED
    BY <1>1, <1>2 DEF IInv, Sound, Here, Home, Transfer

\* A start from a slot that holds a whole image: there is one to go back to.
LEMMA StartHolds ==
    ASSUME IInv, NEW s \in Slots, NEW on_trial \in BOOLEAN, Start(s, on_trial), Whole(slot[s]),
           on_trial \/ Boots(slot[s])
    PROVE  IInv'
  <1>1. run' = s /\ pending' = on_trial /\ slot' = slot /\ up' = NoTransfer
    BY DEF Start
  <1>2. Clients'
    BY FreshPull, UpdateAssumption DEF Start, Clients, Idle, Versions
  <1>3. Home(slot)'
    BY <1>1 DEF IInv, Sound, Here, Home
  <1>4. Transfer(up, slot)'
    BY <1>1, FreshTransfer, FirstCell DEF Transfer
  <1> QED
    BY <1>2, <1>3, <1>4 DEF IInv, Sound, Here

LEMMA BootHolds == IInv /\ BootNext => IInv'
  <1> SUFFICES ASSUME IInv, BootNext PROVE IInv'
    OBVIOUS
  <1>1. Home(slot) /\ Transfer(up, slot) /\ slot \in SlotTypes /\ run \in Slots
    BY DEF IInv, Sound, Here, Home
  <1>2. CASE Restart
    <2>1. PICK s \in Bootables : Start(s, FALSE)
      BY <1>2 DEF Restart
    <2>2. s \in Slots /\ Boots(slot[s]) /\ Whole(slot[s])
      BY <1>1 DEF Bootables, Bootable, Boots, Home
    <2> QED
      BY <2>1, <2>2, StartHolds
  <1>3. CASE RebootIntoUpdate
    <2>1. /\ up.target \in Slots /\ Whole(slot[up.target]) /\ slot[up.target].cells[1] # 0
          /\ slot[up.target].trial
      BY <1>1, <1>3 DEF RebootIntoUpdate, Transfer, Whole
    <2>2. Start(up.target, TRUE)
      BY <1>1, <1>3, <2>1 DEF RebootIntoUpdate, SlotTypes
    <2> QED
      BY <2>1, <2>2, StartHolds
  <1>4. CASE Commit
    <2> DEFINE Bought(s) == [slot[s] EXCEPT !.trial = FALSE]
               Erased(s) == [slot[s] EXCEPT !.cells[1] = 0]
    <2>1. /\ run' = run /\ pending' = FALSE /\ UNCHANGED <<up, http, pull, latest>>
          /\ slot' = [s \in Slots |-> IF s = run THEN Bought(s)
                                      ELSE IF slot[s].cells[1] > Running THEN Erased(s)
                                      ELSE slot[s]]
      BY <1>4 DEF Commit, net_vars
    <2>2. ASSUME NEW s \in Slots
          PROVE  /\ Bought(s).cells = slot[s].cells /\ ~Bought(s).trial
                 /\ Erased(s).cells[1] = 0
                 /\ Bought(s) \in [cells : [1..Cells -> Versions \cup {0}], trial : BOOLEAN]
                 /\ Erased(s) \in [cells : [1..Cells -> Versions \cup {0}], trial : BOOLEAN]
      BY <1>1, FirstCell DEF SlotTypes
    <2> HIDE DEF Bought, Erased
    <2>3. slot' \in SlotTypes
      BY <1>1, <2>1, <2>2 DEF SlotTypes
    <2>4. Boots(slot'[run]) /\ Whole(slot'[run])
      BY <1>1, <2>1, <2>2 DEF Boots, Whole, Home
    <2>5. ASSUME NEW s \in Slots, s # run, Boots(slot'[s])
          PROVE  Whole(slot'[s])
      BY <1>1, <2>1, <2>2, <2>5 DEF Boots, Home
    <2>6. Home(slot)'
      BY <1>1, <2>1, <2>3, <2>4, <2>5 DEF Home
    <2>7. Transfer(up, slot)'
      BY <1>1, <1>4, <2>1 DEF Transfer, Commit
    <2> QED
      BY <2>1, <2>6, <2>7 DEF IInv, Sound, Here, Clients
  <1> QED
    BY <1>2, <1>3, <1>4 DEF BootNext

LEMMA StepHolds == SignedOnly /\ IInv /\ [Next]_vars => IInv'
  <1> SUFFICES ASSUME SignedOnly, IInv, [Next]_vars PROVE IInv'
    OBVIOUS
  <1>1. CASE UNCHANGED vars
    BY <1>1, SameSound DEF vars, boot_vars, net_vars, auto_vars
  <1> QED
    BY <1>1, StallsHold, HttpHolds, PullHolds, AutoHolds, BootHolds DEF Next

\* A bootable image of the highest version there is one.
LEMMA BootablesAre ==
    ASSUME IInv
    PROVE  FallsBackWhole
  <1>1. PICK x \in Slots : Bootable(x)
    BY DEF IInv, Sound, Here, Home, Boots, Bootable
  <1>2. \A s \in Slots : slot[s].cells[1] \in Nat
    BY FirstCell, UpdateAssumption DEF IInv, Sound, Here, Home, SlotTypes, Versions
  <1>3. \A s \in Bootables : Whole(slot[s])
    BY DEF IInv, Sound, Here, Home, Boots, Bootable, Bootables
  <1>4. Bootables # {}
    <2>1. CASE \A t \in Slots : Bootable(t) => slot[t].cells[1] <= slot[x].cells[1]
      BY <1>1, <2>1 DEF Bootables
    <2>2. CASE ~\A t \in Slots : Bootable(t) => slot[t].cells[1] <= slot[x].cells[1]
      <3>1. PICK y \in Slots : Bootable(y) /\ ~(slot[y].cells[1] <= slot[x].cells[1])
        BY <2>2
      <3>2. \A t \in Slots : t = x \/ t = y
        BY <1>1, <3>1, <1>2 DEF Slots
      <3>3. slot[x].cells[1] <= slot[y].cells[1] /\ slot[y].cells[1] <= slot[y].cells[1]
        <4>1. slot[x].cells[1] \in Nat /\ slot[y].cells[1] \in Nat
          BY <1>1, <1>2, <3>1
        <4> QED
          BY <3>1, <4>1
      <3>4. \A t \in Slots : Bootable(t) => slot[t].cells[1] <= slot[y].cells[1]
        BY <3>2, <3>3
      <3> QED
        BY <3>1, <3>4 DEF Bootables
    <2> QED
      BY <2>1, <2>2
  <1> QED
    BY <1>3, <1>4 DEF FallsBackWhole

\* Unless the console waives a signature: whenever the power goes (update.c,
\* flash_map.c) the bootrom finds an image to start, and any that it may choose
\* is whole; whatever versions and clients there are.
THEOREM FallbackStands == ASSUME SignedOnly PROVE Spec => []FallsBackWhole
  <1> QED
    BY InitSound, StepHolds, BootablesAre, PTL DEF Spec

\* Unless the console waives a signature: the image that runs, and the one that
\* a restart is scheduled into (update_finish()), is one that was sent whole.
THEOREM ImagesAreWhole == ASSUME SignedOnly PROVE Spec => []RunsWhole
  <1>1. IInv => RunsWhole
    BY DEF IInv, Sound, Here, Home, Transfer, RunsWhole
  <1> QED
    BY InitSound, StepHolds, <1>1, PTL DEF Spec

------------------------------------------------------------------------------
(* A version that was rolled back *)

\* The note of the image that is about to be installed is written, unless flash
\* has no mark to lose: it is that of the running image only until settle()'s
\* outcome is saved.
NoteTakes ==
    noted' /\ ~noted => auto'.flash = auto'.ram \/ auto.flash.tried # Running \/ undone.last = 0

Marked(a) == a.tried = undone.last \/ a.skip = undone.last

\* No image that the bootrom would choose is of the version that was rolled back.
NeverBack == undone.last # 0 => \A s \in Bootables : slot[s].cells[1] # undone.last

\* While there is such a version, both copies of the settings tell: as the one
\* that is skipped, or as the one that was tried.
Remembered ==
    undone.last # 0 =>
        /\ Marked(auto.flash) /\ Marked(auto.ram) /\ (~pending => auto.ram.skip = undone.last)
        /\ ~noted => auto.flash.tried \in {0, Running, undone.last}
        /\ noted => auto.flash.tried \in {0, up.ver, undone.last}
        /\ pending => auto.ram = auto.flash

Noting ==
    /\ auto \in [ram : SkipMarks, flash : SkipMarks]
    /\ ~pending => run \in Bootables
    /\ noted => up.reboot /\ auto.ram.tried = up.ver
    /\ ~noted /\ ~pending => auto.ram.tried = 0
    /\ up.reboot => slot[up.target].cells[1] = up.ver

RInv == NeverBack /\ Remembered /\ Noting

\* What a result d of the transport core leaves as it was: the image that runs
\* and those that the bootrom may choose, and what a restart is scheduled into.
Spared(d) ==
    /\ d.slot[run] = slot[run]
    /\ \A x \in Slots : Boots(d.slot[x]) => Boots(slot[x]) /\ d.slot[x].cells[1] = slot[x].cells[1]
    /\ pending => d.slot = slot
    /\ up.reboot => d.slot = slot /\ d.up.reboot /\ d.up.ver = up.ver /\ d.up.target = up.target
    /\ d.up.reboot => d.slot[d.up.target].cells[1] = d.up.ver

LEMMA SparedHere == ASSUME IInv, RInv PROVE Spared(Here)
  BY DEF RInv, Noting, Spared, Here

LEMMA SparedSame ==
    ASSUME NEW d, Spared(d), NEW e, e.slot = d.slot, e.up.reboot = d.up.reboot, e.up.ver = d.up.ver,
           e.up.target = d.up.target
    PROVE  Spared(e)
  BY DEF Spared

\* A transfer that goes on touches only its slot, which cannot be chosen.
LEMMA SparedBeside ==
    ASSUME IInv, NEW d, Sound(d), Spared(d), d.up.active, NEW e,
           \A x \in Slots : x # d.up.target => e.slot[x] = d.slot[x],
           ~Boots(e.slot[d.up.target]),
           e.up.reboot => e.slot[e.up.target].cells[1] = e.up.ver
    PROVE  Spared(e)
  <1>1. ~pending /\ d.up.target # run /\ ~d.up.reboot /\ run \in Slots
    BY DEF Sound, Transfer, Home
  <1>2. ~up.reboot
    BY <1>1 DEF Spared
  <1> QED
    BY <1>1, <1>2 DEF Spared

LEMMA AbortKeeps == ASSUME NEW d, Sound(d), Spared(d) PROVE Spared(update_abort(d))
  <1>1. /\ update_abort(d).slot = d.slot
        /\ update_abort(d).up = [d.up EXCEPT !.active = FALSE]
    BY AbortIs DEF Sound
  <1>2. ASSUME NEW u, u = [d.up EXCEPT !.active = FALSE]
        PROVE  u.reboot = d.up.reboot /\ u.ver = d.up.ver /\ u.target = d.up.target
    BY <1>2 DEF Sound, Transfer, UpFields
  <1> QED
    BY <1>1, <1>2, SparedSame

LEMMA BeginKeeps ==
    ASSUME IInv, RInv, NEW allow, NEW f \in Outcomes
    PROVE  Spared(update_begin(allow, f))
  <1>1. CASE Refuses
    <2>1. LET e == update_begin(allow, f) IN e.slot = slot /\ e.up = up
      BY <1>1 DEF update_begin, Here
    <2> QED
      BY <2>1, SparedHere, SparedSame DEF Here
  <1>2. CASE ~Refuses
    <2> DEFINE u == [NoTransfer EXCEPT !.active = f # "fails", !.allow = allow, !.target = Target]
               z == IF f = "fails" THEN slot ELSE [slot EXCEPT ![Target].cells[1] = 0]
    <2>1. LET e == update_begin(allow, f) IN e.slot = z /\ e.up = u
      BY <1>2 DEF update_begin
    <2>2. ~pending /\ ~up.reboot /\ run \in Slots /\ slot \in SlotTypes
      BY <1>2 DEF Refuses, IInv, Sound, Here, Home
    <2>3. ~u.reboot
      BY DEF NoTransfer
    <2>4. CASE f = "fails"
      BY <2>1, <2>2, <2>3, <2>4 DEF Spared
    <2>5. CASE f # "fails"
      <3>1. /\ z \in SlotTypes /\ \A x \in Slots : x # Target => z[x] = slot[x]
            /\ z[Target].cells[1] = 0
        BY <2>2, <2>5, CellSet, FirstCell, TargetOther
      <3> HIDE DEF z, u
      <3> QED
        BY <2>1, <2>2, <2>3, <3>1, TargetOther DEF Spared, Boots
    <2> QED
      BY <2>4, <2>5
  <1> QED
    BY <1>1, <1>2

LEMMA SectorIs ==
    ASSUME NEW d, Sound(d), NEW i, NEW v, NEW f
    PROVE  LET e == flash_sector(d, i, v, f)
           IN  \A x \in Slots : x # d.up.target => e.slot[x] = d.slot[x]
  BY AbortIs DEF flash_sector, Sound, Home, SlotTypes

LEMMA SectorKeeps ==
    ASSUME IInv, NEW d, Sound(d), Spared(d), d.up.active, NEW i \in 2..Cells, NEW v \in Versions,
           NEW f \in Outcomes
    PROVE  Spared(flash_sector(d, i, v, f))
  <1> DEFINE e == flash_sector(d, i, v, f)
  <1>1. CASE f = "fails"
    BY <1>1, AbortKeeps DEF flash_sector
  <1>2. CASE f # "fails"
    <2>1. Sound(e)
      BY SectorSound
    <2>2. e.up = d.up
      BY <1>2 DEF flash_sector, Sound
    <2>3. \A x \in Slots : x # d.up.target => e.slot[x] = d.slot[x]
      BY SectorIs
    <2> HIDE DEF e
    <2>4. ~Boots(e.slot[d.up.target]) /\ ~e.up.reboot
      BY <2>1, <2>2 DEF Sound, Transfer, Boots
    <2>5. Spared(e)
      BY <2>3, <2>4, SparedBeside
    <2> QED
      BY <2>5 DEF e
  <1> QED
    BY <1>1, <1>2

LEMMA PutKeeps ==
    ASSUME IInv, NEW d, Sound(d), Spared(d), d.up.active, NEW v \in Versions, NEW f \in Outcomes
    PROVE  Spared(put_bytes(d, v, f))
  <1> DEFINE cell == Len(d.up.placed) + 1
             e == IF cell = 1 THEN d ELSE flash_sector(d, cell, v, f)
             r == [e EXCEPT !.up.placed = Append(@, v), !.up.stale = FALSE]
  <1>1. put_bytes(d, v, f) = IF cell > Cells THEN update_abort(d) ELSE IF ~e.ok THEN e ELSE r
    BY DEF put_bytes
  <1>2. cell \in Nat /\ cell >= 1
    BY DEF Sound, Transfer
  <1>3. CASE cell > Cells
    BY <1>1, <1>3, AbortKeeps
  <1>4. CASE ~(cell > Cells)
    <2>1. Sound(e) /\ Spared(e)
      <3>1. CASE cell = 1
        BY <3>1
      <3>2. CASE cell # 1
        <4>1. cell \in 2..Cells
          BY <1>2, <1>4, <3>2, FirstCell
        <4> QED
          BY <3>2, <4>1, SectorSound, SectorKeeps
      <3> QED
        BY <3>1, <3>2
    <2> HIDE DEF e
    <2>2. /\ r.slot = e.slot /\ r.up.reboot = e.up.reboot /\ r.up.ver = e.up.ver
          /\ r.up.target = e.up.target
      BY <2>1 DEF Sound, Transfer, UpFields
    <2> HIDE DEF r
    <2>3. Spared(r)
      BY <2>1, <2>2, SparedSame
    <2> QED
      BY <1>1, <1>4, <2>1, <2>3
  <1> QED
    BY <1>3, <1>4

LEMMA WriteKeeps ==
    ASSUME IInv, RInv, NEW v \in Versions, NEW i, NEW f \in Outcomes
    PROVE  Spared(update_write(v, i, f))
  <1> DEFINE fmt == IF up.fmt # "unknown" THEN up.fmt ELSE IF v \in Signed THEN "bin" ELSE "uf2"
             u == [up EXCEPT !.fmt = fmt]
             d == [Here EXCEPT !.up.fmt = fmt]
             n == [Here EXCEPT !.ok = FALSE]
  <1>1. update_write(v, i, f) \in {n, update_abort(d), put_bytes(d, v, f)}
        /\ (update_write(v, i, f) # n => up.active)
    BY DEF update_write
  <1>2. Sound(Here) /\ Spared(Here)
    BY SparedHere DEF IInv
  <1>3. Transfer(u, slot) /\ u.active = up.active
    BY <1>2, FieldSound, ZenonT(40) DEF Sound, Here
  <1>4. d = [Here EXCEPT !.up = u] /\ d.up = u /\ d.slot = slot
    BY DEF Here
  <1>5. u.reboot = up.reboot /\ u.ver = up.ver /\ u.target = up.target
    BY <1>2 DEF Sound, Here, Transfer, UpFields
  <1>6. n.slot = slot /\ n.up = up /\ Here.slot = slot /\ Here.up = up
    BY DEF Here
  <1> HIDE DEF u, d, n
  <1>7. Sound(d) /\ Spared(d) /\ Spared(n) /\ (up.active => d.up.active)
    BY <1>2, <1>3, <1>4, <1>5, <1>6, UpSet, SparedSame
  <1> QED
    BY <1>1, <1>7, AbortKeeps, PutKeeps

LEMMA FinishKeeps ==
    ASSUME IInv, NEW d, Sound(d), Spared(d), NEW f \in Outcomes
    PROVE  LET e == update_finish(d, f)
           IN  Spared(e) /\ (e.ok => Spared(update_schedule_reboot(e)))
  <1> DEFINE u == d.up
             t == u.target
             c == IF f = "bad" THEN 0 ELSE u.placed[1]
             y == [d EXCEPT !.slot[t].trial = TRUE]
             e == flash_sector(y, 1, u.placed[1], f)
             same == \A i \in DOMAIN u.placed : e.slot[t].cells[i] = u.placed[i]
             r == [e EXCEPT !.ok = TRUE, !.up.active = FALSE, !.up.ver = u.placed[1]]
  <1>1. CASE ~u.active
    <2> DEFINE n == [d EXCEPT !.ok = FALSE]
    <2>1. update_finish(d, f) = n /\ ~n.ok /\ n.slot = d.slot /\ n.up = d.up
      BY <1>1 DEF update_finish, Sound
    <2> HIDE DEF n
    <2> QED
      BY <2>1, SparedSame
  <1>2. CASE u.active /\ (u.placed = <<>> \/ Unfit(u) \/ f = "fails")
    <2>1. update_finish(d, f) = update_abort(d) /\ ~update_abort(d).ok
      BY <1>2, AbortIs DEF update_finish, Sound
    <2> QED
      BY <2>1, AbortKeeps
  <1>3. CASE u.active /\ ~(u.placed = <<>> \/ Unfit(u)) /\ f # "fails"
    <2>1. update_finish(d, f) = IF ~same THEN update_abort(e) ELSE r
      BY <1>3 DEF update_finish
    <2>2. /\ Home(d.slot) /\ Transfer(u, d.slot) /\ t \in Slots /\ ~u.reboot /\ d.slot \in SlotTypes
      BY <1>3 DEF Sound, Transfer, Home
    <2>3. 1 \in DOMAIN u.placed
      BY <1>3, <2>2 DEF Transfer
    <2> DEFINE w == [d.slot EXCEPT ![t].trial = TRUE]
               z == [w EXCEPT ![t].cells[1] = c]
    <2>4. e = [d EXCEPT !.slot = z]
      <3>1. y = [d EXCEPT !.slot = w] /\ y.slot = w /\ y.up = u
        BY DEF Sound
      <3>2. e = [y EXCEPT !.slot[y.up.target].cells[1] = c]
        BY <1>3 DEF flash_sector
      <3> HIDE DEF w, c, y
      <3> QED
        BY <3>1, <3>2 DEF Sound
    <2>5. (\A x \in Slots : x # t => z[x] = d.slot[x]) /\ z[t].trial
      <3>1. w \in SlotTypes /\ (\A x \in Slots : x # t => w[x] = d.slot[x]) /\ w[t].trial
        BY <2>2, TrialSet
      <3> HIDE DEF w, c, t
      <3> QED
        BY <2>2, <3>1 DEF SlotTypes
    <2>6. e.slot = z /\ e.up = u /\ e = [x \in {"ok", "up", "slot"} |-> e[x]]
      BY <2>4 DEF Sound
    <2> HIDE DEF z, e
    <2>7. CASE ~same
      <3> DEFINE a == update_abort(e)
      <3>1. a.slot = z /\ a.up = [u EXCEPT !.active = FALSE] /\ ~a.ok
        BY <2>6, AbortIs
      <3>2. ~a.up.reboot
        BY <2>2, <3>1 DEF Transfer, UpFields
      <3> HIDE DEF a
      <3>3. Spared(a)
        <4>1. d.up.active /\ ~Boots(a.slot[d.up.target])
          BY <1>3, <2>5, <3>1 DEF Boots
        <4>2. \A x \in Slots : x # d.up.target => a.slot[x] = d.slot[x]
          BY <2>5, <3>1
        <4> QED
          BY <3>2, <4>1, <4>2, SparedBeside
      <3> QED
        BY <2>1, <2>7, <3>1, <3>3 DEF a
    <2>8. CASE same
      <3> DEFINE b == [[u EXCEPT !.active = FALSE] EXCEPT !.ver = u.placed[1]]
                 q == update_schedule_reboot(r)
      <3>1. z[t].cells[1] = u.placed[1]
        BY <2>3, <2>6, <2>8
      <3>2. /\ ~b.reboot /\ b.ver = u.placed[1] /\ b.target = t
            /\ b = [x \in UpFields |-> b[x]]
        BY <2>2 DEF Transfer, UpFields
      <3>3. r = [x \in {"ok", "up", "slot"} |-> r[x]] /\ r.slot = z /\ r.up = b
        BY <2>6
      <3>4. q.slot = z /\ q.up = [b EXCEPT !.reboot = TRUE]
        <4> HIDE DEF r, b
        <4> QED
          BY <3>3 DEF update_schedule_reboot
      <3>5. q.up.ver = u.placed[1] /\ q.up.target = t
        <4> HIDE DEF b, q
        <4> QED
          BY <3>2, <3>4 DEF UpFields
      <3> HIDE DEF r, b, q
      <3>6. ASSUME NEW n, n.slot = z, n.up.reboot => n.slot[n.up.target].cells[1] = n.up.ver
            PROVE  Spared(n)
        <4>1. d.up.active /\ ~Boots(n.slot[d.up.target])
          BY <1>3, <2>5, <3>6 DEF Boots
        <4>2. \A x \in Slots : x # d.up.target => n.slot[x] = d.slot[x]
          BY <2>5, <3>6
        <4> QED
          BY <3>6, <4>1, <4>2, SparedBeside
      <3>7. Spared(r) /\ Spared(q)
        <4>1. ~r.up.reboot
          BY <3>2, <3>3
        <4>2. q.slot[q.up.target].cells[1] = q.up.ver
          BY <3>1, <3>4, <3>5
        <4> QED
          BY <3>3, <3>4, <3>6, <4>1, <4>2
      <3> QED
        BY <2>1, <2>8, <3>7 DEF q
    <2> QED
      BY <2>7, <2>8
  <1> QED
    BY <1>1, <1>2, <1>3


\* What a step of the transport core is.
Transports ==
    /\ \E d : Sound(d) /\ Spared(d) /\ up' = d.up /\ slot' = d.slot
    /\ UNCHANGED <<run, pending, auto, noted, undone, trying>>

LEMMA Transported ==
    ASSUME NEW d, NEW f, Sound(d), Spared(d), Becomes(d, f),
           UNCHANGED <<boot_vars, auto_vars, undone>>
    PROVE  Transports
  BY DEF Becomes, boot_vars, auto_vars, Transports

LEMMA RestTransports ==
    ASSUME IInv, RInv, UNCHANGED <<slot, boot_vars, up, auto_vars, undone>>
    PROVE  Transports
  <1>1. Sound(Here) /\ Spared(Here) /\ up' = Here.up /\ slot' = Here.slot
    BY SparedHere DEF IInv, Here
  <1> QED
    BY <1>1 DEF Transports, boot_vars, auto_vars

LEMMA StallTransports == ASSUME IInv, RInv, Stalls PROVE Transports
  <1> DEFINE u == [up EXCEPT !.stale = TRUE]
             d == [Here EXCEPT !.up = u]
  <1>1. Sound(Here) /\ Spared(Here) /\ Transfer(u, slot) /\ Here.slot = slot /\ Here.up = up
    BY SparedHere, FieldSound DEF IInv, Sound, Here
  <1>2. Sound(d) /\ d.slot = slot /\ d.up = u
    BY <1>1, UpSet DEF Here
  <1>3. u.reboot = up.reboot /\ u.ver = up.ver /\ u.target = up.target
    BY <1>1 DEF Sound, Transfer, UpFields
  <1>4. Spared(d)
    <2> HIDE DEF u, d
    <2> QED
      BY <1>1, <1>2, <1>3, SparedSame
  <1>5. up' = d.up /\ slot' = d.slot /\ UNCHANGED <<boot_vars, auto_vars, undone>>
    BY <1>2 DEF Stalls
  <1> HIDE DEF d
  <1> QED
    BY <1>2, <1>4, <1>5 DEF Transports, boot_vars, auto_vars

LEMMA HttpTransports == ASSUME IInv, RInv, HttpNext PROVE Transports
  <1>1. PICK c \in Conns : HttpStart(c) \/ HttpFeed(c) \/ HttpDrop(c)
    BY DEF HttpNext
  <1>2. CASE HttpStart(c)
    <2>1. PICK v \in Pushed, f \in FlashOutcomes : Becomes(update_begin({}, f), f)
      BY <1>2 DEF HttpStart
    <2>2. UNCHANGED <<boot_vars, auto_vars, undone>>
      BY <1>2 DEF HttpStart
    <2>3. Sound(update_begin({}, f)) /\ Spared(update_begin({}, f))
      BY BeginSound, BeginKeeps, OutcomesAre
    <2> QED
      BY <2>1, <2>2, <2>3, Transported
  <1>3. CASE HttpFeed(c)
    <2> DEFINE cell == http[c].at + 1
               D(f) == update_write(http[c].img, cell, f)
               E(f, g) == update_finish(D(f), g)
               last(f) == D(f).ok /\ cell = Cells
               R(f, g) == IF last(f) /\ E(f, g).ok THEN update_schedule_reboot(E(f, g))
                          ELSE IF last(f) THEN update_abort(E(f, g))
                          ELSE IF D(f).ok THEN D(f) ELSE update_abort(D(f))
    <2>1. PICK f \in FlashOutcomes, g \in FlashOutcomes :
             Becomes(R(f, g), IF f = "good" THEN g ELSE f)
      BY <1>3 DEF HttpFeed
    <2>2. http[c].img \in Versions
      BY DEF IInv, Clients
    <2>3. Sound(R(f, g)) /\ Spared(R(f, g))
      <3>1. Sound(D(f)) /\ Spared(D(f))
        BY <2>2, OutcomesAre, WriteSound, WriteKeeps
      <3> HIDE DEF D
      <3>2. /\ Sound(E(f, g)) /\ (E(f, g).ok => Sound(update_schedule_reboot(E(f, g))))
            /\ Spared(E(f, g)) /\ (E(f, g).ok => Spared(update_schedule_reboot(E(f, g))))
        BY <3>1, OutcomesAre, FinishSound, FinishKeeps
      <3> HIDE DEF E, last
      <3> QED
        BY <3>1, <3>2, AbortSound, AbortKeeps
    <2>4. UNCHANGED <<boot_vars, auto_vars, undone>>
      BY <1>3 DEF HttpFeed
    <2> HIDE DEF R
    <2> QED
      BY <2>1, <2>3, <2>4, Transported
  <1>4. CASE HttpDrop(c)
    <2>1. Becomes(update_abort(Here), "good") /\ UNCHANGED <<boot_vars, auto_vars, undone>>
      BY <1>4 DEF HttpDrop
    <2>2. Sound(update_abort(Here)) /\ Spared(update_abort(Here))
      BY AbortSound, AbortKeeps, SparedHere DEF IInv
    <2> QED
      BY <2>1, <2>2, Transported
  <1> QED
    BY <1>1, <1>2, <1>3, <1>4

LEMMA PullTransports == ASSUME IInv, RInv, PullNext PROVE Transports
  <1>1. Sound(Here) /\ Spared(Here) /\ UNCHANGED <<boot_vars, auto_vars, undone>>
    <2>1. UNCHANGED <<boot_vars, auto_vars, undone>>
      BY Zenon DEF PullNext, PullStart, PullMarks, PullHeaders, PullBody, PullDone, PullFails
    <2> QED
      BY <2>1, SparedHere DEF IInv
  <1>2. CASE PullStart \/ PullMarks
    BY <1>1, <1>2, RestTransports DEF PullStart, PullMarks
  <1>3. CASE PullHeaders
    <2> DEFINE D(f) == update_begin(pull.allow, f)
    <2>1. PICK f \in FlashOutcomes : Becomes(IF D(f).ok THEN D(f) ELSE update_abort(D(f)), f)
      BY <1>3 DEF PullHeaders
    <2>2. Sound(D(f)) /\ Spared(D(f))
      BY OutcomesAre, BeginSound, BeginKeeps DEF Clients, IInv
    <2> HIDE DEF D
    <2> QED
      BY <1>1, <2>1, <2>2, AbortSound, AbortKeeps, Transported
  <1>4. CASE PullBody
    <2> DEFINE D(f) == IF pull.failed THEN Here ELSE update_write(pull.img, pull.at + 1, f)
    <2>1. PICK f \in FlashOutcomes : Becomes(D(f), f)
      BY <1>4 DEF PullBody
    <2>2. Sound(D(f)) /\ Spared(D(f))
      BY <1>1, OutcomesAre, WriteSound, WriteKeeps DEF Clients, IInv
    <2> HIDE DEF D
    <2> QED
      BY <1>1, <2>1, <2>2, Transported
  <1>5. CASE PullDone
    <2> DEFINE E(f) == update_finish(Here, f)
    <2>1. PICK f \in FlashOutcomes :
             Becomes(IF E(f).ok THEN update_schedule_reboot(E(f)) ELSE E(f), f)
      BY <1>5 DEF PullDone
    <2>2. /\ Sound(E(f)) /\ (E(f).ok => Sound(update_schedule_reboot(E(f))))
          /\ Spared(E(f)) /\ (E(f).ok => Spared(update_schedule_reboot(E(f))))
      BY <1>1, OutcomesAre, FinishSound, FinishKeeps
    <2> HIDE DEF E
    <2> QED
      BY <1>1, <2>1, <2>2, Transported
  <1>6. CASE PullFails
    <2>1. Becomes(IF pull.failed THEN Here ELSE update_abort(Here), "good")
      BY <1>6 DEF PullFails
    <2>2. Sound(update_abort(Here)) /\ Spared(update_abort(Here))
      BY <1>1, AbortSound, AbortKeeps
    <2> QED
      BY <1>1, <2>1, <2>2, Transported
  <1> QED
    BY <1>2, <1>3, <1>4, <1>5, <1>6 DEF PullNext


\* The first cell of a slot is a number, and images that the bootrom may
\* choose are of one version.
LEMMA CellsCount ==
    ASSUME IInv
    PROVE  /\ \A s \in Slots : slot[s].cells[1] \in Nat /\ slot[s].cells[1] \in Versions \cup {0}
           /\ run \in Slots /\ Running \in Nat
           /\ Versions \subseteq Nat /\ 0 \notin Versions
  <1>1. slot \in SlotTypes /\ run \in Slots
    BY DEF IInv, Sound, Here, Home
  <1>2. Versions \subseteq Nat /\ 0 \notin Versions
    BY UpdateAssumption DEF Versions
  <1>3. \A s \in Slots : slot[s].cells[1] \in Versions \cup {0}
    BY <1>1, FirstCell DEF SlotTypes
  <1>4. \A s \in Slots : slot[s].cells[1] \in Nat
    <2>1. \A v \in Versions \cup {0} : v \in Nat
      BY <1>2
    <2> QED
      BY <1>3, <2>1
  <1>5. Running \in Nat
    BY <1>1, <1>4 DEF Running
  <1> QED
    BY <1>1, <1>2, <1>3, <1>4, <1>5

LEMMA BootablesAgree ==
    ASSUME IInv, NEW s \in Bootables, NEW t \in Bootables
    PROVE  slot[s].cells[1] = slot[t].cells[1]
  <1>1. /\ s \in Slots /\ t \in Slots
        /\ slot[s].cells[1] <= slot[t].cells[1] /\ slot[t].cells[1] <= slot[s].cells[1]
    BY DEF Bootables
  <1> QED
    BY <1>1, CellsCount

\* A transfer changes nothing of what the bootrom would choose.
LEMMA TransportKeeps == ASSUME IInv, RInv, IInv', Transports PROVE RInv'
  <1>1. PICK d : Sound(d) /\ Spared(d) /\ up' = d.up /\ slot' = d.slot
    BY DEF Transports
  <1>2. UNCHANGED <<run, pending, auto, noted, undone>>
    BY DEF Transports
  <1>3. Running' = Running /\ run \in Slots
    BY <1>1, <1>2, CellsCount DEF Running, Spared
  <1>4. \A x \in Slots : Bootable(x)' => Bootable(x) /\ slot'[x].cells[1] = slot[x].cells[1]
    BY <1>1 DEF Spared, Boots, Bootable
  <1>5. ~pending => run \in Bootables' /\ \A s \in Bootables' : s \in Bootables
    <2> SUFFICES ASSUME ~pending PROVE run \in Bootables' /\ \A s \in Bootables' : s \in Bootables
      OBVIOUS
    <2>1. run \in Bootables /\ slot'[run] = slot[run]
      BY <1>1 DEF RInv, Noting, Spared
    <2>2. Bootable(run) /\ \A t \in Slots : Bootable(t) => slot[t].cells[1] <= slot[run].cells[1]
      BY <2>1 DEF Bootables
    <2>3. Bootable(run)' /\ run' = run
      BY <1>2, <2>1, <2>2 DEF Bootable
    <2>4. run \in Bootables'
      BY <1>3, <1>4, <2>1, <2>2, <2>3 DEF Bootables
    <2>5. ASSUME NEW s \in Bootables' PROVE s \in Bootables
      <3>1. s \in Slots /\ Bootable(s) /\ slot[s].cells[1] = slot'[s].cells[1]
        BY <1>4, <2>5 DEF Bootables
      <3>2. slot[run].cells[1] <= slot[s].cells[1]
        BY <1>3, <2>1, <2>3, <2>5, <3>1 DEF Bootables
      <3>3. \A t \in Slots : Bootable(t) => slot[t].cells[1] <= slot[s].cells[1]
        BY <1>3, <2>2, <3>1, <3>2, CellsCount
      <3> QED
        BY <3>1, <3>3 DEF Bootables
    <2> QED
      BY <2>4, <2>5
  <1>6. \A s \in Bootables' : s \in Bootables /\ slot'[s].cells[1] = slot[s].cells[1]
    <2>1. pending => slot' = slot
      BY <1>1 DEF Spared
    <2>2. pending => \A s \in Bootables' : s \in Bootables
      BY <2>1 DEF Bootables, Bootable
    <2> QED
      BY <1>4, <1>5, <2>2 DEF Bootables
  <1>7. NeverBack'
    BY <1>2, <1>6 DEF RInv, NeverBack
  <1>8. up.reboot => up'.reboot /\ up'.ver = up.ver
    BY <1>1 DEF Spared
  <1>9. up'.reboot => slot'[up'.target].cells[1] = up'.ver
    BY <1>1 DEF Spared
  <1>10. Noting'
    BY <1>2, <1>5, <1>8, <1>9 DEF RInv, Noting
  <1>11. Remembered'
    BY <1>2, <1>3, <1>8 DEF RInv, Noting, Remembered, Marked
  <1> QED
    BY <1>7, <1>10, <1>11 DEF RInv

LEMMA MarksAre ==
    ASSUME NEW m \in SkipMarks, NEW v \in Versions \cup {0}
    PROVE  /\ [m EXCEPT !.tried = v] \in SkipMarks /\ [m EXCEPT !.tried = v].tried = v
           /\ [m EXCEPT !.tried = v].skip = m.skip
           /\ [m EXCEPT !.skip = v] \in SkipMarks /\ [m EXCEPT !.skip = v].skip = v
           /\ [m EXCEPT !.skip = v].tried = m.tried
  BY DEF SkipMarks

LEMMA AutoKeeps == ASSUME IInv, RInv, AutoNext, NoteTakes PROVE RInv'
  <1>1. UNCHANGED <<slot, run, pending, up>>
    BY DEF AutoNext, Offer, AutoNotes, AutoPoll, UserSkips, SettingsSaved, boot_vars, net_vars
  <1>2. /\ Running' = Running /\ Bootables' = Bootables /\ auto \in [ram : SkipMarks, flash : SkipMarks]
        /\ up.reboot => ~pending /\ up.ver \in Versions \cup {0}
    BY <1>1, CellsCount DEF Running, Bootables, Bootable, RInv, Noting, IInv, Sound, Here, Transfer
  <1>3. CASE UNCHANGED <<auto, noted, undone>>
    <2>1. NeverBack' /\ Noting'
      BY <1>1, <1>2, <1>3 DEF RInv, NeverBack, Noting
    <2>2. Remembered'
      BY <1>1, <1>2, <1>3 DEF RInv, Remembered, Marked
    <2> QED
      BY <2>1, <2>2 DEF RInv
  <1>4. CASE AutoNotes
    <2> DEFINE ram == [auto.ram EXCEPT !.tried = up.ver]
    <2>1. /\ up.reboot /\ ~noted /\ noted' = TRUE /\ undone'.last = undone.last /\ ~pending
          /\ auto'.ram = ram /\ (auto'.flash = ram \/ auto'.flash = auto.flash)
          /\ auto' = [ram |-> auto'.ram, flash |-> auto'.flash]
      BY <1>2, <1>4 DEF AutoNotes
    <2>2. ram \in SkipMarks /\ ram.tried = up.ver /\ ram.skip = auto.ram.skip
      <3>1. auto.ram \in SkipMarks /\ up.ver \in Versions \cup {0}
        BY <1>2, <2>1
      <3> QED
        BY <3>1, MarksAre
    <2> HIDE DEF ram
    <2>3. Noting'
      <3>1. auto'.ram \in SkipMarks /\ auto'.flash \in SkipMarks
        BY <1>2, <2>1, <2>2
      <3>2. auto' \in [ram : SkipMarks, flash : SkipMarks]
        BY <2>1, <3>1
      <3> QED
        BY <1>1, <1>2, <2>1, <2>2, <3>2 DEF RInv, Noting
    <2>4. NeverBack'
      BY <1>1, <1>2, <2>1 DEF RInv, NeverBack
    <2>5. Remembered'
      <3> SUFFICES ASSUME undone.last # 0
                   PROVE  /\ Marked(auto'.flash) /\ Marked(ram) /\ ram.skip = undone.last
                          /\ auto'.flash.tried \in {0, up.ver, undone.last}
        BY <1>1, <1>2, <2>1 DEF Remembered, Marked
      <3>1. /\ Marked(auto.flash) /\ auto.ram.skip = undone.last
            /\ auto.flash.tried \in {0, Running, undone.last}
        BY <2>1 DEF RInv, Remembered
      <3>2. Marked(ram) /\ ram.skip = undone.last
        BY <2>2, <3>1 DEF Marked
      <3>3. CASE auto'.flash = ram
        BY <2>2, <3>2, <3>3
      <3>4. CASE auto'.flash = auto.flash /\ auto'.flash # ram
        <4>1. auto.flash.tried # Running
          BY <2>1, <3>4 DEF NoteTakes
        <4> QED
          BY <3>1, <3>2, <3>4, <4>1
      <3> QED
        BY <2>1, <3>3, <3>4
    <2> QED
      BY <2>3, <2>4, <2>5 DEF RInv
  <1>5. CASE UserSkips
    <2>1. auto' = [auto EXCEPT !.ram.skip = latest] /\ undone'.last = 0 /\ noted' = noted
      BY <1>5 DEF UserSkips, NoneUndone
    <2>2. /\ auto' \in [ram : SkipMarks, flash : SkipMarks]
          /\ auto'.ram.tried = auto.ram.tried
      <3>1. latest \in Versions \cup {0}
        BY DEF IInv, Clients
      <3>2. auto' = [ram |-> [auto.ram EXCEPT !.skip = latest], flash |-> auto.flash]
        BY <1>2, <2>1
      <3> QED
        BY <1>2, <3>1, <3>2, MarksAre
    <2> QED
      BY <1>1, <1>2, <2>1, <2>2 DEF RInv, NeverBack, Noting, Remembered
  <1>6. CASE SettingsSaved
    <2>1. ~pending /\ auto' = [ram |-> auto.ram, flash |-> auto.ram] /\ noted' = noted /\ undone'.last = undone.last
      BY <1>2, <1>6 DEF SettingsSaved
    <2>2. Noting' /\ NeverBack'
      BY <1>1, <1>2, <2>1 DEF RInv, NeverBack, Noting
    <2>3. Remembered'
      BY <1>1, <1>2, <2>1 DEF RInv, Noting, Remembered, Marked
    <2> QED
      BY <2>2, <2>3 DEF RInv
  <1> QED
    BY <1>3, <1>4, <1>5, <1>6 DEF AutoNext, Offer, AutoPoll

LEMMA SettleIs ==
    ASSUME NEW m \in SkipMarks, NEW v
    PROVE  /\ settle(m, v) \in SkipMarks /\ settle(m, v).tried = 0
           /\ settle(m, v).skip = IF m.tried \in {0, v} THEN m.skip ELSE m.tried
  BY DEF settle, SkipMarks

LEMMA StartKeeps ==
    ASSUME IInv, RInv, NEW s \in Bootables, Start(s, FALSE)
    PROVE  RInv'
  <1> DEFINE v == slot[s].cells[1]
             f == auto.flash
  <1>1. /\ run' = s /\ pending' = FALSE /\ slot' = slot /\ up' = NoTransfer /\ noted' = FALSE
        /\ auto' = [auto EXCEPT !.ram = settle(f, v)]
        /\ undone'.last = IF f.tried \notin {0, v} THEN f.tried ELSE undone.last
    BY DEF Start
  <1>2. /\ auto' = [ram |-> settle(f, v), flash |-> f] /\ f \in SkipMarks
        /\ auto' \in [ram : SkipMarks, flash : SkipMarks]
    BY <1>1, SettleIs DEF RInv, Noting
  <1>3. Running' = v /\ Bootables' = Bootables
    BY <1>1 DEF Running, Bootables, Bootable
  <1>4. Noting'
    BY <1>1, <1>2, <1>3, SettleIs DEF Noting, NoTransfer
  <1>5. \A b \in Bootables : slot[b].cells[1] = v
    BY BootablesAgree
  <1>6. undone.last # 0 => v # undone.last /\ Marked(f)
    BY DEF RInv, NeverBack, Remembered
  <1> HIDE DEF v, f
  <1>7. NeverBack'
    BY <1>1, <1>3, <1>5, <1>6 DEF NeverBack
  <1>8. Remembered'
    <2> SUFFICES ASSUME undone'.last # 0
                 PROVE  /\ f.tried = undone'.last \/ f.skip = undone'.last
                        /\ settle(f, v).skip = undone'.last /\ f.tried \in {0, v, undone'.last}
      BY <1>1, <1>2, <1>3 DEF Remembered, Marked
    <2>1. CASE f.tried \notin {0, v}
      BY <1>1, <1>2, <2>1, SettleIs
    <2>2. CASE f.tried \in {0, v}
      BY <1>1, <1>2, <1>6, <2>2, SettleIs DEF Marked
    <2> QED
      BY <2>1, <2>2
  <1> QED
    BY <1>4, <1>7, <1>8 DEF RInv

LEMMA TrialKeeps ==
    ASSUME IInv, RInv, up.reboot, noted, Start(up.target, TRUE)
    PROVE  RInv'
  <1>1. /\ run' = up.target /\ pending' = TRUE /\ slot' = slot /\ up' = NoTransfer /\ noted' = FALSE
        /\ auto' = [auto EXCEPT !.ram = auto.flash] /\ undone'.last = undone.last
    BY DEF Start
  <1>2. auto' = [ram |-> auto.flash, flash |-> auto.flash] /\ auto.flash \in SkipMarks
    BY <1>1 DEF RInv, Noting
  <1>3. Running' = up.ver /\ Bootables' = Bootables
    BY <1>1 DEF Running, Bootables, Bootable, RInv, Noting
  <1>4. Noting'
    BY <1>1, <1>2 DEF Noting, NoTransfer
  <1>5. NeverBack' /\ Remembered'
    BY <1>1, <1>2, <1>3 DEF RInv, NeverBack, Remembered, Marked
  <1> QED
    BY <1>4, <1>5 DEF RInv

LEMMA CommitKeeps == ASSUME IInv, RInv, IInv', Commit PROVE RInv'
  <1>1. /\ pending /\ pending' = FALSE /\ UNCHANGED <<run, up, noted>>
        /\ slot' = [s \in Slots |->
             IF s = run THEN [slot[s] EXCEPT !.trial = FALSE]
             ELSE IF slot[s].cells[1] > Running THEN [slot[s] EXCEPT !.cells[1] = 0] ELSE slot[s]]
        /\ auto' = [auto EXCEPT !.ram = settle(auto.ram, Running)]
        /\ undone'.last = IF undone.last = Running THEN 0 ELSE undone.last
    <2>1. /\ pending /\ pending' = FALSE /\ UNCHANGED <<run, up, noted>>
          /\ slot' = [s \in Slots |->
               IF s = run THEN [slot[s] EXCEPT !.trial = FALSE]
               ELSE IF slot[s].cells[1] > Running THEN [slot[s] EXCEPT !.cells[1] = 0] ELSE slot[s]]
          /\ auto' = [auto EXCEPT !.ram = settle(auto.ram, Running)]
      BY Zenon DEF Commit
    <2>2. undone' = [last |-> IF undone.last = Running THEN 0 ELSE undone.last,
                     before |-> undone.before \ {Running}]
      BY Zenon DEF Commit
    <2>3. undone'.last = IF undone.last = Running THEN 0 ELSE undone.last
      BY <2>2
    <2> QED
      BY <2>1, <2>3
  <1>2. ~up.reboot /\ ~noted /\ run \in Slots /\ slot \in SlotTypes /\ Running \in Nat /\ Running # 0
    BY <1>1, CellsCount, FirstCell DEF RInv, Noting, IInv, Sound, Here, Home, Transfer, Whole, Running
  <1>3. /\ slot'[run].cells[1] = Running /\ slot'[run].trial = FALSE
        /\ \A s \in Slots : Bootable(s)' => slot'[s].cells[1] <= Running
    <2>1. slot'[run] = [slot[run] EXCEPT !.trial = FALSE]
      BY <1>1, <1>2
    <2>2. slot'[run].cells[1] = Running /\ slot'[run].trial = FALSE
      BY <1>2, <2>1 DEF Running, SlotTypes
    <2>3. ASSUME NEW s \in Slots, Bootable(s)' PROVE slot'[s].cells[1] <= Running
      <3>1. CASE s = run
        BY <1>2, <2>2, <3>1
      <3>2. CASE s # run /\ slot[s].cells[1] > Running
        <4>1. slot'[s] = [slot[s] EXCEPT !.cells[1] = 0]
          BY <1>1, <3>2
        <4>2. slot'[s].cells[1] = 0
          BY <1>2, <4>1, FirstCell DEF SlotTypes
        <4> QED
          BY <2>3, <4>2 DEF Bootable
      <3>3. CASE s # run /\ ~(slot[s].cells[1] > Running)
        <4>1. slot'[s] = slot[s] /\ slot[s].cells[1] \in Nat
          BY <1>1, <3>3, CellsCount
        <4> QED
          BY <1>2, <3>3, <4>1
      <3> QED
        BY <3>1, <3>2, <3>3
    <2> QED
      BY <2>2, <2>3
  <1>4. Running' = Running /\ run \in Bootables' /\ \A s \in Bootables' : slot'[s].cells[1] = Running
    <2>1. Running' = Running /\ run' = run /\ Bootable(run)'
      BY <1>1, <1>2, <1>3 DEF Running, Bootable
    <2>2. run \in Bootables'
      BY <1>1, <1>2, <1>3, <2>1 DEF Bootables
    <2>3. ASSUME NEW s \in Bootables' PROVE slot'[s].cells[1] = Running
      <3>1. s \in Slots /\ Bootable(s)' /\ Running <= slot'[s].cells[1]
        <4>1. \A t \in Slots : Bootable(t)' => slot'[t].cells[1] <= slot'[s].cells[1]
          BY <2>3 DEF Bootables
        <4>2. s \in Slots /\ Bootable(s)'
          BY <2>3 DEF Bootables
        <4> QED
          BY <1>2, <1>3, <2>1, <4>1, <4>2
      <3>2. slot'[s].cells[1] <= Running
        BY <1>3, <3>1
      <3>3. slot'[s].cells[1] \in Nat
        <4>1. slot' \in SlotTypes
          BY DEF IInv, Sound, Here, Home
        <4>2. slot'[s].cells[1] \in Versions \cup {0}
          BY <3>1, <4>1, FirstCell DEF SlotTypes
        <4> QED
          BY <4>2, CellsCount
      <3> QED
        BY <1>2, <3>1, <3>2, <3>3
    <2> QED
      BY <2>1, <2>2, <2>3
  <1>5. /\ auto' = [ram |-> settle(auto.ram, Running), flash |-> auto.flash]
        /\ auto.ram \in SkipMarks /\ auto.flash \in SkipMarks
    <2>1. auto \in [ram : SkipMarks, flash : SkipMarks]
      BY DEF RInv, Noting
    <2>2. auto' = [auto EXCEPT !.ram = settle(auto.ram, Running)]
      BY <1>1
    <2> QED
      BY <2>1, <2>2
  <1>6. Noting'
    <2>1. settle(auto.ram, Running) \in SkipMarks /\ settle(auto.ram, Running).tried = 0
      BY <1>5, SettleIs
    <2>2. auto' \in [ram : SkipMarks, flash : SkipMarks] /\ auto'.ram.tried = 0
      BY <1>5, <2>1
    <2>3. run' = run /\ pending' = FALSE /\ ~up'.reboot /\ ~noted'
      BY <1>1, <1>2
    <2> QED
      BY <1>4, <2>2, <2>3 DEF Noting
  <1>7. NeverBack'
    BY <1>1, <1>4 DEF NeverBack
  <1>8. Remembered'
    <2> DEFINE m == settle(auto.ram, Running)
    <2> SUFFICES ASSUME undone'.last # 0
                 PROVE  /\ auto.flash.tried = undone'.last \/ auto.flash.skip = undone'.last
                        /\ m.skip = undone'.last /\ auto.flash.tried \in {0, Running, undone'.last}
      BY <1>1, <1>2, <1>4, <1>5 DEF Remembered, Marked
    <2>1. undone'.last = undone.last /\ undone.last # Running /\ undone.last # 0
      BY <1>1
    <2>2. /\ Marked(auto.flash) /\ auto.ram = auto.flash
          /\ auto.flash.tried \in {0, Running, undone.last}
      BY <1>1, <1>2, <2>1 DEF RInv, Remembered
    <2> QED
      BY <1>5, <2>1, <2>2, SettleIs DEF Marked
  <1> QED
    BY <1>6, <1>7, <1>8 DEF RInv

LEMMA BootKeeps == ASSUME IInv, RInv, IInv', BootNext PROVE RInv'
  <1>1. CASE Restart
    BY <1>1, StartKeeps DEF Restart
  <1>2. CASE RebootIntoUpdate
    <2>1. up.reboot /\ noted /\ Whole(slot[up.target]) /\ slot[up.target].trial = TRUE
      <3>1. up.reboot /\ noted /\ Transfer(up, slot) /\ slot \in SlotTypes
        BY <1>2 DEF RebootIntoUpdate, IInv, Sound, Here, Home
      <3> QED
        BY <3>1 DEF Transfer, SlotTypes
    <2>2. Start(up.target, TRUE)
      BY <1>2, <2>1 DEF RebootIntoUpdate, Whole
    <2> QED
      BY <2>1, <2>2, TrialKeeps
  <1>3. CASE Commit
    BY <1>3, CommitKeeps
  <1> QED
    BY <1>1, <1>2, <1>3 DEF BootNext

LEMMA InitKeeps == Init => RInv
  <1> SUFFICES ASSUME Init PROVE RInv
    OBVIOUS
  <1>1. auto = [ram |-> [skip |-> 0, tried |-> 0], flash |-> [skip |-> 0, tried |-> 0]]
        /\ undone.last = 0 /\ ~noted /\ ~up.reboot /\ run = "A"
    BY DEF Init, NoTransfer, NoneUndone
  <1>2. slot["B"].cells[1] = 0 /\ slot["A"].cells[1] = Factory /\ ~slot["A"].trial
    BY FirstCell DEF Init, Empty, Slots
  <1>3. "A" \in Bootables
    BY <1>2, UpdateAssumption DEF Bootables, Bootable, Slots
  <1> QED
    BY <1>1, <1>3 DEF RInv, NeverBack, Remembered, Noting, SkipMarks

LEMMA RStep == ASSUME IInv, RInv, IInv', [Next]_vars, NoteTakes PROVE RInv'
  <1>1. CASE UNCHANGED vars
    BY <1>1, RestTransports, TransportKeeps DEF vars, boot_vars, auto_vars
  <1>2. CASE Next
    BY <1>2, StallTransports, HttpTransports, PullTransports, TransportKeeps, AutoKeeps, BootKeeps
       DEF Next
  <1> QED
    BY <1>1, <1>2

\* What is installed by itself is not what is skipped.
LEMMA SkipsIt == ASSUME IInv, RInv, [Next]_vars, trying', ~trying PROVE latest # undone.last
  <1>1. AutoPoll
    <2>1. ~UNCHANGED trying
      BY Zenon
    <2>2. ~Stalls /\ ~HttpNext /\ ~PullNext
      BY <2>1, StallTransports, HttpTransports, PullTransports DEF Transports
    <2>3. ~BootNext
      BY <2>1 DEF BootNext, Restart, RebootIntoUpdate, Start, Commit
    <2> QED
      BY <2>1, <2>2, <2>3
         DEF Next, vars, auto_vars, AutoNext, Offer, AutoNotes, UserSkips, SettingsSaved
  <1>2. ~pending /\ latest > Running /\ latest # auto.ram.skip
    BY <1>1 DEF AutoPoll, MayInstall
  <1>3. undone.last # 0 => auto.ram.skip = undone.last
    BY <1>2 DEF RInv, Remembered
  <1>4. latest # 0
    BY <1>2, CellsCount
  <1> QED
    BY <1>2, <1>3, <1>4

\* Unless the console waives a signature, or the note of the next image is lost
\* with the mark that flash still has: of the versions whose note reached flash
\* and that were rolled back (update_auto_settle()), the last is not installed by
\* itself again.  Of those before it nothing follows: there is one skip.
THEOREM RolledBackIsSkipped ==
    ASSUME SignedOnly PROVE Spec /\ [][NoteTakes]_vars => RolledBackStays
  <1>1. Init => IInv /\ RInv
    BY InitSound, InitKeeps
  <1>2. IInv /\ RInv /\ [Next]_vars /\ [NoteTakes]_vars => (IInv /\ RInv)'
    <2> SUFFICES ASSUME IInv, RInv, [Next]_vars, [NoteTakes]_vars PROVE IInv' /\ RInv'
      OBVIOUS
    <2>1. IInv'
      BY StepHolds
    <2>2. CASE NoteTakes
      BY <2>1, <2>2, RStep
    <2>3. CASE UNCHANGED vars
      BY <2>1, <2>3, RestTransports, TransportKeeps DEF vars, boot_vars, auto_vars
    <2> QED
      BY <2>1, <2>2, <2>3
  <1>3. IInv /\ RInv /\ [Next]_vars => [trying' /\ ~trying => latest # undone.last]_vars
    BY SkipsIt
  <1> QED
    BY <1>1, <1>2, <1>3, PTL DEF Spec, RolledBackStays

------------------------------------------------------------------------------
(* The link to the broker *)

\* The fields of the record, which no step changes.
MqttFields == {"state", "reconnect", "idx", "end", "inflight", "temp", "sub_idx", "sub_inflight",
           "stalled", "tls", "wire"}
MqttShape(m) == m = [f \in MqttFields |-> m[f]]

\* From m to n the link is what it was.
SameLink(m, n) ==
    /\ MqttShape(n)
    /\ n.state = m.state /\ n.reconnect = m.reconnect /\ n.tls = m.tls

\* The link of m with the settings t.
Follows(m, t) == m.state \in {"connecting", "up"} => m.tls = {t} \/ m.reconnect

MqttInv == MqttShape(mq) /\ Follows(mq, tls)

------------------------------------------------------------------------------
(* What one call does to the link *)

LEMMA SameLinkFollows ==
    ASSUME NEW m, NEW n, NEW t, SameLink(m, n), Follows(m, t)
    PROVE  MqttShape(n) /\ Follows(n, t)
BY DEF SameLink, Follows

LEMMA SubscribeKeepsLink ==
    ASSUME NEW m, MqttShape(m), NEW took
    PROVE  SameLink(m, subscribe_step(m, took))
BY DEF MqttShape, MqttFields, SameLink, subscribe_step

LEMMA DiscoveryKeepsLink ==
    ASSUME NEW m, MqttShape(m), NEW took
    PROVE  SameLink(m, discovery_step(m, took))
  <1> DEFINE i == m.idx
             sends == Config(i, port_gen) # {}
             heard == IF OfPort(i) /\ TempAt(i)
                      THEN [m EXCEPT !.temp[PortOf(i)] = port_gen[PortOf(i)]] ELSE m
             idx == IF sends /\ ~took THEN i ELSE i + 1
             flies == sends /\ took
             wire == IF flies THEN {<<i, c>> : c \in Config(i, port_gen)} ELSE {}
  <1>1. MqttShape(heard) /\ SameLink(m, heard)
    BY DEF MqttShape, MqttFields, SameLink
  <1>2. \/ discovery_step(m, took) = m
        \/ discovery_step(m, took) =
             [heard EXCEPT !.idx = idx, !.inflight = flies, !.wire = wire]
    BY DEF discovery_step
  <1> HIDE DEF heard, idx, flies, wire
  <1> QED
    BY <1>1, <1>2 DEF MqttShape, MqttFields, SameLink

LEMMA CheckKeepsLink ==
    ASSUME NEW m, MqttShape(m), NEW gens
    PROVE  SameLink(m, temp_discovery_check(m, gens))
  <1> DEFINE s == CHOOSE s \in Restless(m, gens) : \A t \in Restless(m, gens) : s <= t
             first == (s - 1) * PORT_ENTITIES + PORT_TEMP_FIRST
  <1>1. \/ temp_discovery_check(m, gens) = m
        \/ temp_discovery_check(m, gens) = [m EXCEPT !.idx = first, !.end = first + 2]
    BY DEF temp_discovery_check
  <1> HIDE DEF first
  <1> QED
    BY <1>1 DEF MqttShape, MqttFields, SameLink

\* A connection that is begun reads the settings; a link that ends is not one.
LEMMA ConnectFollows ==
    ASSUME NEW m, MqttShape(m), NEW n \in try_connect(m)
    PROVE  MqttShape(n) /\ Follows(n, tls)
BY DEF MqttShape, MqttFields, Follows, try_connect

LEMMA DroppedFollows ==
    ASSUME NEW m, MqttShape(m), NEW t
    PROVE  MqttShape(Dropped(m)) /\ Dropped(m).state = "backoff" /\ Follows(Dropped(m), t)
  <1>1. MqttShape(Dropped(m))
    BY DEF MqttShape, MqttFields, Dropped
  <1>2. Dropped(m).state = "backoff"
    BY DEF MqttShape, MqttFields, Dropped
  <1> QED
    BY <1>1, <1>2 DEF Follows

------------------------------------------------------------------------------
(* The steps *)

LEMMA InitHolds == MqttInit => MqttInv
  <1> SUFFICES ASSUME MqttInit PROVE MqttInv
    OBVIOUS
  <1>1. mq.state = "idle"
    BY DEF MqttInit
  <1>2. MqttShape(mq)
    BY DEF MqttInit, MqttShape, MqttFields
  <1> QED
    BY <1>1, <1>2 DEF MqttInv, Follows

LEMMA AttemptHolds == MqttInv /\ Attempt => MqttInv'
  <1> SUFFICES ASSUME MqttInv, Attempt PROVE MqttInv'
    OBVIOUS
  <1> DEFINE m == [mq EXCEPT !.reconnect = FALSE]
  <1>1. tls' = tls
    BY DEF Attempt
  <1>2. MqttShape(m) /\ m.state = "idle"
    <2>1. MqttShape(mq) /\ mq.state = "idle"
      BY DEF Attempt, MqttInv
    <2> QED
      BY <2>1 DEF MqttShape, MqttFields
  <1>3. \/ mq' = m
        \/ mq' \in try_connect(m)
        \/ mq' = [m EXCEPT !.state = "resolving"]
        \/ mq' = [m EXCEPT !.state = "backoff"]
    BY DEF Attempt
  <1> HIDE DEF m
  <1>4. CASE mq' = m
    BY <1>1, <1>2, <1>4 DEF MqttInv, Follows
  <1>5. CASE mq' \in try_connect(m)
    BY <1>1, <1>2, <1>5, ConnectFollows DEF MqttInv
  <1>6. CASE mq' = [m EXCEPT !.state = "resolving"]
    BY <1>2, <1>6 DEF MqttInv, MqttShape, MqttFields, Follows
  <1>7. CASE mq' = [m EXCEPT !.state = "backoff"]
    BY <1>2, <1>7 DEF MqttInv, MqttShape, MqttFields, Follows
  <1> QED
    BY <1>3, <1>4, <1>5, <1>6, <1>7

LEMMA ResolvedHolds == MqttInv /\ dns_cb => MqttInv'
  <1> SUFFICES ASSUME MqttInv, dns_cb PROVE MqttInv'
    OBVIOUS
  <1>1. tls' = tls
    BY DEF dns_cb
  <1>2. CASE mq' \in try_connect(mq)
    BY <1>1, <1>2, ConnectFollows DEF MqttInv
  <1>3. CASE mq' = [mq EXCEPT !.state = "backoff"]
    BY <1>3 DEF MqttInv, MqttShape, MqttFields, Follows
  <1> QED
    BY <1>2, <1>3 DEF dns_cb

\* The end of a connection, for whatever reason.
LEMMA EndsHold == MqttInv /\ (Lost \/ Backoff \/ Reconnect) => MqttInv'
  <1> SUFFICES ASSUME MqttInv, Lost \/ Backoff \/ Reconnect PROVE MqttInv'
    OBVIOUS
  <1>1. CASE Lost
    BY <1>1, DroppedFollows DEF Lost, MqttInv
  <1>2. CASE Backoff
    BY <1>2 DEF Backoff, MqttInv, MqttShape, MqttFields, Follows
  <1>3. CASE Reconnect
    <2> DEFINE m == Dropped(mq)
    <2>1. MqttShape(m) /\ m.state = "backoff"
      BY DroppedFollows DEF MqttInv
    <2>2. mq' = [m EXCEPT !.reconnect = FALSE]
      BY <1>3 DEF Reconnect
    <2> HIDE DEF m
    <2>3. MqttShape(mq')
      BY <2>1, <2>2 DEF MqttShape, MqttFields
    <2>4. mq'.state = "backoff"
      BY <2>1, <2>2 DEF MqttShape, MqttFields
    <2> QED
      BY <2>3, <2>4 DEF MqttInv, Follows
  <1> QED
    BY <1>1, <1>2, <1>3

\* mqtt_poll() up to its telemetry, and with it.
Early(sub, disc) ==
    LET m1 == subscribe_step(mq, sub)
    IN  IF subscribed(m1) THEN discovery_step(m1, disc) ELSE m1
Stuck(m2, telemetry) == telemetry = "refused" /\ m2.stalled + 1 = STALL_CYCLES
Late(m2, telemetry, gens) ==
    [temp_discovery_check(m2, gens) EXCEPT
       !.stalled = IF telemetry = "out" \/ Stuck(m2, telemetry) THEN 0 ELSE @ + 1]

LEMMA EarlyKeepsLink ==
    ASSUME MqttShape(mq), NEW sub, NEW disc
    PROVE  SameLink(mq, Early(sub, disc))
  <1> DEFINE m1 == subscribe_step(mq, sub)
  <1>1. SameLink(mq, m1)
    BY SubscribeKeepsLink
  <1>2. SameLink(m1, discovery_step(m1, disc))
    BY <1>1, DiscoveryKeepsLink DEF SameLink
  <1>3. Early(sub, disc) \in {m1, discovery_step(m1, disc)}
    BY DEF Early
  <1> HIDE DEF m1
  <1> QED
    BY <1>1, <1>2, <1>3 DEF SameLink

LEMMA LateKeepsLink ==
    ASSUME NEW m, MqttShape(m), NEW telemetry, NEW gens
    PROVE  SameLink(m, Late(m, telemetry, gens))
  <1> DEFINE n == temp_discovery_check(m, gens)
             z == telemetry = "out" \/ Stuck(m, telemetry)
  <1>1. SameLink(m, n)
    BY CheckKeepsLink
  <1>2. Late(m, telemetry, gens) = [n EXCEPT !.stalled = IF z THEN 0 ELSE @ + 1]
    BY DEF Late
  <1> HIDE DEF n, z
  <1> QED
    BY <1>1, <1>2 DEF MqttShape, MqttFields, SameLink

\* Whatever is subscribed, announced and published, the link stays what it was or
\* is dropped.
LEMMA WorkHolds == MqttInv /\ Work => MqttInv'
  <1> SUFFICES ASSUME MqttInv, Work PROVE MqttInv'
    OBVIOUS
  <1>1. PICK sub \in BOOLEAN, disc \in BOOLEAN, telemetry \in Telemetry :
          LET m2 == Early(sub, disc)
          IN  IF telemetry = "not due" THEN mq' = m2
              ELSE \E gens : IF Stuck(m2, telemetry)
                             THEN mq' = Dropped(Late(m2, telemetry, gens))
                             ELSE mq' = Late(m2, telemetry, gens)
    <2>1. PICK sub \in BOOLEAN, disc \in BOOLEAN, telemetry \in Telemetry :
            LET m1 == subscribe_step(mq, sub)
                m2 == IF subscribed(m1) THEN discovery_step(m1, disc) ELSE m1
                stuck == telemetry = "refused" /\ m2.stalled + 1 = STALL_CYCLES
            IN  IF telemetry = "not due" THEN mq' = m2 /\ UNCHANGED <<joined, port_gen, broker>>
                ELSE \E gens \in Told :
                       /\ gens = port_gen \/ MidRun \/ (m2.idx >= m2.end /\ ~m2.inflight)
                       /\ AtOnce \/ \E s \in Bays : \A t \in Bays \ {s} : gens[t] = port_gen[t]
                       /\ port_gen' = gens
                       /\ LET m3 == [temp_discovery_check(m2, gens) EXCEPT
                                       !.stalled = IF telemetry = "out" \/ stuck THEN 0 ELSE @ + 1]
                          IN  IF stuck THEN mq' = Dropped(m3) /\ Ends(m2)
                              ELSE mq' = m3 /\ UNCHANGED <<joined, broker>>
      BY DEF Work
    <2> QED
      BY <2>1, ZenonT(40) DEF Early, Late, Stuck
  <1> DEFINE m2 == Early(sub, disc)
  <1>2. SameLink(mq, m2)
    BY EarlyKeepsLink DEF MqttInv
  <1>3. tls' = tls
    BY DEF Work
  <1>4. \/ mq' = m2
        \/ \E gens : mq' \in {Late(m2, telemetry, gens), Dropped(Late(m2, telemetry, gens))}
    BY <1>1
  <1> HIDE DEF m2
  <1>5. CASE mq' = m2
    BY <1>2, <1>3, <1>5, SameLinkFollows DEF MqttInv
  <1>6. CASE \E gens : mq' \in {Late(m2, telemetry, gens), Dropped(Late(m2, telemetry, gens))}
    <2>1. PICK gens : mq' \in {Late(m2, telemetry, gens), Dropped(Late(m2, telemetry, gens))}
      BY <1>6
    <2> DEFINE m3 == Late(m2, telemetry, gens)
    <2>2. MqttShape(m3) /\ Follows(m3, tls)
      <3>1. SameLink(m2, m3)
        BY <1>2, LateKeepsLink DEF SameLink
      <3> HIDE DEF m3
      <3> QED
        BY <1>2, <3>1 DEF SameLink, Follows, MqttInv
    <2>3. MqttShape(Dropped(m3)) /\ Follows(Dropped(m3), tls)
      BY <2>2, DroppedFollows
    <2> HIDE DEF m3
    <2> QED
      BY <1>3, <2>1, <2>2, <2>3 DEF MqttInv, m3
  <1> QED
    BY <1>4, <1>5, <1>6

\* What answers a link only moves its indices.
LEMMA AnswersHold == MqttInv /\ (Accepted \/ sub_cb \/ discovery_cb) => MqttInv'
  <1> SUFFICES ASSUME MqttInv, Accepted \/ sub_cb \/ discovery_cb PROVE MqttInv'
    OBVIOUS
  <1>1. CASE Accepted
    BY <1>1 DEF Accepted, MqttInv, MqttShape, MqttFields, Follows
  <1>2. CASE sub_cb
    BY <1>2 DEF sub_cb, MqttInv, MqttShape, MqttFields, Follows
  <1>3. CASE discovery_cb
    <2>1. PICK idx : mq' = [mq EXCEPT !.inflight = FALSE, !.wire = {}, !.idx = idx]
      BY <1>3 DEF discovery_cb
    <2>2. tls' = tls
      BY <1>3 DEF discovery_cb
    <2> QED
      BY <2>1, <2>2 DEF MqttInv, MqttShape, MqttFields, Follows
  <1> QED
    BY <1>1, <1>2, <1>3

\* A setting that changes leaves a mark, whatever the link is doing.
LEMMA SettingsHold == MqttInv /\ (mqtt_names_changed \/ mqtt_reconnect \/ ClockSet) => MqttInv'
  <1> SUFFICES ASSUME MqttInv, mqtt_names_changed \/ mqtt_reconnect \/ ClockSet PROVE MqttInv'
    OBVIOUS
  <1>1. CASE mqtt_names_changed
    BY <1>1 DEF mqtt_names_changed, MqttInv, MqttShape, MqttFields, Follows
  <1>2. CASE mqtt_reconnect
    BY <1>2 DEF mqtt_reconnect, MqttInv, MqttShape, MqttFields, Follows
  <1>3. CASE ClockSet
    BY <1>3 DEF ClockSet, MqttInv, MqttShape, MqttFields, Follows
  <1> QED
    BY <1>1, <1>2, <1>3

LEMMA StepKeeps == MqttInv /\ [MqttNext]_mqtt_vars => MqttInv'
  <1> SUFFICES ASSUME MqttInv, [MqttNext]_mqtt_vars PROVE MqttInv'
    OBVIOUS
  <1>1. CASE UNCHANGED mqtt_vars
    BY <1>1 DEF mqtt_vars, MqttInv, MqttShape, MqttFields, Follows
  <1>2. CASE MqttNext
    BY <1>2, AttemptHolds, ResolvedHolds, EndsHold, WorkHolds, AnswersHold, SettingsHold, Zenon
       DEF MqttNext
  <1> QED
    BY <1>1, <1>2

\* A link that is up, or is being made, was made with the present settings or is
\* going to be dropped (mqtt_reconnect()), however callbacks, refusals and changes
\* of the settings fall between the calls of mqtt_poll().
THEOREM LinkIsCurrent == MqttSpec => []LinkFollowsSettings
  <1>1. MqttInv => LinkFollowsSettings
    BY DEF MqttInv, Follows, LinkFollowsSettings
  <1> QED
    BY InitHolds, StepKeeps, <1>1, PTL DEF MqttSpec

------------------------------------------------------------------------------
(* What the broker is told *)

Entities == 0..(N_DISCOVERY - 1)
Gens == [Bays -> {0, 2, 3}]
FirstTemp(s) == (s - 1) * PORT_ENTITIES + PORT_TEMP_FIRST

\* What a record of the link holds.
MqttTyped(m) == MqttShape(m) /\ m.idx \in Nat /\ m.end \in 0..N_DISCOVERY /\ m.temp \in Gens

\* An entity of m is still to be sent in this run, or is under way and sent again
\* if it is refused, or the broker b has it: the thermometers as of the blade that
\* they were last announced for.
ToSend(m, i) == m.idx <= i /\ i < m.end
OnItsWay(m, i) == m.inflight /\ m.idx = i + 1 /\ i < m.end
Has(b, m, i) == Config(i, m.temp) \subseteq {b[i]}

\* What is under way is what the index is past, as it is now; or the run has
\* started over since.
WireTells(m) ==
    m.inflight => \E i \in Entities, c \in Labels \cup {"gone", "fixed"} :
       /\ m.wire = {<<i, c>>}
       /\ m.idx = i + 1 => i < m.end /\ c \in Config(i, m.temp)
       /\ m.idx # i + 1 => m.idx = 0 /\ m.end = N_DISCOVERY

\* A slot with another blade is one that the run comes to.
Awaits(m, gens) == \A s \in Restless(m, gens) : m.idx <= FirstTemp(s) /\ FirstTemp(s) < m.end

\* A run that comes to one thermometer of a slot comes to both.
ToBoth(m) == \A s \in Bays : FirstTemp(s) < m.end => FirstTemp(s) + 1 < m.end

Tells(m, b, gens) ==
    /\ \A i \in Entities : ToSend(m, i) \/ OnItsWay(m, i) \/ Has(b, m, i)
    /\ WireTells(m) /\ Awaits(m, gens) /\ ToBoth(m)

\* The inductive invariant of discovery.
TellInv ==
    /\ MqttTyped(mq) /\ port_gen \in Gens /\ broker = [i \in Entities |-> broker[i]]
    /\ labels \in Labels /\ (joined => mq.state = "up")
    /\ mq.state = "up" => Tells(mq, broker, port_gen)

------------------------------------------------------------------------------
(* The entities and their configs *)

LEMMA PortCount == NUM_PORTS \in Nat /\ NUM_PORTS # 0 /\ N_DISCOVERY = NUM_PORTS * 3 + 1
BY MqttAssumption DEF N_DISCOVERY, PORT_ENTITIES

LEMMA EntityOfPort ==
    ASSUME NEW i \in Entities, OfPort(i)
    PROVE  /\ PortOf(i) \in Bays /\ FirstTemp(PortOf(i)) = (i \div 3) * 3 + 1
           /\ TempAt(i) => i \in {FirstTemp(PortOf(i)), FirstTemp(PortOf(i)) + 1}
  <1>1. i \in Nat /\ i < NUM_PORTS * 3
    BY PortCount DEF Entities, OfPort, PORT_ENTITIES
  <1> i \in Nat
    BY <1>1
  <1>2. PICK q \in Nat, r \in Nat : q = i \div 3 /\ r = i % 3 /\ i = q * 3 + r /\ r <= 2
    <2>1. i \div 3 \in Nat /\ i % 3 \in 0..2
      BY ONLY i \in Nat
    <2>2. i = 3 * (i \div 3) + (i % 3)
      BY ONLY i \in Nat, Z3
    <2> QED
      BY <2>1, <2>2
  <1>3. q < NUM_PORTS
    BY <1>1, <1>2, PortCount
  <1>4. PortOf(i) = q + 1 /\ (TempAt(i) => r >= 1)
    BY <1>2 DEF PortOf, TempAt, PORT_ENTITIES, PORT_TEMP_FIRST
  <1>5. PortOf(i) \in Bays
    BY <1>2, <1>3, <1>4, PortCount DEF Bays
  <1>6. FirstTemp(PortOf(i)) = q * 3 + 1
    BY <1>2, <1>4 DEF FirstTemp, PORT_ENTITIES, PORT_TEMP_FIRST
  <1> QED
    BY <1>2, <1>4, <1>5, <1>6

LEMMA TempsOfPort ==
    ASSUME NEW s \in Bays
    PROVE  /\ FirstTemp(s) \in Entities /\ FirstTemp(s) + 1 \in Entities
           /\ FirstTemp(s) >= 1 /\ FirstTemp(s) + 2 <= N_DISCOVERY
           /\ OfPort(FirstTemp(s)) /\ TempAt(FirstTemp(s)) /\ PortOf(FirstTemp(s)) = s
  <1>1. s \in Nat /\ s >= 1 /\ s <= NUM_PORTS
    BY PortCount DEF Bays
  <1>2. FirstTemp(s) = (s - 1) * 3 + 1
    BY DEF FirstTemp, PORT_ENTITIES, PORT_TEMP_FIRST
  <1>3. PICK f \in Nat : f = FirstTemp(s) /\ f = (s - 1) * 3 + 1
    BY <1>1, <1>2
  <1>4. f \div 3 = s - 1 /\ f % 3 = 1 /\ f < NUM_PORTS * 3 /\ f + 1 < NUM_PORTS * 3
    BY <1>1, <1>3, PortCount
  <1> QED
    BY <1>1, <1>3, <1>4, PortCount
       DEF Entities, OfPort, TempAt, PortOf, PORT_ENTITIES, PORT_TEMP_FIRST

\* A config is one, and of a thermometer it is a matter of its slot.
LEMMA ConfigIsOne ==
    ASSUME NEW i, NEW g, NEW c \in Config(i, g)
    PROVE  Config(i, g) = {c} /\ c \in {labels, "gone", "fixed"}
  <1>1. Config(i, g) \in {{}, {labels}, {"gone"}, {"fixed"}}
    BY DEF Config, ChassisConfig, PortConfig, TempConfig
  <1> QED
    BY <1>1

LEMMA ConfigByPort ==
    ASSUME NEW i, NEW g, NEW h, OfPort(i) /\ TempAt(i) => g[PortOf(i)] = h[PortOf(i)]
    PROVE  Config(i, g) = Config(i, h)
BY DEF Config

LEMMA ConfigUnknown ==
    ASSUME NEW i, NEW g, OfPort(i), TempAt(i), g[PortOf(i)] = 0
    PROVE  Config(i, g) = {}
BY DEF Config, TempConfig

\* What Tells reads.
LEMMA TellsSame ==
    ASSUME NEW m, NEW n, NEW b, NEW g, Tells(m, b, g),
           n.idx = m.idx, n.end = m.end, n.inflight = m.inflight, n.temp = m.temp, n.wire = m.wire
    PROVE  Tells(n, b, g)
  <1>1. \A i \in Entities : ToSend(n, i) \/ OnItsWay(n, i) \/ Has(b, n, i)
    BY DEF Tells, ToSend, OnItsWay, Has
  <1>2. WireTells(n)
    BY DEF Tells, WireTells
  <1>3. Awaits(n, g)
    BY DEF Tells, Awaits, Restless
  <1> QED
    BY <1>1, <1>2, <1>3 DEF Tells, ToBoth

LEMMA TellsNext ==
    ASSUME labels' = labels, Tells(mq', broker', port_gen')
    PROVE  Tells(mq, broker, port_gen)'
BY DEF Tells, ToSend, OnItsWay, Has, WireTells, Awaits, ToBoth, Restless, Config, TempConfig,
       PortConfig, ChassisConfig

------------------------------------------------------------------------------
(* A call of discovery_step() and of temp_discovery_check() *)

\* The one that is at hand is heard and sent, or passed over.
LEMMA AtHand ==
    ASSUME NEW m, MqttTyped(m), NEW b, port_gen \in Gens, labels \in Labels,
           Tells(m, b, port_gen), ~m.inflight, m.idx < m.end,
           NEW t \in Gens,
           t = IF OfPort(m.idx) /\ TempAt(m.idx)
               THEN [m.temp EXCEPT ![PortOf(m.idx)] = port_gen[PortOf(m.idx)]] ELSE m.temp,
           NEW n, MqttTyped(n), n.temp = t, n.end = m.end,
           \/ n.idx = m.idx /\ ~n.inflight
           \/ n.idx = m.idx + 1 /\ ~n.inflight /\ Config(m.idx, port_gen) = {}
           \/ /\ n.idx = m.idx + 1 /\ n.inflight /\ Config(m.idx, port_gen) # {}
              /\ n.wire = {<<m.idx, c>> : c \in Config(m.idx, port_gen)}
    PROVE  Tells(n, b, port_gen)
  <1>1. PICK i \in Entities : i = m.idx
    BY PortCount DEF MqttTyped, Entities
  <1>2. i \in Nat /\ m.end \in Nat /\ i < m.end /\ m.temp \in Gens
    BY <1>1 DEF MqttTyped, Entities
  <1>3. OfPort(i) /\ TempAt(i) => PortOf(i) \in Bays /\ t[PortOf(i)] = port_gen[PortOf(i)]
    BY <1>1, <1>2, EntityOfPort DEF Gens
  <1>4. Config(i, t) = Config(i, port_gen)
    BY <1>3, ConfigByPort
  <1>5. \A j \in Entities : ToSend(m, j) \/ Has(b, m, j)
    BY DEF Tells, OnItsWay
  <1>6. ASSUME NEW j \in Entities, j < i, Has(b, m, j)
        PROVE  Has(b, n, j)
    <2>1. CASE OfPort(j) /\ TempAt(j) /\ t[PortOf(j)] # m.temp[PortOf(j)]
      <3>1. OfPort(i) /\ TempAt(i)
        BY <1>1, <2>1
      <3>2. PortOf(j) = PortOf(i)
        BY <1>1, <1>2, <2>1, <3>1, EntityOfPort DEF Gens
      <3>3. /\ PortOf(i) \in Bays /\ FirstTemp(PortOf(i)) \in Entities
            /\ i \in {FirstTemp(PortOf(i)), FirstTemp(PortOf(i)) + 1}
            /\ j \in {FirstTemp(PortOf(i)), FirstTemp(PortOf(i)) + 1}
        BY <2>1, <3>1, <3>2, EntityOfPort, TempsOfPort
      <3>4. i > FirstTemp(PortOf(i))
        BY <1>6, <3>3 DEF Entities
      <3>5. PortOf(i) \notin Restless(m, port_gen)
        BY <1>1, <1>2, <3>3, <3>4 DEF Tells, Awaits, Entities
      <3>6. t[PortOf(j)] = 0
        BY <1>3, <2>1, <3>1, <3>2, <3>3, <3>5 DEF Restless
      <3> QED
        BY <2>1, <3>6, ConfigUnknown DEF Has
    <2>2. CASE ~(OfPort(j) /\ TempAt(j) /\ t[PortOf(j)] # m.temp[PortOf(j)])
      <3>1. Config(j, t) = Config(j, m.temp)
        BY ONLY <2>2, ConfigByPort, Zenon
      <3> QED
        BY <1>6, <3>1 DEF Has
    <2> QED
      BY <2>1, <2>2
  <1>7. n.idx = i \/ n.idx = i + 1
    BY <1>1
  <1>8. \A j \in Entities : j # i => ToSend(n, j) \/ Has(b, n, j)
    <2>1. SUFFICES ASSUME NEW j \in Entities, j # i
                   PROVE  ToSend(n, j) \/ Has(b, n, j)
      OBVIOUS
    <2>2. j \in Nat
      BY DEF Entities
    <2>3. CASE j > i /\ j < m.end
      BY <1>2, <1>7, <2>2, <2>3 DEF ToSend
    <2>4. CASE j < i
      BY <1>1, <1>2, <1>5, <1>6, <2>2, <2>4 DEF ToSend
    <2>5. CASE j >= m.end
      <3>1. Has(b, m, j)
        BY <1>2, <1>5, <2>2, <2>5 DEF ToSend
      <3>2. CASE OfPort(j) /\ TempAt(j) /\ t[PortOf(j)] # m.temp[PortOf(j)]
        <4>1. OfPort(i) /\ TempAt(i)
          BY <1>1, <3>2
        <4>2. PortOf(j) = PortOf(i)
          BY <1>1, <1>2, <3>2, <4>1, EntityOfPort DEF Gens
        <4>3. /\ PortOf(i) \in Bays /\ FirstTemp(PortOf(i)) \in Entities
              /\ i \in {FirstTemp(PortOf(i)), FirstTemp(PortOf(i)) + 1}
              /\ j \in {FirstTemp(PortOf(i)), FirstTemp(PortOf(i)) + 1}
          BY <3>2, <4>1, <4>2, EntityOfPort, TempsOfPort
        <4>4. FirstTemp(PortOf(i)) < m.end
          BY <1>2, <4>3 DEF Entities
        <4>5. FirstTemp(PortOf(i)) + 1 < m.end
          BY <4>3, <4>4 DEF Tells, ToBoth
        <4>6. FirstTemp(PortOf(i)) \in Nat
          BY <4>3 DEF Entities
        <4>7. j < m.end
          BY ONLY <4>3, <4>4, <4>5, <4>6
        <4>8. m.end \in Nat /\ j \in Nat
          BY <1>2, <2>2
        <4> QED
          BY ONLY <2>5, <4>7, <4>8
      <3>3. CASE ~(OfPort(j) /\ TempAt(j) /\ t[PortOf(j)] # m.temp[PortOf(j)])
        <4>1. Config(j, t) = Config(j, m.temp)
          BY ONLY <3>3, ConfigByPort, Zenon
        <4> QED
          BY <3>1, <4>1 DEF Has
      <3> QED
        BY <3>2, <3>3
    <2> QED
      BY <1>2, <2>1, <2>2, <2>3, <2>4, <2>5
  <1>9. ToSend(n, i) \/ OnItsWay(n, i) \/ Has(b, n, i)
    <2>1. CASE n.idx = m.idx
      BY <1>1, <1>2, <2>1 DEF ToSend
    <2>2. CASE Config(m.idx, port_gen) = {}
      BY <1>1, <1>4, <2>2 DEF Has
    <2>3. CASE n.idx = m.idx + 1 /\ n.inflight
      BY <1>1, <1>2, <2>3 DEF OnItsWay
    <2> QED
      BY <2>1, <2>2, <2>3
  <1>10. WireTells(n)
    <2>1. CASE ~n.inflight
      BY <2>1 DEF WireTells
    <2>2. CASE n.inflight
      <3>1. n.idx = i + 1 /\ n.wire = {<<i, c>> : c \in Config(i, port_gen)} /\ Config(i, port_gen) # {}
        BY <1>1, <2>2
      <3>2. PICK c \in Config(i, port_gen) : Config(i, port_gen) = {c} /\ c \in {labels, "gone", "fixed"}
        BY <3>1, ConfigIsOne
      <3>3. n.wire = {<<i, c>>}
        BY <3>1, <3>2
      <3>4. c \in Config(i, n.temp)
        BY <1>4, <3>2
      <3> QED
        BY <1>2, <3>1, <3>2, <3>3, <3>4 DEF WireTells
    <2> QED
      BY <2>1, <2>2
  <1>11. Awaits(n, port_gen)
    <2>1. SUFFICES ASSUME NEW s \in Restless(n, port_gen)
                   PROVE  n.idx <= FirstTemp(s) /\ FirstTemp(s) < n.end
      BY DEF Awaits
    <2>2. s \in Bays /\ port_gen[s] # 0 /\ port_gen[s] # t[s]
      BY DEF Restless
    <2>3. ~(OfPort(i) /\ TempAt(i) /\ PortOf(i) = s)
      BY <1>3, <2>2
    <2>4. t[s] = m.temp[s]
      BY <1>1, <1>2, <2>2, <2>3 DEF Gens
    <2>5. s \in Restless(m, port_gen)
      BY <2>2, <2>4 DEF Restless
    <2>6. i <= FirstTemp(s) /\ FirstTemp(s) < m.end
      BY <1>1, <2>5 DEF Tells, Awaits
    <2>7. i # FirstTemp(s) /\ FirstTemp(s) \in Nat
      BY <2>2, <2>3, TempsOfPort DEF Entities
    <2> QED
      BY <1>2, <1>7, <2>6, <2>7
  <1> QED
    BY <1>8, <1>9, <1>10, <1>11 DEF Tells, ToBoth

LEMMA DiscoveryTells ==
    ASSUME NEW m, MqttTyped(m), NEW b, port_gen \in Gens, labels \in Labels,
           Tells(m, b, port_gen), NEW took \in BOOLEAN,
           NEW n, n = discovery_step(m, took)
    PROVE  MqttTyped(n) /\ Tells(n, b, port_gen) /\ n.state = m.state
  <1> DEFINE cfg == Config(m.idx, port_gen)
             t == IF OfPort(m.idx) /\ TempAt(m.idx)
                  THEN [m.temp EXCEPT ![PortOf(m.idx)] = port_gen[PortOf(m.idx)]] ELSE m.temp
             sends == cfg # {}
             k == IF sends /\ ~took THEN m.idx ELSE m.idx + 1
             w == IF sends /\ took THEN {<<m.idx, c>> : c \in cfg} ELSE {}
  <1>1. m.idx \in Nat /\ m.end \in Nat
    BY DEF MqttTyped
  <1>2. CASE m.inflight \/ m.idx >= m.end
    BY <1>2 DEF discovery_step
  <1>3. CASE ~m.inflight /\ m.idx < m.end
    <2>1. m.idx \in Entities /\ m.temp \in Gens /\ m.idx \in Nat
      BY <1>3, PortCount DEF MqttTyped, Entities
    <2>2. OfPort(m.idx) => PortOf(m.idx) \in Bays
      BY <2>1, EntityOfPort
    <2>3. t \in Gens
      BY <2>1, <2>2 DEF Gens
    <2>4. PICK x \in Gens : x = t
      BY <2>3
    <2>5. PICK f : f = (sends /\ took)
      OBVIOUS
    <2>6. k \in Nat
      BY <2>1
    <2>7. n = [m EXCEPT !.temp = x, !.idx = k, !.inflight = f, !.wire = w]
      <3> DEFINE heard == IF OfPort(m.idx) /\ TempAt(m.idx)
                          THEN [m EXCEPT !.temp[PortOf(m.idx)] = port_gen[PortOf(m.idx)]] ELSE m
      <3>1. n = [heard EXCEPT !.idx = k, !.inflight = f, !.wire = w]
        <4>1. ~(m.inflight \/ m.idx >= m.end)
          BY <1>3, <1>1
        <4>2. n = [heard EXCEPT !.idx = k, !.inflight = (sends /\ took), !.wire = w]
          BY <4>1, Zenon DEF discovery_step
        <4> QED
          BY <2>5, <4>2
      <3>2. heard = [m EXCEPT !.temp = x]
        <4>1. CASE OfPort(m.idx) /\ TempAt(m.idx)
          <5>1. x = [m.temp EXCEPT ![PortOf(m.idx)] = port_gen[PortOf(m.idx)]]
            BY <2>4, <4>1
          <5>2. heard = [m EXCEPT !.temp = [m.temp EXCEPT ![PortOf(m.idx)] = port_gen[PortOf(m.idx)]]]
            BY <4>1
          <5> QED
            BY <5>1, <5>2
        <4>2. CASE ~(OfPort(m.idx) /\ TempAt(m.idx))
          <5>1. x = m.temp /\ heard = m
            BY <2>4, <4>2
          <5> QED
            BY <5>1 DEF MqttTyped, MqttShape, MqttFields
        <4> QED
          BY <4>1, <4>2
      <3> HIDE DEF heard, k, w
      <3> QED
        BY <3>1, <3>2 DEF MqttTyped, MqttShape, MqttFields
    <2>8. \/ k = m.idx /\ ~f
          \/ k = m.idx + 1 /\ ~f /\ cfg = {}
          \/ k = m.idx + 1 /\ f /\ cfg # {} /\ w = {<<m.idx, c>> : c \in cfg}
      BY <2>5
    <2>9. x = IF OfPort(m.idx) /\ TempAt(m.idx)
              THEN [m.temp EXCEPT ![PortOf(m.idx)] = port_gen[PortOf(m.idx)]] ELSE m.temp
      BY <2>4
    <2> HIDE DEF t, k, w
    <2>10. /\ MqttTyped(n) /\ n.temp = x /\ n.idx = k /\ n.inflight = f /\ n.wire = w
           /\ n.end = m.end /\ n.state = m.state
      BY ONLY <2>6, <2>7, MqttTyped(m), x \in Gens DEF MqttTyped, MqttShape, MqttFields
    <2> QED
      BY <1>3, <2>8, <2>9, <2>10, AtHand
  <1> QED
    BY <1>2, <1>3, <1>1

LEMMA CheckTells ==
    ASSUME NEW m, MqttTyped(m), NEW b, port_gen \in Gens, Tells(m, b, port_gen),
           NEW gens \in Gens, gens = port_gen \/ (m.idx >= m.end /\ ~m.inflight),
           NEW s \in Bays, \A r \in Bays \ {s} : gens[r] = port_gen[r],
           NEW n, n = temp_discovery_check(m, gens)
    PROVE  MqttTyped(n) /\ Tells(n, b, gens) /\ n.state = m.state
  <1>1. m.idx \in Nat /\ m.end \in Nat
    BY DEF MqttTyped
  <1>2. CASE m.idx < m.end
    <2>1. gens = port_gen /\ n = m
      BY <1>1, <1>2 DEF temp_discovery_check
    <2> QED
      BY <2>1
  <1>3. CASE m.idx >= m.end
    <2>1. Restless(m, port_gen) = {}
      <3>1. SUFFICES ASSUME NEW r \in Restless(m, port_gen)
                     PROVE  FALSE
        OBVIOUS
      <3>2. m.idx <= FirstTemp(r) /\ FirstTemp(r) < m.end /\ r \in Bays
        BY DEF Tells, Awaits, Restless
      <3>3. FirstTemp(r) \in Nat
        BY <3>2, TempsOfPort DEF Entities
      <3> QED
        BY <1>1, <1>3, <3>2, <3>3
    <2>2. CASE Restless(m, gens) = {}
      <3>1. n = m
        BY <2>2 DEF temp_discovery_check
      <3>2. Tells(m, b, gens)
        BY <2>2 DEF Tells, Awaits
      <3> QED
        BY <3>1, <3>2
    <2>3. CASE Restless(m, gens) # {}
      <3>1. Restless(m, gens) = {s}
        BY <2>1, <2>3 DEF Restless
      <3>2. ~m.inflight
        BY <2>1, <2>3
      <3>3. s \in Nat /\ s >= 1
        BY DEF Bays
      <3>4. PICK f \in Nat : f = FirstTemp(s) /\ f + 2 <= N_DISCOVERY
        BY TempsOfPort DEF Entities
      <3>5. (CHOOSE x \in Restless(m, gens) : \A r \in Restless(m, gens) : x <= r) = s
        <4>1. \A r \in {s} : s <= r
          BY <3>3
        <4> QED
          BY <3>1, <4>1
      <3>6. n = [m EXCEPT !.idx = f, !.end = f + 2]
        <4>1. ~(m.idx < m.end \/ Restless(m, gens) = {})
          BY <1>1, <1>3, <2>3
        <4>2. n = [m EXCEPT !.idx = FirstTemp(s), !.end = FirstTemp(s) + 2]
          BY <3>5, <4>1 DEF temp_discovery_check, FirstTemp
        <4> QED
          BY <3>4, <4>2
      <3>7. f + 2 \in 0..N_DISCOVERY
        BY <3>4, PortCount
      <3>8. /\ MqttTyped(n) /\ n.idx = f /\ n.end = f + 2 /\ n.temp = m.temp
            /\ n.inflight = m.inflight /\ n.state = m.state
        BY ONLY <3>4, <3>6, <3>7, MqttTyped(m) DEF MqttTyped, MqttShape, MqttFields
      <3>9. \A i \in Entities : Has(b, n, i)
        <4>1. SUFFICES ASSUME NEW i \in Entities
                       PROVE  Has(b, n, i)
          OBVIOUS
        <4>2. ~ToSend(m, i)
          BY <1>1, <1>3 DEF ToSend, Entities
        <4> QED
          BY <3>2, <3>8, <4>2 DEF Tells, OnItsWay, Has
      <3>10. WireTells(n)
        BY <3>2, <3>8 DEF WireTells
      <3>11. Awaits(n, gens)
        <4>1. Restless(n, gens) = {s}
          BY <3>1, <3>8 DEF Restless
        <4> QED
          BY <3>4, <3>8, <4>1 DEF Awaits
      <3>12. ToBoth(n)
        <4>1. SUFFICES ASSUME NEW r \in Bays, FirstTemp(r) < f + 2
                       PROVE  FirstTemp(r) + 1 < f + 2
          BY <3>8 DEF ToBoth
        <4>2. r \in Nat /\ FirstTemp(r) = (r - 1) * 3 + 1 /\ f = (s - 1) * 3 + 1
          BY <3>4 DEF Bays, FirstTemp, PORT_ENTITIES, PORT_TEMP_FIRST
        <4> QED
          BY <3>3, <4>1, <4>2
      <3> QED
        BY <3>8, <3>9, <3>10, <3>11, <3>12 DEF Tells
    <2> QED
      BY <2>2, <2>3
  <1> QED
    BY <1>1, <1>2, <1>3

------------------------------------------------------------------------------
(* The steps of the link *)

BrokerShape(b) == b = [i \in Entities |-> b[i]]

\* A link that is not up owes nothing.
LEMMA NotUp ==
    ASSUME MqttTyped(mq'), port_gen' \in Gens, BrokerShape(broker'), labels' \in Labels,
           ~joined', mq'.state # "up"
    PROVE  TellInv'
BY DEF TellInv, MqttTyped, MqttShape, BrokerShape, Gens

LEMMA EndsShape ==
    ASSUME BrokerShape(broker), NEW m, Ends(m)
    PROVE  BrokerShape(broker') /\ ~joined'
  <1>1. DOMAIN broker = Entities
    BY DEF BrokerShape
  <1>2. broker' \in {broker, Kept(m)} /\ joined' = FALSE
    BY DEF Ends
  <1>3. Kept(m) = [i \in Entities |-> Kept(m)[i]]
    BY <1>1 DEF Kept
  <1> QED
    BY <1>2, <1>3 DEF BrokerShape

LEMMA DroppedTyped ==
    ASSUME NEW m, MqttTyped(m), NEW n, n = Dropped(m)
    PROVE  MqttTyped(n) /\ n.state # "up"
BY DEF MqttTyped, MqttShape, MqttFields, Dropped

\* Steps before the link is up, and its end.
LEMMA DownTells ==
    ASSUME TellInv, Attempt \/ dns_cb \/ Lost \/ Backoff \/ Reconnect
    PROVE  TellInv'
  <1>1. /\ MqttTyped(mq) /\ port_gen \in Gens /\ BrokerShape(broker) /\ labels \in Labels
        /\ (joined => mq.state = "up")
    BY DEF TellInv, BrokerShape
  <1>2. labels' = labels /\ port_gen' = port_gen
    BY DEF Attempt, dns_cb, Lost, Backoff, Reconnect
  <1>3. CASE Attempt
    <2>1. PICK m : m = [mq EXCEPT !.reconnect = FALSE]
      OBVIOUS
    <2>2. MqttTyped(m) /\ m.state = "idle" /\ mq.state = "idle"
      BY <1>1, <1>3, <2>1 DEF Attempt, MqttTyped, MqttShape, MqttFields
    <2>3. \/ mq' = m
          \/ mq' \in try_connect(m)
          \/ mq' \in {[m EXCEPT !.state = "resolving"], [m EXCEPT !.state = "backoff"]}
      BY <1>3, <2>1 DEF Attempt
    <2>4. MqttTyped(mq') /\ mq'.state # "up"
      BY <2>2, <2>3 DEF try_connect, MqttTyped, MqttShape, MqttFields
    <2> QED
      BY <1>1, <1>2, <1>3, <2>2, <2>4, NotUp DEF Attempt
  <1>4. CASE dns_cb
    <2>1. mq.state = "resolving" /\ mq' \in try_connect(mq) \cup {[mq EXCEPT !.state = "backoff"]}
      BY <1>4 DEF dns_cb
    <2>2. MqttTyped(mq') /\ mq'.state # "up"
      BY <1>1, <2>1 DEF try_connect, MqttTyped, MqttShape, MqttFields
    <2> QED
      BY <1>1, <1>2, <1>4, <2>1, <2>2, NotUp DEF dns_cb
  <1>5. CASE Lost
    <2>1. mq' = Dropped(mq) /\ Ends(mq)
      BY <1>5 DEF Lost
    <2> QED
      BY <1>1, <1>2, <2>1, DroppedTyped, EndsShape, NotUp
  <1>6. CASE Backoff
    <2>1. mq.state = "backoff" /\ mq' = [mq EXCEPT !.state = "idle"] /\ joined' = joined /\ broker' = broker
      BY <1>6 DEF Backoff
    <2>2. MqttTyped(mq') /\ mq'.state # "up"
      BY <1>1, <2>1 DEF MqttTyped, MqttShape, MqttFields
    <2> QED
      BY <1>1, <1>2, <2>1, <2>2, NotUp
  <1>7. CASE Reconnect
    <2>1. PICK m : m = Dropped(mq)
      OBVIOUS
    <2>2. mq' = [m EXCEPT !.reconnect = FALSE] /\ Ends(mq)
      BY <1>7, <2>1 DEF Reconnect
    <2>3. MqttTyped(m) /\ m.state # "up"
      BY <1>1, <2>1, DroppedTyped
    <2>4. MqttTyped(mq') /\ mq'.state # "up"
      BY <2>2, <2>3 DEF MqttTyped, MqttShape, MqttFields
    <2> QED
      BY <1>1, <1>2, <2>2, <2>4, EndsShape, NotUp
  <1> QED
    BY <1>3, <1>4, <1>5, <1>6, <1>7

\* A run that starts over sends everything.
LEMMA AllToSend ==
    ASSUME NEW m, MqttTyped(m), m.idx = 0, m.end = N_DISCOVERY, WireTells(m), NEW b, NEW g
    PROVE  Tells(m, b, g)
  <1>1. \A i \in Entities : ToSend(m, i)
    BY PortCount DEF Entities, ToSend
  <1>2. Awaits(m, g) /\ ToBoth(m)
    <2>1. \A s \in Bays : 0 <= FirstTemp(s) /\ FirstTemp(s) + 1 < N_DISCOVERY
      BY TempsOfPort, PortCount DEF Entities
    <2>2. \A s \in Bays : FirstTemp(s) \in Nat
      BY TempsOfPort DEF Entities
    <2> QED
      BY <2>1, <2>2, PortCount DEF Awaits, ToBoth, Restless
  <1> QED
    BY <1>1, <1>2 DEF Tells

LEMMA AcceptedTells ==
    ASSUME TellInv, Accepted
    PROVE  TellInv'
  <1>1. PICK z : z = [s \in Bays |-> 0]
    OBVIOUS
  <1>2. /\ mq' = [mq EXCEPT !.state = "up", !.idx = 0, !.end = N_DISCOVERY, !.temp = z,
                            !.inflight = FALSE, !.wire = {}, !.sub_idx = 0, !.sub_inflight = FALSE]
        /\ labels' = labels /\ port_gen' = port_gen /\ broker' = broker
    BY <1>1 DEF Accepted
  <1>3. z \in Gens /\ N_DISCOVERY \in 0..N_DISCOVERY /\ MqttTyped(mq)
    BY <1>1, PortCount DEF Gens, TellInv
  <1>4. /\ MqttTyped(mq') /\ mq'.state = "up" /\ mq'.idx = 0 /\ mq'.end = N_DISCOVERY
        /\ ~mq'.inflight
    BY ONLY <1>2, <1>3 DEF MqttTyped, MqttShape, MqttFields
  <1>5. Tells(mq', broker', port_gen')
    BY <1>4, AllToSend DEF WireTells
  <1>6. Tells(mq, broker, port_gen)'
    BY <1>2, <1>5, TellsNext
  <1> QED
    BY <1>2, <1>4, <1>6 DEF TellInv, MqttTyped, MqttShape, Gens

LEMMA NamesTell ==
    ASSUME TellInv, mqtt_names_changed
    PROVE  TellInv'
  <1>1. /\ labels' \in Labels /\ port_gen' = port_gen /\ broker' = broker /\ joined' = joined
        /\ mq' = IF mq.state = "up" THEN [mq EXCEPT !.idx = 0, !.end = N_DISCOVERY] ELSE mq
        /\ MqttTyped(mq) /\ N_DISCOVERY \in 0..N_DISCOVERY
    BY PortCount DEF mqtt_names_changed, TellInv
  <1>2. CASE mq.state # "up"
    BY <1>1, <1>2 DEF TellInv, MqttTyped, MqttShape, Gens
  <1>3. CASE mq.state = "up"
    <2>1. mq' = [mq EXCEPT !.idx = 0, !.end = N_DISCOVERY]
      BY <1>1, <1>3
    <2>2. /\ MqttTyped(mq') /\ mq'.idx = 0 /\ mq'.end = N_DISCOVERY /\ mq'.state = mq.state
          /\ mq'.inflight = mq.inflight /\ mq'.wire = mq.wire
      <3>1. MqttTyped(mq) /\ N_DISCOVERY \in 0..N_DISCOVERY
        BY <1>1
      <3>2. MqttTyped(mq') /\ mq'.idx = 0 /\ mq'.end = N_DISCOVERY /\ mq'.state = mq.state
        BY ONLY <2>1, <3>1 DEF MqttTyped, MqttShape, MqttFields
      <3>3. mq'.inflight = mq.inflight
        BY ONLY <2>1, <3>1 DEF MqttTyped, MqttShape, MqttFields
      <3>4. mq'.wire = mq.wire
        BY ONLY <2>1, <3>1 DEF MqttTyped, MqttShape, MqttFields
      <3> QED
        BY <3>2, <3>3, <3>4
    <2>3. WireTells(mq)
      BY <1>3 DEF TellInv, Tells
    <2>4. WireTells(mq)'
      BY <2>2, <2>3 DEF WireTells, Entities
    <2>5. Tells(mq, broker, port_gen)'
      <3>1. \A i \in Entities : ToSend(mq', i)
        BY <2>2, PortCount DEF Entities, ToSend
      <3>2. Awaits(mq', port_gen') /\ ToBoth(mq')
        <4>1. \A s \in Bays : FirstTemp(s) \in Nat /\ FirstTemp(s) + 1 < N_DISCOVERY
          BY TempsOfPort, PortCount DEF Entities
        <4> QED
          BY <2>2, <4>1, PortCount DEF Awaits, ToBoth, Restless
      <3> QED
        BY <2>4, <3>1, <3>2 DEF Tells, ToSend, Awaits, ToBoth, Restless
    <2> QED
      BY <1>1, <1>3, <2>2, <2>5 DEF TellInv, MqttTyped, MqttShape, Gens
  <1> QED
    BY <1>2, <1>3

\* What a subscription and its answer leave alone.
SameRun(m, n) ==
    /\ MqttTyped(n) /\ n.state = m.state /\ n.idx = m.idx /\ n.end = m.end /\ n.temp = m.temp
    /\ n.inflight = m.inflight /\ n.wire = m.wire

LEMMA SameRunTells ==
    ASSUME NEW m, NEW n, SameRun(m, n), NEW b, NEW g, Tells(m, b, g)
    PROVE  Tells(n, b, g)
BY TellsSame DEF SameRun

LEMMA SubscribeTells ==
    ASSUME NEW m, MqttTyped(m), NEW took
    PROVE  SameRun(m, subscribe_step(m, took))
  <1>1. PICK n : n = subscribe_step(m, took)
    OBVIOUS
  <1>2. CASE n = m
    BY <1>1, <1>2 DEF SameRun
  <1>3. CASE n = [m EXCEPT !.sub_idx = @ + 1, !.sub_inflight = TRUE]
    <2>1. PICK k : n = [m EXCEPT !.sub_idx = k, !.sub_inflight = TRUE]
      BY <1>3
    <2>2. SameRun(m, n)
      BY ONLY MqttTyped(m), <2>1 DEF SameRun, MqttTyped, MqttShape, MqttFields
    <2> QED
      BY <1>1, <2>2
  <1> QED
    BY <1>1, <1>2, <1>3 DEF subscribe_step

LEMMA EarlyTells ==
    ASSUME MqttTyped(mq), port_gen \in Gens, labels \in Labels, Tells(mq, broker, port_gen),
           NEW sub \in BOOLEAN, NEW disc \in BOOLEAN, NEW n, n = Early(sub, disc)
    PROVE  MqttTyped(n) /\ Tells(n, broker, port_gen) /\ n.state = mq.state
  <1>1. PICK m : m = subscribe_step(mq, sub)
    OBVIOUS
  <1>2. MqttTyped(m) /\ Tells(m, broker, port_gen) /\ m.state = mq.state
    <2>1. SameRun(mq, m)
      BY <1>1, SubscribeTells
    <2> QED
      BY <2>1, SameRunTells DEF SameRun
  <1>3. n = m \/ n = discovery_step(m, disc)
    BY <1>1 DEF Early
  <1>4. CASE n = discovery_step(m, disc)
    BY <1>2, <1>4, DiscoveryTells
  <1> QED
    BY <1>2, <1>3, <1>4

LEMMA LateTells ==
    ASSUME NEW m, MqttTyped(m), NEW b, port_gen \in Gens, Tells(m, b, port_gen),
           NEW gens \in Gens, gens = port_gen \/ (m.idx >= m.end /\ ~m.inflight),
           NEW s \in Bays, \A r \in Bays \ {s} : gens[r] = port_gen[r],
           NEW telemetry, NEW n, n = Late(m, telemetry, gens)
    PROVE  MqttTyped(n) /\ Tells(n, b, gens) /\ n.state = m.state
  <1>1. PICK k : k = temp_discovery_check(m, gens)
    OBVIOUS
  <1>2. MqttTyped(k) /\ Tells(k, b, gens) /\ k.state = m.state
    BY <1>1, CheckTells
  <1>3. PICK x : n = [k EXCEPT !.stalled = x]
    BY <1>1 DEF Late
  <1>4. SameRun(k, n)
    <2>1. MqttTyped(k)
      BY <1>2
    <2> QED
      BY ONLY <1>3, <2>1 DEF SameRun, MqttTyped, MqttShape, MqttFields
  <1> QED
    BY <1>2, <1>4, SameRunTells DEF SameRun

\* The blades that a telemetry tells of.
ToldOf(m, gens) ==
    /\ gens = port_gen \/ MidRun \/ (m.idx >= m.end /\ ~m.inflight)
    /\ AtOnce \/ \E s \in Bays : \A t \in Bays \ {s} : gens[t] = port_gen[t]
    /\ port_gen' = gens

\* mqtt_poll() after its sending.
Telling(m2, telemetry) ==
    IF telemetry = "not due" THEN mq' = m2 /\ UNCHANGED <<joined, port_gen, broker>>
    ELSE \E gens \in Told :
           /\ gens = port_gen \/ MidRun \/ (m2.idx >= m2.end /\ ~m2.inflight)
           /\ AtOnce \/ \E s \in Bays : \A t \in Bays \ {s} : gens[t] = port_gen[t]
           /\ port_gen' = gens
           /\ LET m3 == [temp_discovery_check(m2, gens) EXCEPT
                           !.stalled = IF telemetry = "out" \/ Stuck(m2, telemetry)
                                       THEN 0 ELSE @ + 1]
              IN  IF Stuck(m2, telemetry) THEN mq' = Dropped(m3) /\ Ends(m2)
                  ELSE mq' = m3 /\ UNCHANGED <<joined, broker>>

LEMMA WorkTold ==
    ASSUME Work
    PROVE  \E sub \in BOOLEAN, disc \in BOOLEAN, telemetry \in Telemetry :
             Telling(Early(sub, disc), telemetry)
BY DEF Work, Telling, Early, Stuck

LEMMA ToldDue ==
    ASSUME NEW m2, NEW telemetry, Telling(m2, telemetry), telemetry # "not due"
    PROVE  \E gens \in Told :
             /\ ToldOf(m2, gens)
             /\ IF Stuck(m2, telemetry)
                THEN mq' = Dropped(Late(m2, telemetry, gens)) /\ Ends(m2)
                ELSE mq' = Late(m2, telemetry, gens) /\ UNCHANGED <<joined, broker>>
BY Zenon DEF Telling, Late, ToldOf

LEMMA WorkTells ==
    ASSUME ~MidRun, ~AtOnce, TellInv, Work
    PROVE  TellInv'
  <1>1. /\ MqttTyped(mq) /\ port_gen \in Gens /\ BrokerShape(broker) /\ labels \in Labels
        /\ mq.state = "up" /\ Tells(mq, broker, port_gen)
    BY DEF TellInv, BrokerShape, Work
  <1>2. labels' = labels
    BY DEF Work
  <1>3. PICK sub \in BOOLEAN, disc \in BOOLEAN, telemetry \in Telemetry :
          Telling(Early(sub, disc), telemetry)
    BY WorkTold
  <1>4. PICK m2 : m2 = Early(sub, disc)
    OBVIOUS
  <1>5. MqttTyped(m2) /\ Tells(m2, broker, port_gen) /\ m2.state = "up"
    BY <1>1, <1>4, EarlyTells
  <1>6. CASE telemetry = "not due"
    <2>1. mq' = m2 /\ joined' = joined /\ port_gen' = port_gen /\ broker' = broker
      BY <1>3, <1>4, <1>6 DEF Telling
    <2>2. Tells(mq, broker, port_gen)'
      BY <1>2, <1>5, <2>1, TellsNext
    <2> QED
      BY <1>1, <1>2, <1>5, <2>1, <2>2 DEF TellInv, BrokerShape, MqttTyped, MqttShape, Gens
  <1>7. CASE telemetry # "not due"
    <2>1. PICK gens \in Gens :
            /\ ToldOf(m2, gens)
            /\ IF Stuck(m2, telemetry)
               THEN mq' = Dropped(Late(m2, telemetry, gens)) /\ Ends(m2)
               ELSE mq' = Late(m2, telemetry, gens) /\ UNCHANGED <<joined, broker>>
      BY <1>3, <1>4, <1>7, ToldDue DEF Told, Gens
    <2>2. PICK s \in Bays : \A r \in Bays \ {s} : gens[r] = port_gen[r]
      BY <2>1 DEF ToldOf
    <2>3. PICK m3 : m3 = Late(m2, telemetry, gens)
      OBVIOUS
    <2>4. MqttTyped(m3) /\ Tells(m3, broker, gens) /\ m3.state = "up"
      <3>1. gens = port_gen \/ (m2.idx >= m2.end /\ ~m2.inflight)
        BY <2>1 DEF ToldOf
      <3> QED
        BY <1>1, <1>5, <2>2, <2>3, <3>1, LateTells
    <2>5. port_gen' = gens
      BY <2>1 DEF ToldOf
    <2>6. CASE Stuck(m2, telemetry)
      <3>1. mq' = Dropped(m3) /\ Ends(m2)
        BY <2>1, <2>3, <2>6
      <3>2. MqttTyped(mq') /\ mq'.state # "up"
        BY <2>4, <3>1, DroppedTyped
      <3> QED
        BY <1>1, <1>2, <2>5, <3>1, <3>2, EndsShape, NotUp
    <2>7. CASE ~Stuck(m2, telemetry)
      <3>1. mq' = m3 /\ joined' = joined /\ broker' = broker
        BY <2>1, <2>3, <2>7
      <3>2. Tells(mq, broker, port_gen)'
        BY <1>2, <2>4, <2>5, <3>1, TellsNext
      <3> QED
        BY <1>1, <1>2, <2>4, <2>5, <3>1, <3>2 DEF TellInv, BrokerShape, MqttTyped, MqttShape, Gens
    <2> QED
      BY <2>6, <2>7
  <1> QED
    BY <1>6, <1>7

LEMMA KeptIs ==
    ASSUME BrokerShape(broker), NEW m, NEW i \in Entities, NEW c, m.wire = {<<i, c>>}
    PROVE  /\ BrokerShape(Kept(m)) /\ Kept(m)[i] = c
           /\ \A j \in Entities \ {i} : Kept(m)[j] = broker[j]
  <1>1. DOMAIN broker = Entities
    BY DEF BrokerShape
  <1>2. Kept(m) = [j \in Entities |-> IF \E w \in m.wire : w[1] = j
                                      THEN (CHOOSE w \in m.wire : w[1] = j)[2] ELSE broker[j]]
    BY <1>1 DEF Kept
  <1>3. BrokerShape(Kept(m))
    BY <1>2 DEF BrokerShape
  <1>4. (CHOOSE w \in m.wire : w[1] = i) = <<i, c>>
    OBVIOUS
  <1>5. Kept(m)[i] = c
    BY <1>2, <1>4
  <1>6. \A j \in Entities \ {i} : Kept(m)[j] = broker[j]
    BY <1>2
  <1> QED
    BY <1>3, <1>5, <1>6

\* The answer to what is under way.
LEMMA AckTells ==
    ASSUME TellInv, discovery_cb
    PROVE  TellInv'
  <1>1. /\ MqttTyped(mq) /\ port_gen \in Gens /\ BrokerShape(broker) /\ labels \in Labels
        /\ joined /\ mq.state = "up" /\ mq.inflight /\ Tells(mq, broker, port_gen)
    BY DEF TellInv, BrokerShape, discovery_cb
  <1>2. labels' = labels /\ port_gen' = port_gen /\ joined' = joined
    BY DEF discovery_cb
  <1>3. PICK ok \in BOOLEAN :
          /\ mq' = [mq EXCEPT !.inflight = FALSE, !.wire = {},
                              !.idx = IF ~ok /\ @ > 0 THEN @ - 1 ELSE @]
          /\ broker' \in IF ok THEN {Kept(mq)} ELSE {broker, Kept(mq)}
    BY DEF discovery_cb
  <1>4. PICK k : k = IF ~ok /\ mq.idx > 0 THEN mq.idx - 1 ELSE mq.idx
    OBVIOUS
  <1>5. k \in Nat /\ k <= mq.idx
    BY <1>1, <1>4 DEF MqttTyped
  <1>6. mq' = [mq EXCEPT !.inflight = FALSE, !.wire = {}, !.idx = k]
    BY <1>3, <1>4
  <1>7. /\ MqttTyped(mq') /\ mq'.idx = k /\ mq'.end = mq.end /\ ~mq'.inflight
        /\ mq'.temp = mq.temp /\ mq'.state = mq.state
    <2>1. MqttTyped(mq) /\ k \in Nat
      BY <1>1, <1>5
    <2> QED
      BY ONLY <1>6, <2>1 DEF MqttTyped, MqttShape, MqttFields
  <1>8. WireTells(mq')
    BY <1>7 DEF WireTells
  <1>9. PICK i \in Entities, c \in Labels \cup {"gone", "fixed"} :
          /\ mq.wire = {<<i, c>>}
          /\ mq.idx = i + 1 => i < mq.end /\ c \in Config(i, mq.temp)
          /\ mq.idx # i + 1 => mq.idx = 0 /\ mq.end = N_DISCOVERY
    BY <1>1 DEF Tells, WireTells
  <1>10. /\ BrokerShape(Kept(mq)) /\ Kept(mq)[i] = c
         /\ \A j \in Entities \ {i} : Kept(mq)[j] = broker[j]
    BY <1>1, <1>9, KeptIs
  <1>11. /\ BrokerShape(broker') /\ (ok => broker'[i] = c)
         /\ \A j \in Entities \ {i} : broker'[j] = broker[j]
    BY <1>1, <1>3, <1>10
  <1>12. Tells(mq', broker', port_gen')
    <2>1. CASE mq.idx = i + 1
      <3>1. i < mq.end /\ c \in Config(i, mq.temp) /\ i \in Nat /\ mq.end \in Nat
        BY <1>1, <1>9, <2>1 DEF Entities, MqttTyped
      <3>2. \A j \in Entities \ {i} : ToSend(mq', j) \/ Has(broker', mq', j)
        <4>1. SUFFICES ASSUME NEW j \in Entities, j # i
                       PROVE  ToSend(mq', j) \/ Has(broker', mq', j)
          OBVIOUS
        <4>2. ToSend(mq, j) \/ Has(broker, mq, j)
          BY <1>1, <2>1, <3>1, <4>1 DEF Tells, OnItsWay, Entities
        <4>3. CASE ToSend(mq, j)
          BY <1>1, <1>5, <1>7, <4>3 DEF ToSend, MqttTyped, Entities
        <4>4. CASE Has(broker, mq, j)
          BY <1>7, <1>11, <4>1, <4>4 DEF Has
        <4> QED
          BY <4>2, <4>3, <4>4
      <3>3. ToSend(mq', i) \/ Has(broker', mq', i)
        <4>1. CASE ok
          <5>1. Config(i, mq.temp) = {c}
            BY <3>1, ConfigIsOne
          <5> QED
            BY <1>7, <1>11, <4>1, <5>1 DEF Has
        <4>2. CASE ~ok
          BY <1>4, <1>7, <2>1, <3>1, <4>2 DEF ToSend
        <4> QED
          BY <4>1, <4>2
      <3>4. Awaits(mq', port_gen')
        <4>1. SUFFICES ASSUME NEW s \in Restless(mq', port_gen')
                       PROVE  mq'.idx <= FirstTemp(s) /\ FirstTemp(s) < mq'.end
          BY DEF Awaits
        <4>2. s \in Restless(mq, port_gen) /\ s \in Bays
          BY <1>2, <1>7 DEF Restless
        <4>3. mq.idx <= FirstTemp(s) /\ FirstTemp(s) < mq.end
          BY <1>1, <4>2 DEF Tells, Awaits
        <4>4. FirstTemp(s) \in Nat /\ mq.idx \in Nat
          BY <1>1, <4>2, TempsOfPort DEF Entities, MqttTyped
        <4> QED
          BY <1>5, <1>7, <4>3, <4>4
      <3>5. ToBoth(mq')
        BY <1>1, <1>7 DEF Tells, ToBoth
      <3> QED
        BY <1>8, <3>2, <3>3, <3>4, <3>5 DEF Tells
    <2>2. CASE mq.idx # i + 1
      <3>1. k = 0 /\ mq.end = N_DISCOVERY
        BY <1>4, <1>9, <2>2
      <3> QED
        BY <1>7, <1>8, <3>1, AllToSend
    <2> QED
      BY <2>1, <2>2
  <1>13. Tells(mq, broker, port_gen)'
    BY <1>2, <1>12, TellsNext
  <1> QED
    BY <1>1, <1>2, <1>7, <1>11, <1>13 DEF TellInv, BrokerShape, MqttTyped, MqttShape, Gens

\* What does not concern discovery.
LEMMA OthersTell ==
    ASSUME TellInv, sub_cb \/ mqtt_reconnect \/ ClockSet \/ UNCHANGED mqtt_vars
    PROVE  TellInv'
  <1>1. /\ MqttTyped(mq) /\ port_gen \in Gens /\ BrokerShape(broker) /\ labels \in Labels
        /\ (joined => mq.state = "up") /\ (mq.state = "up" => Tells(mq, broker, port_gen))
    BY DEF TellInv, BrokerShape
  <1>2. labels' = labels /\ port_gen' = port_gen /\ broker' = broker /\ joined' = joined
    BY DEF sub_cb, mqtt_reconnect, ClockSet, mqtt_vars
  <1>3. SameRun(mq, mq')
    <2>1. CASE sub_cb
      <3>1. PICK k : mq' = [mq EXCEPT !.sub_inflight = FALSE, !.sub_idx = k]
        BY <2>1 DEF sub_cb
      <3>2. MqttTyped(mq)
        BY <1>1
      <3> QED
        BY ONLY <3>1, <3>2 DEF SameRun, MqttTyped, MqttShape, MqttFields
    <2>2. CASE mqtt_reconnect
      <3>1. mq' = [mq EXCEPT !.reconnect = TRUE]
        BY <2>2 DEF mqtt_reconnect
      <3>2. MqttTyped(mq)
        BY <1>1
      <3> QED
        BY ONLY <3>1, <3>2 DEF SameRun, MqttTyped, MqttShape, MqttFields
    <2>3. CASE ClockSet \/ UNCHANGED mqtt_vars
      <3>1. mq' = mq
        BY <2>3 DEF ClockSet, mqtt_vars
      <3> QED
        BY <1>1, <3>1 DEF SameRun
    <2> QED
      BY <2>1, <2>2, <2>3
  <1>4. mq'.state = "up" => Tells(mq, broker, port_gen)'
    <2>1. ASSUME mq'.state = "up"
          PROVE  Tells(mq', broker', port_gen')
      BY <1>1, <1>2, <1>3, <2>1, SameRunTells DEF SameRun
    <2> QED
      BY <1>2, <2>1, TellsNext
  <1>5. MqttTyped(mq') /\ mq'.state = mq.state
    BY <1>3 DEF SameRun
  <1> QED
    BY <1>1, <1>2, <1>4, <1>5 DEF TellInv, BrokerShape, MqttTyped, MqttShape, Gens

LEMMA InitTells == MqttInit => TellInv
  <1> SUFFICES ASSUME MqttInit PROVE TellInv
    OBVIOUS
  <1>1. mq.state = "idle" /\ joined = FALSE /\ labels \in Labels
    BY DEF MqttInit
  <1>2. port_gen \in Gens /\ broker = [i \in Entities |-> broker[i]]
    BY DEF MqttInit, Gens, Entities
  <1>3. MqttTyped(mq)
    <2>1. PICK z : z = [s \in Bays |-> 0]
      OBVIOUS
    <2>2. z \in Gens /\ 0 \in 0..N_DISCOVERY
      BY <2>1, PortCount DEF Gens
    <2>3. mq = [state |-> "idle", reconnect |-> FALSE, idx |-> 0, end |-> 0, inflight |-> FALSE,
                temp |-> z, sub_idx |-> 0, sub_inflight |-> FALSE, stalled |-> 0,
                tls |-> {}, wire |-> {}]
      BY <2>1 DEF MqttInit
    <2> QED
      BY ONLY <2>2, <2>3 DEF MqttTyped, MqttShape, MqttFields
  <1> QED
    BY <1>1, <1>2, <1>3 DEF TellInv

\* Once all is announced the broker has what each entity is now.
LEMMA ToldAll == TellInv => EntitiesAnnounced
  <1> SUFFICES ASSUME TellInv, Announced, NEW i \in DOMAIN broker
               PROVE  Config(i, port_gen) \subseteq {broker[i]}
    BY DEF EntitiesAnnounced
  <1>1. i \in Entities /\ Tells(mq, broker, port_gen) /\ MqttTyped(mq)
    BY DEF TellInv, Announced
  <1>2. mq.idx >= mq.end /\ ~mq.inflight /\ Restless(mq, port_gen) = {}
    BY DEF Announced
  <1>3. ~ToSend(mq, i) /\ ~OnItsWay(mq, i)
    BY <1>1, <1>2 DEF ToSend, OnItsWay, MqttTyped, Entities
  <1>4. Config(i, mq.temp) \subseteq {broker[i]}
    BY <1>1, <1>3 DEF Tells, Has
  <1>5. CASE OfPort(i) /\ TempAt(i) /\ port_gen[PortOf(i)] = 0
    BY <1>5, ConfigUnknown
  <1>6. CASE ~(OfPort(i) /\ TempAt(i) /\ port_gen[PortOf(i)] = 0)
    <2>1. OfPort(i) /\ TempAt(i) => port_gen[PortOf(i)] = mq.temp[PortOf(i)]
      BY <1>1, <1>2, <1>6, EntityOfPort DEF Restless
    <2>2. Config(i, port_gen) = Config(i, mq.temp)
      BY <2>1, ConfigByPort
    <2> QED
      BY <1>4, <2>2
  <1> QED
    BY <1>5, <1>6

\* Once everything has been announced, the broker has the config of every entity
\* with the labels of now, and the thermometers of the slots that hold a gen-3
\* blade and no others (discovery_step(), temp_discovery_check(),
\* mqtt_names_changed()), whatever is refused, lost or renamed on the way: as long
\* as a slot's blade changes neither while entities are announced nor together with
\* another slot's.
THEOREM EveryEntityAnnounced ==
    ASSUME ~MidRun, ~AtOnce
    PROVE  MqttSpec => []EntitiesAnnounced
  <1>1. TellInv /\ [MqttNext]_mqtt_vars => TellInv'
    <2> SUFFICES ASSUME TellInv, [MqttNext]_mqtt_vars PROVE TellInv'
      OBVIOUS
    <2>1. CASE Attempt \/ dns_cb \/ Lost \/ Backoff \/ Reconnect
      BY <2>1, DownTells
    <2>2. CASE Accepted
      BY <2>2, AcceptedTells
    <2>3. CASE Work
      BY <2>3, WorkTells
    <2>4. CASE discovery_cb
      BY <2>4, AckTells
    <2>5. CASE mqtt_names_changed
      BY <2>5, NamesTell
    <2>6. CASE sub_cb \/ mqtt_reconnect \/ ClockSet \/ UNCHANGED mqtt_vars
      BY <2>6, OthersTell
    <2> QED
      BY <2>1, <2>2, <2>3, <2>4, <2>5, <2>6, Zenon DEF MqttNext
  <1> QED
    BY InitTells, <1>1, ToldAll, PTL DEF MqttSpec

------------------------------------------------------------------------------
(* What core 1 will have, once it has taken the queue *)

\* Any naturals have a least.
LEMMA Least ==
    ASSUME NEW T \in SUBSET Nat, T # {}
    PROVE  \E x \in T : \A y \in T : x <= y
  <1> DEFINE R == OpToRel(<, Nat)
  <1>1. IsWellFoundedOn(R, Nat)
    BY NatLessThanWellFounded
  <1>2. \A y, x \in Nat : y < x => <<y, x>> \in R
    BY DEF OpToRel
  <1> HIDE DEF R
  <1>3. PICK x \in T : \A y \in T : ~(<<y, x>> \in R)
    BY <1>1, WFMin
  <1>4. \A y \in T : ~(y < x)
    BY <1>2, <1>3
  <1>5. \A y \in T : x <= y
    BY <1>4
  <1> QED
    BY <1>5

\* Induction, for a set of numbers.
LEMMA Induct ==
    ASSUME NEW S, 0 \in S, \A k \in Nat : k \in S => k + 1 \in S
    PROVE  Nat \subseteq S
  <1> DEFINE T == {k \in Nat : k \notin S}
  <1>1. CASE T = {}
    BY <1>1
  <1>2. CASE T # {}
    <2>1. PICK x \in T : \A y \in T : x <= y
      <3> HIDE DEF T
      <3>1. T \in SUBSET Nat
        BY DEF T
      <3> QED
        BY <1>2, <3>1, Least
    <2>2. x # 0 /\ x - 1 \in Nat
      BY <2>1
    <2>3. x - 1 \in S
      BY <2>1, <2>2
    <2>4. x - 1 + 1 = x
      BY <2>1
    <2> QED
      BY <2>1, <2>2, <2>3, <2>4
  <1> QED
    BY <1>1, <1>2

Taken(e, q) == FoldLeft(Dispatched, e, q)

\* One element of a set of positions after the other, the last one last.
Iterates(g, e, q, D) ==
    g = [s \in SUBSET D |->
           IF s = {} THEN e ELSE Dispatched(g[s \ {Max(s)}], q[Max(s)])]

LEMMA TakenIs == \A e, q : Taken(e, q) = (CHOOSE g : Iterates(g, e, q, DOMAIN q))[DOMAIN q]
  BY Zenon DEF Taken, FoldLeft, MapThenFoldSet, Iterates

LEMMA MaxIs ==
    ASSUME NEW n \in Nat, NEW s \in SUBSET (1..n + 1), n + 1 \in s
    PROVE  Max(s) = n + 1 /\ s \ {Max(s)} \in SUBSET (1..n)
  <1>1. \E x \in s : \A y \in s : x >= y
    OBVIOUS
  <1>2. Max(s) \in s /\ \A y \in s : Max(s) >= y
    BY <1>1 DEF Max
  <1>3. \A y \in s : y \in Nat /\ y <= n + 1
    OBVIOUS
  <1>4. Max(s) = n + 1
    <2>1. Max(s) >= n + 1 /\ Max(s) <= n + 1 /\ Max(s) \in Nat
      BY <1>2, <1>3
    <2> QED
      BY <2>1
  <1> QED
    BY <1>3, <1>4

LEMMA IterationIs ==
    ASSUME NEW e, NEW q, NEW n \in Nat
    PROVE  \E g : Iterates(g, e, q, 1..n)
  <1> DEFINE S == {k \in Nat : \E g : Iterates(g, e, q, 1..k)}
  <1>1. 0 \in S
    <2> DEFINE g == [s \in SUBSET (1..0) |-> e]
    <2>1. \A s \in SUBSET (1..0) : s = {}
      OBVIOUS
    <2>2. Iterates(g, e, q, 1..0)
      BY <2>1 DEF Iterates
    <2> QED
      BY <2>2
  <1>2. ASSUME NEW k \in Nat, k \in S PROVE k + 1 \in S
    <2>1. PICK g : Iterates(g, e, q, 1..k)
      BY <1>2
    <2> DEFINE h == [s \in SUBSET (1..k + 1) |->
                       IF k + 1 \in s THEN Dispatched(g[s \ {k + 1}], q[k + 1]) ELSE g[s]]
    <2>2. ASSUME NEW s \in SUBSET (1..k + 1)
          PROVE  h[s] = IF s = {} THEN e ELSE Dispatched(h[s \ {Max(s)}], q[Max(s)])
      <3>1. CASE k + 1 \in s
        <4>1. Max(s) = k + 1 /\ s \ {Max(s)} \in SUBSET (1..k) /\ s \ {Max(s)} \in SUBSET (1..k + 1)
          BY <3>1, MaxIs
        <4>2. h[s \ {Max(s)}] = g[s \ {Max(s)}]
          BY <4>1
        <4> QED
          BY <3>1, <4>1, <4>2
      <3>2. CASE k + 1 \notin s
        <4>1. s \in SUBSET (1..k) /\ h[s] = g[s]
          BY <3>2
        <4>2. CASE s = {}
          BY <2>1, <4>1, <4>2 DEF Iterates
        <4>3. CASE s # {}
          <5>1. g[s] = Dispatched(g[s \ {Max(s)}], q[Max(s)])
            BY <2>1, <4>1, <4>3 DEF Iterates
          <5>2. s \ {Max(s)} \in SUBSET (1..k + 1) /\ k + 1 \notin s \ {Max(s)}
            BY <3>2
          <5>3. h[s \ {Max(s)}] = g[s \ {Max(s)}]
            BY <5>2
          <5> QED
            BY <4>1, <4>3, <5>1, <5>3
        <4> QED
          BY <4>2, <4>3
      <3> QED
        BY <3>1, <3>2
    <2>3. Iterates(h, e, q, 1..k + 1)
      <3>1. h = [s \in SUBSET (1..k + 1) |-> h[s]]
        OBVIOUS
      <3> HIDE DEF h
      <3> QED
        BY <2>2, <3>1 DEF Iterates
    <2> QED
      BY <2>3
  <1>3. Nat \subseteq S
    <2> HIDE DEF S
    <2> QED
      BY <1>1, <1>2, Induct
  <1> QED
    BY <1>3

LEMMA ChosenIs ==
    ASSUME NEW e, NEW q, NEW n \in Nat
    PROVE  Iterates(CHOOSE g : Iterates(g, e, q, 1..n), e, q, 1..n)
  BY IterationIs, Zenon

LEMMA IterationAgrees ==
    ASSUME NEW e, NEW q, NEW z, NEW n \in Nat, NEW m \in Nat, n <= m, \A i \in 1..n : z[i] = q[i],
           NEW g, Iterates(g, e, q, 1..n), NEW h, Iterates(h, e, z, 1..m)
    PROVE  \A s \in SUBSET (1..n) : h[s] = g[s]
  <1> DEFINE S == {k \in Nat : k <= n => \A s \in SUBSET (1..k) : h[s] = g[s]}
  <1>1. 0 \in S
    <2>1. \A s \in SUBSET (1..0) : s = {}
      OBVIOUS
    <2>2. h[{}] = e /\ g[{}] = e
      BY DEF Iterates
    <2> QED
      BY <2>1, <2>2
  <1>2. ASSUME NEW k \in Nat, k \in S PROVE k + 1 \in S
    <2>1. ASSUME k + 1 <= n, NEW s \in SUBSET (1..k + 1)
          PROVE  h[s] = g[s]
      <3>1. \A t \in SUBSET (1..k) : h[t] = g[t]
        BY <1>2, <2>1
      <3>2. CASE k + 1 \in s
        <4>1. Max(s) = k + 1 /\ s \ {Max(s)} \in SUBSET (1..k)
          BY <3>2, MaxIs
        <4>2. s \in SUBSET (1..n) /\ s \in SUBSET (1..m) /\ s # {}
          BY <2>1, <3>2
        <4>3. g[s] = Dispatched(g[s \ {Max(s)}], q[Max(s)])
          BY <4>2 DEF Iterates
        <4>4. h[s] = Dispatched(h[s \ {Max(s)}], z[Max(s)])
          BY <4>2 DEF Iterates
        <4>5. z[Max(s)] = q[Max(s)]
          BY <2>1, <4>1
        <4> QED
          BY <3>1, <4>1, <4>3, <4>4, <4>5
      <3>3. CASE k + 1 \notin s
        <4>1. s \in SUBSET (1..k)
          BY <3>3
        <4> QED
          BY <3>1, <4>1
      <3> QED
        BY <3>2, <3>3
    <2>2. k + 1 <= n => \A s \in SUBSET (1..k + 1) : h[s] = g[s]
      BY <2>1
    <2> QED
      BY <2>2
  <1>3. Nat \subseteq S
    <2> HIDE DEF S
    <2> QED
      BY <1>1, <1>2, Induct
  <1> QED
    BY <1>3

LEMMA TakenNone == \A e : Taken(e, <<>>) = e
  <1> TAKE e
  <1>1. DOMAIN <<>> = 1..0 /\ 1..0 = {} /\ {} \in SUBSET (1..0)
    OBVIOUS
  <1> DEFINE g == CHOOSE g : Iterates(g, e, <<>>, 1..0)
  <1>2. Iterates(g, e, <<>>, 1..0)
    BY ChosenIs
  <1>3. Taken(e, <<>>) = g[{}]
    BY <1>1, TakenIs
  <1> HIDE DEF g
  <1>4. g[{}] = e
    BY <1>1, <1>2 DEF Iterates
  <1> QED
    BY <1>3, <1>4

LEMMA TakenOne ==
    ASSUME NEW C, NEW q \in Seq(C), NEW c \in C, NEW e
    PROVE  Taken(e, Append(q, c)) = Dispatched(Taken(e, q), c)
  <1> DEFINE n == Len(q)
             z == Append(q, c)
             g == CHOOSE g : Iterates(g, e, q, 1..n)
             h == CHOOSE h : Iterates(h, e, z, 1..n + 1)
  <1>1. /\ n \in Nat /\ DOMAIN q = 1..n /\ DOMAIN z = 1..n + 1
        /\ z[n + 1] = c /\ \A i \in 1..n : z[i] = q[i]
    OBVIOUS
  <1> HIDE DEF n, z
  <1>2. Iterates(g, e, q, 1..n) /\ Iterates(h, e, z, 1..n + 1)
    BY <1>1, ChosenIs
  <1>3. Taken(e, q) = g[1..n] /\ Taken(e, z) = h[1..n + 1]
    BY <1>1, TakenIs
  <1> HIDE DEF g, h
  <1>4. h[1..n] = g[1..n]
    <2>1. n + 1 \in Nat /\ n <= n + 1 /\ 1..n \in SUBSET (1..n)
      BY <1>1
    <2>2. n \in Nat /\ \A i \in 1..n : z[i] = q[i]
      BY <1>1
    <2>3. \A s \in SUBSET (1..n) : h[s] = g[s]
      <3>1. ASSUME NEW m \in Nat, n <= m, Iterates(h, e, z, 1..m)
            PROVE  \A s \in SUBSET (1..n) : h[s] = g[s]
        BY <1>2, <2>2, <3>1, IterationAgrees
      <3> QED
        BY <1>2, <2>1, <3>1
    <2> QED
      BY <2>1, <2>3
  <1>5. n + 1 \in 1..n + 1 /\ (1..n + 1) \ {n + 1} = 1..n /\ 1..n + 1 # {}
    <2>1. n \in Nat
      BY <1>1
    <2>2. \A i \in (1..n + 1) \ {n + 1} : i \in 1..n
      BY <2>1
    <2>3. n + 1 \in 1..n + 1 /\ n + 1 \notin 1..n /\ \A i \in 1..n : i \in 1..n + 1
      BY <2>1
    <2> QED
      BY <2>2, <2>3
  <1>7. 1..n + 1 \in SUBSET (1..n + 1)
    OBVIOUS
  <1>8. Max(1..n + 1) = n + 1
    BY <1>1, <1>5, <1>7, MaxIs
  <1>6. h[1..n + 1] = Dispatched(h[1..n], c)
    <2>1. h[1..n + 1] = Dispatched(h[(1..n + 1) \ {Max(1..n + 1)}], z[Max(1..n + 1)])
      BY <1>2, <1>5, <1>7 DEF Iterates
    <2> QED
      BY <1>1, <1>5, <1>8, <2>1
  <1> QED
    BY <1>3, <1>4, <1>6 DEF z

------------------------------------------------------------------------------
(* The main loop *)

Ops == {"ceiling", "flags", "level", "hold", "budget", "port", "ask"}
Args == BOOLEAN \cup Chassis \cup Holds \cup (0..255) \cup Budgets \cup Ports \cup [p : Ports, on : BOOLEAN]
Commands == {c \in [op : Ops, arg : Args] : c.op = "port" => c.arg \in [p : Ports, on : BOOLEAN]}

Parts == {"up", "ceiling", "flags", "level", "hold", "budget", "on", "untold", "first"}
Engine(e) == e = [f \in Parts |-> e[f]] /\ e.on \subseteq Ports /\ e.untold \subseteq Ports

\* What core 1 will have once it has taken the queue.
Coming == Taken(engine, cmd_q)

\* The cap is in what the queue brings until a port has been touched, and from
\* then on it was in force when the first one was.
CapHolds ==
    /\ cap = [f \in {"on", "first", "held", "boot"} |-> cap[f]] /\ cap.boot \in BOOLEAN
    /\ cap.boot => cap.on = TRUE
    /\ cap.boot => engine.first = {TRUE} \/ (engine.first = {} /\ Coming.ceiling = TRUE)
    /\ at = "power_up" => cap.on = FALSE /\ cap.first = TRUE /\ cap.boot = FALSE /\ cmd_q = <<>>
    /\ at = "launch" => \/ cmd_q = <<>> /\ ~cap.boot
                        \/ cmd_q = Append(<<>>, Cmd("ceiling", TRUE))
    /\ at \in {"power_up", "launch"} => engine.up = FALSE /\ engine.first = {}

Events == Ports \cup {"other"}

LoopTyped ==
    /\ cmd_q \in Seq(Commands) /\ evt_q \in Seq(Events)
    /\ seen = [f \in {"flags", "level", "base", "hold", "evt"} |-> seen[f]]
    /\ at # "taken" => seen.evt = "none"
    /\ Engine(engine) /\ Engine(Coming) /\ Coming.first = engine.first
    /\ conf = [f \in {"level", "budget", "off"} |-> conf[f]] /\ conf.level \in Levels /\ conf.budget \in Budgets
    /\ world = [f \in {"bus", "flags", "dimmed", "hold", "scene"} |-> world[f]]
    /\ world.flags \in Chassis /\ world.hold \in Holds

\* A port whose event is on its way is off; any other is noted as it will be,
\* but one whose event was refused.
NotesFollow ==
    \A p \in Ports : IF Reported(p) THEN p \notin Coming.on
                     ELSE p \in Coming.untold \/ (p \in conf.off <=> p \notin Coming.on)

LEMMA ReportedSame ==
    ASSUME evt_q' = evt_q, seen'.evt = seen.evt
    PROVE  \A p : Reported(p)' <=> Reported(p)
  BY DEF Reported

\* Nothing is reported, and neither a port nor its note changes.
LEMMA FollowsSame ==
    ASSUME evt_q' = evt_q, seen'.evt = seen.evt, conf'.off = conf.off,
           Coming'.on = Coming.on, Coming'.untold = Coming.untold
    PROVE  NotesFollow => NotesFollow'
  BY ReportedSame DEF NotesFollow

LEMMA CommandsAre ==
    /\ \A op \in Ops \ {"port"}, a \in Args : Cmd(op, a) \in Commands
    /\ \A p \in Ports, on \in BOOLEAN : Cmd("port", [p |-> p, on |-> on]) \in Commands
    /\ \A op, a : Cmd(op, a).op = op /\ Cmd(op, a).arg = a
  BY DEF Cmd, Commands, Ops, Args

LEMMA DispatchedIs ==
    ASSUME NEW e, Engine(e), NEW c \in Commands
    PROVE  LET d == Dispatched(e, c)
           IN  /\ Engine(d) /\ d.first = e.first /\ d.up = e.up
               /\ d.ceiling = IF c.op = "ceiling" THEN c.arg ELSE e.ceiling
               /\ c.op # "port" => d.on = e.on /\ d.untold = e.untold
  <1>1. CASE c.op = "ask"
    BY <1>1 DEF Dispatched
  <1>2. CASE c.op = "port"
    <2>1. c.arg.p \in Ports
      BY <1>2 DEF Commands
    <2> QED
      BY <1>2, <2>1 DEF Dispatched, Engine, Parts
  <1>3. CASE c.op \notin {"ask", "port"}
    <2>1. c.op \in {"ceiling", "flags", "level", "hold", "budget"}
      BY <1>3 DEF Commands, Ops
    <2>2. Dispatched(e, c) = [e EXCEPT ![c.op] = c.arg]
      BY <1>3 DEF Dispatched
    <2> QED
      BY <2>1, <2>2 DEF Engine, Parts
  <1> QED
    BY <1>1, <1>2, <1>3

\* The cap, and a port that is switched.
LEMMA CeilingIs ==
    ASSUME NEW e, Engine(e), NEW c \in Commands, c.op = "ceiling", NEW d, d = Dispatched(e, c)
    PROVE  Engine(d) /\ d.on = e.on /\ d.untold = e.untold /\ d.first = e.first /\ d.ceiling = c.arg
  BY DispatchedIs

LEMMA SwitchIs ==
    ASSUME NEW e, Engine(e), NEW p \in Ports, NEW on \in BOOLEAN,
           NEW d, d = Dispatched(e, Cmd("port", [p |-> p, on |-> on]))
    PROVE  /\ Engine(d) /\ d.ceiling = e.ceiling /\ d.first = e.first
           /\ d.on = IF on THEN e.on \cup {p} ELSE e.on \ {p}
           /\ d.untold = e.untold \ {p}
  <1> DEFINE c == Cmd("port", [p |-> p, on |-> on])
  <1>1. c.op = "port" /\ c.arg.p = p /\ c.arg.on = on
    BY DEF Cmd
  <1>2. d = Dispatched(e, c)
    OBVIOUS
  <1> HIDE DEF c
  <1>3. d = [e EXCEPT !.on = IF c.arg.on THEN @ \cup {c.arg.p} ELSE @ \ {c.arg.p},
                      !.untold = @ \ {c.arg.p}]
    BY <1>1, <1>2 DEF Dispatched
  <1> DEFINE on_then == IF on THEN e.on \cup {p} ELSE e.on \ {p}
  <1>4. d = [e EXCEPT !.on = on_then, !.untold = @ \ {p}]
    BY <1>1, <1>3
  <1>5. e.on \subseteq Ports /\ e.untold \subseteq Ports /\ e = [f \in Parts |-> e[f]]
    BY DEF Engine
  <1>6. on_then \subseteq Ports
    BY <1>5
  <1> HIDE DEF on_then
  <1>7. Engine(d) /\ d.ceiling = e.ceiling /\ d.first = e.first /\ d.on = on_then /\ d.untold = e.untold \ {p}
    BY <1>4, <1>5, <1>6 DEF Engine, Parts
  <1> QED
    BY <1>7 DEF on_then

LEMMA PushIs ==
    ASSUME NEW e, NEW q \in Seq(Commands), NEW c \in Commands
    PROVE  /\ ipc_cmd_push(q, c) \in Seq(Commands)
           /\ Taken(e, ipc_cmd_push(q, c)) = IF Takes(q) THEN Dispatched(Taken(e, q), c) ELSE Taken(e, q)
  BY TakenOne DEF ipc_cmd_push, Takes

\* A command that is neither about the cap nor about a port.
Aside(q, z) ==
    /\ z \in Seq(Commands) /\ Engine(Taken(engine, z))
    /\ Taken(engine, z).on = Taken(engine, q).on /\ Taken(engine, z).ceiling = Taken(engine, q).ceiling
    /\ Taken(engine, z).first = Taken(engine, q).first /\ Taken(engine, z).untold = Taken(engine, q).untold

LEMMA AsidePush ==
    ASSUME NEW q \in Seq(Commands), Engine(Taken(engine, q)), NEW c \in Commands, c.op \notin {"ceiling", "port"}
    PROVE  Aside(q, ipc_cmd_push(q, c))
  <1>1. LET d == Dispatched(Taken(engine, q), c)
        IN  /\ Engine(d) /\ d.on = Taken(engine, q).on /\ d.ceiling = Taken(engine, q).ceiling
            /\ d.first = Taken(engine, q).first /\ d.untold = Taken(engine, q).untold
    BY DispatchedIs
  <1> QED
    BY <1>1, PushIs DEF Aside

\* A statement or a callback that sends nothing about the cap or a port.
LEMMA AsideHolds ==
    ASSUME LoopTyped, CapHolds, Aside(cmd_q, cmd_q'), at \notin {"power_up", "launch"}, at' \notin {"power_up", "launch"},
           UNCHANGED <<evt_q, engine, cap, world>>, conf' = [f \in {"level", "budget", "off"} |-> conf'[f]],
           conf'.level \in Levels, conf'.budget \in Budgets, seen'.evt = seen.evt, at' = "taken" <=> at = "taken",
           seen' = [f \in {"flags", "level", "base", "hold", "evt"} |-> seen'[f]]
    PROVE  LoopTyped' /\ CapHolds' /\ (NotesFollow /\ conf'.off = conf.off => NotesFollow')
  <1>1. /\ Engine(Coming') /\ Coming'.on = Coming.on /\ Coming'.ceiling = Coming.ceiling
        /\ Coming'.first = Coming.first /\ Coming'.untold = Coming.untold /\ cmd_q' \in Seq(Commands)
    BY DEF Aside, Coming
  <1>2. LoopTyped'
    BY <1>1 DEF LoopTyped
  <1>3. CapHolds'
    BY <1>1 DEF CapHolds
  <1>4. ASSUME NotesFollow, conf'.off = conf.off PROVE NotesFollow'
    BY <1>1, <1>4, FollowsSame
  <1> QED
    BY <1>2, <1>3, <1>4

LEMMA AppendHas ==
    ASSUME NEW C, NEW q \in Seq(C), NEW c \in C
    PROVE  \A r : (\E i \in DOMAIN Append(q, c) : Append(q, c)[i] = r) <=> r = c \/ \E i \in DOMAIN q : q[i] = r
  <1>1. Len(q) \in Nat /\ DOMAIN Append(q, c) = 1..Len(q) + 1 /\ DOMAIN q = 1..Len(q)
    OBVIOUS
  <1>2. Append(q, c)[Len(q) + 1] = c /\ \A i \in 1..Len(q) : Append(q, c)[i] = q[i]
    OBVIOUS
  <1> DEFINE z == Append(q, c)
             n == Len(q)
  <1> HIDE DEF z, n
  <1>3. n \in Nat /\ DOMAIN z = 1..n + 1 /\ DOMAIN q = 1..n /\ z[n + 1] = c /\ \A i \in 1..n : z[i] = q[i]
    BY <1>1, <1>2 DEF z, n
  <1>4. \A i \in 1..n + 1 : i = n + 1 \/ i \in 1..n
    BY <1>3
  <1>5. n + 1 \in 1..n + 1 /\ \A i \in 1..n : i \in 1..n + 1
    BY <1>3
  <1> QED
    BY <1>3, <1>4, <1>5 DEF z

LEMMA TailHas ==
    ASSUME NEW C, NEW q \in Seq(C), q # <<>>
    PROVE  /\ Tail(q) \in Seq(C) /\ Head(q) \in C
           /\ \A r : (\E i \in DOMAIN q : q[i] = r) <=> r = Head(q) \/ \E i \in DOMAIN Tail(q) : Tail(q)[i] = r
  <1> DEFINE z == Tail(q)
             n == Len(q)
  <1>1. /\ n \in Nat /\ n # 0 /\ DOMAIN z = 1..n - 1 /\ DOMAIN q = 1..n /\ Head(q) = q[1]
        /\ \A i \in 1..n - 1 : z[i] = q[i + 1]
    OBVIOUS
  <1>2. z \in Seq(C) /\ Head(q) \in C
    OBVIOUS
  <1> HIDE DEF z, n
  <1>3. \A i \in 1..n : i = 1 \/ (i - 1 \in 1..n - 1 /\ q[i] = z[i - 1])
    <2> SUFFICES ASSUME NEW i \in 1..n, i # 1 PROVE i - 1 \in 1..n - 1 /\ q[i] = z[i - 1]
      OBVIOUS
    <2>1. i - 1 \in 1..n - 1 /\ (i - 1) + 1 = i
      BY <1>1
    <2>2. z[i - 1] = q[(i - 1) + 1]
      BY <1>1, <2>1
    <2> QED
      BY <2>1, <2>2
  <1>4. 1 \in 1..n /\ \A i \in 1..n - 1 : i + 1 \in 1..n
    BY <1>1
  <1>5. ASSUME NEW r PROVE (\E i \in DOMAIN q : q[i] = r) <=> r = Head(q) \/ \E i \in DOMAIN z : z[i] = r
    <2>1. ASSUME NEW i \in 1..n, q[i] = r, i # 1 PROVE \E j \in 1..n - 1 : z[j] = r
      BY <1>3, <2>1
    <2>2. ASSUME NEW i \in 1..n - 1, z[i] = r PROVE \E j \in 1..n : q[j] = r
      BY <1>1, <1>4, <2>2
    <2> QED
      BY <1>1, <1>4, <2>1, <2>2
  <1> QED
    BY <1>2, <1>5 DEF z

LEMMA InitLoop == MainInit => LoopTyped /\ CapHolds /\ NotesFollow
  <1> SUFFICES ASSUME MainInit PROVE LoopTyped /\ CapHolds /\ NotesFollow
    OBVIOUS
  <1>1. cmd_q = <<>> /\ evt_q = <<>> /\ Coming = engine /\ at = "power_up"
    BY TakenNone DEF MainInit, Coming
  <1>0. PICK b \in Levels, w \in Budgets, f \in Chassis, bus \in Bus, scene \in Scenes :
           /\ conf = [level |-> b, budget |-> w, off |-> {}]
           /\ engine = [up |-> FALSE, ceiling |-> FALSE, flags |-> f, level |-> b, hold |-> 0,
                        budget |-> w, on |-> Ports, untold |-> {}, first |-> {}]
           /\ seen = [flags |-> f, level |-> b, base |-> b, hold |-> 0, evt |-> "none"]
           /\ world = [bus |-> bus, flags |-> f, dimmed |-> FALSE, hold |-> 0, scene |-> scene]
    BY DEF MainInit
  <1>2. Engine(engine) /\ engine.on = Ports /\ engine.up = FALSE /\ engine.first = {}
    BY <1>0 DEF Engine, Parts
  <1>3. /\ conf = [x \in {"level", "budget", "off"} |-> conf[x]] /\ conf.level \in Levels /\ conf.budget \in Budgets
        /\ conf.off = {}
    BY <1>0
  <1>4. /\ world = [x \in {"bus", "flags", "dimmed", "hold", "scene"} |-> world[x]]
        /\ world.flags \in Chassis /\ world.hold \in Holds
    BY <1>0, MainLoopAssumption
  <1>5. CapHolds
    BY <1>1, <1>2 DEF MainInit, CapHolds
  <1>8. seen = [x \in {"flags", "level", "base", "hold", "evt"} |-> seen[x]] /\ seen.evt = "none"
    BY <1>0
  <1>6. LoopTyped
    BY <1>1, <1>2, <1>3, <1>4, <1>8 DEF LoopTyped
  <1>9. \A p \in Ports : ~Reported(p)
    BY <1>1, <1>8, MainLoopAssumption DEF Reported
  <1>7. NotesFollow
    BY <1>1, <1>2, <1>3, <1>9 DEF NotesFollow
  <1> QED
    BY <1>5, <1>6, <1>7

LEMMA LaunchHolds ==
    ASSUME LoopTyped, CapHolds, LaunchCore1
    PROVE  LoopTyped' /\ CapHolds' /\ (NotesFollow => NotesFollow')
  <1>1. /\ at = "launch" /\ at' = "cap" /\ UNCHANGED <<cmd_q, evt_q, conf, cap, world>>
        /\ engine' = [engine EXCEPT !.up = TRUE, !.level = conf.level, !.budget = conf.budget]
        /\ seen' = [seen EXCEPT !.level = conf.level, !.base = conf.level]
    BY DEF LaunchCore1
  <1>2. /\ Engine(engine') /\ engine'.on = engine.on /\ engine'.first = engine.first
        /\ engine'.untold = engine.untold
    BY <1>1 DEF LoopTyped, Engine, Parts
  <1>5. /\ seen' = [f \in {"flags", "level", "base", "hold", "evt"} |-> seen'[f]]
        /\ seen'.evt = seen.evt /\ seen.evt = "none"
    BY <1>1 DEF LoopTyped
  <1>3. CASE cmd_q = <<>> /\ ~cap.boot
    <2>1. Coming' = engine' /\ Coming = engine
      BY <1>1, <1>3, TakenNone DEF Coming
    <2>2. NotesFollow => NotesFollow'
      BY <1>1, <1>2, <1>5, <2>1, FollowsSame
    <2> QED
      BY <1>1, <1>2, <1>3, <1>5, <2>1, <2>2 DEF LoopTyped, CapHolds
  <1>4. CASE cmd_q = Append(<<>>, Cmd("ceiling", TRUE))
    <2> DEFINE c == Cmd("ceiling", TRUE)
    <2>1. c \in Commands /\ c.op = "ceiling" /\ c.arg = TRUE
      <3>1. TRUE \in Args /\ "ceiling" \in Ops \ {"port"}
        BY DEF Ops, Args
      <3> QED
        BY <3>1, CommandsAre, Zenon
    <2>0. <<>> \in Seq(Commands)
      OBVIOUS
    <2> HIDE DEF c
    <2>2. Coming' = Dispatched(engine', c) /\ Coming = Dispatched(engine, c)
      <3>1. \A e : Taken(e, Append(<<>>, c)) = Dispatched(e, c)
        BY <2>0, <2>1, TakenOne, TakenNone
      <3>2. cmd_q = Append(<<>>, c) /\ cmd_q' = Append(<<>>, c)
        BY <1>1, <1>4 DEF c
      <3> QED
        BY <3>1, <3>2 DEF Coming
    <2>3. /\ Engine(Coming') /\ Coming'.ceiling = TRUE /\ Coming'.on = Coming.on
          /\ Coming'.first = engine'.first /\ Coming'.untold = Coming.untold
      <3>1. Engine(engine)
        BY DEF LoopTyped
      <3>2. Dispatched(engine, c).on = engine.on /\ Dispatched(engine, c).untold = engine.untold
        BY <2>1, <3>1, DispatchedIs
      <3>3. LET d == Dispatched(engine', c)
            IN  /\ Engine(d) /\ d.ceiling = TRUE /\ d.on = engine'.on /\ d.first = engine'.first
                /\ d.untold = engine'.untold
        <4>1. ASSUME NEW e, Engine(e)
              PROVE  LET d == Dispatched(e, c)
                     IN  /\ Engine(d) /\ d.ceiling = TRUE /\ d.on = e.on /\ d.first = e.first
                         /\ d.untold = e.untold
          <5>1. LET d == Dispatched(e, c)
                IN  /\ Engine(d) /\ d.first = e.first
                    /\ (c.op # "port" => d.on = e.on /\ d.untold = e.untold)
                    /\ d.ceiling = IF c.op = "ceiling" THEN c.arg ELSE e.ceiling
            BY <2>1, <4>1, DispatchedIs
          <5> QED
            BY <2>1, <5>1
        <4> QED
          BY <1>2, <4>1
      <3> QED
        BY <1>2, <2>2, <3>2, <3>3
    <2>4. NotesFollow => NotesFollow'
      BY <1>1, <1>5, <2>3, FollowsSame
    <2> QED
      BY <1>1, <1>2, <1>5, <2>3, <2>4 DEF LoopTyped, CapHolds
  <1> QED
    BY <1>1, <1>3, <1>4 DEF CapHolds

\* A poll of the cap, which ends at the statement next.
LEMMA PollHolds ==
    ASSUME LoopTyped, CapHolds, NEW next, bus_cap_poll(next),
           (at = "power_up" /\ next = "launch") \/ (at = "cap" /\ next = "flags")
    PROVE  LoopTyped' /\ CapHolds' /\ (NotesFollow => NotesFollow')
  <1> DEFINE new == PolledCap(world.bus)
  <1>1. /\ cap' = new /\ at' = next /\ UNCHANGED <<evt_q, engine, conf, seen, world>>
        /\ cmd_q' = IF new.on = cap.on THEN cmd_q ELSE ipc_cmd_push(cmd_q, Cmd("ceiling", new.on))
    BY DEF bus_cap_poll
  <1>2. /\ new = [f \in {"on", "first", "held", "boot"} |-> new[f]] /\ new.boot \in BOOLEAN
        /\ new.boot => new.on = TRUE
        /\ at # "power_up" /\ new.boot => cap.boot
        /\ at = "power_up" => (new.on = TRUE /\ new.boot) \/ (new.on = FALSE /\ ~new.boot)
        /\ new.on # cap.on => new.on \in BOOLEAN
    BY DEF PolledCap, CapHolds
  <1> HIDE DEF new
  <1>3. CASE new.on = cap.on
    <2>1. Coming' = Coming
      BY <1>1, <1>3 DEF Coming
    <2>2. NotesFollow => NotesFollow'
      BY <1>1, <2>1, FollowsSame
    <2> QED
      BY <1>1, <1>2, <1>3, <2>1, <2>2 DEF LoopTyped, CapHolds
  <1>4. CASE new.on # cap.on
    <2> DEFINE c == Cmd("ceiling", new.on)
    <2>1. c \in Commands /\ c.op = "ceiling" /\ c.arg = new.on
      BY <1>2, <1>4, CommandsAre DEF Ops, Args
    <2>2. cmd_q' = ipc_cmd_push(cmd_q, c)
      BY <1>1, <1>4
    <2> HIDE DEF c
    <2>3. /\ cmd_q' \in Seq(Commands)
          /\ Coming' = IF Takes(cmd_q) THEN Dispatched(Coming, c) ELSE Coming
      BY <1>1, <2>1, <2>2, PushIs DEF Coming, LoopTyped
    <2>4. LET d == Dispatched(Coming, c)
          IN  /\ Engine(d) /\ d.on = Coming.on /\ d.ceiling = new.on /\ d.first = Coming.first
              /\ d.untold = Coming.untold
      <3>1. Engine(Coming)
        BY DEF LoopTyped
      <3> DEFINE d == Dispatched(Coming, c)
      <3>2. Engine(d) /\ d.on = Coming.on /\ d.untold = Coming.untold /\ d.first = Coming.first /\ d.ceiling = c.arg
        <4> HIDE DEF d
        <4>1. d = Dispatched(Coming, c)
          BY DEF d
        <4> QED
          BY <2>1, <3>1, <4>1, CeilingIs
      <3> QED
        BY <2>1, <3>2
    <2>5. LoopTyped' /\ (NotesFollow => NotesFollow')
      <3>1. Coming'.on = Coming.on /\ Coming'.untold = Coming.untold
        BY <2>3, <2>4
      <3>2. NotesFollow => NotesFollow'
        BY <1>1, <3>1, FollowsSame
      <3> QED
        BY <1>1, <2>3, <2>4, <3>2 DEF LoopTyped
    <2>6. CASE at = "power_up"
      <3>1. cmd_q = <<>> /\ Takes(cmd_q) /\ new.on = TRUE /\ new.boot /\ next = "launch"
        <4>1. cmd_q = <<>> /\ cap.on = FALSE /\ next = "launch"
          BY <2>6 DEF CapHolds
        <4>2. new.on = TRUE /\ new.boot
          BY <1>2, <1>4, <2>6, <4>1
        <4>3. Takes(<<>>)
          BY MainLoopAssumption DEF Takes
        <4> QED
          BY <4>1, <4>2, <4>3
      <3>2. cmd_q' = Append(<<>>, Cmd("ceiling", TRUE))
        BY <2>2, <3>1 DEF ipc_cmd_push, Takes, c
      <3> QED
        BY <1>1, <1>2, <2>3, <2>4, <2>5, <2>6, <3>1, <3>2 DEF CapHolds
    <2>7. CASE at = "cap"
      <3>1. ~new.boot
        BY <1>2, <1>4, <2>7 DEF CapHolds
      <3> QED
        BY <1>1, <1>2, <2>5, <2>7, <3>1 DEF CapHolds
    <2> QED
      BY <2>6, <2>7
  <1> QED
    BY <1>3, <1>4

\* What is pushed is in the queue if there was room.
LEMMA EventPush ==
    ASSUME NEW q \in Seq(Events), NEW x \in Events
    PROVE  /\ ipc_evt_push(q, x) \in Seq(Events)
           /\ \A r : (\E i \in DOMAIN ipc_evt_push(q, x) : ipc_evt_push(q, x)[i] = r)
                     <=> (Len(q) < EVT_QUEUE_DEPTH /\ r = x) \/ \E i \in DOMAIN q : q[i] = r
  <1>1. Append(q, x) \in Seq(Events)
    OBVIOUS
  <1>2. \A r : (\E i \in DOMAIN Append(q, x) : Append(q, x)[i] = r) <=> r = x \/ \E i \in DOMAIN q : q[i] = r
    BY AppendHas
  <1> QED
    BY <1>1, <1>2 DEF ipc_evt_push

LEMMA PassHolds ==
    ASSUME LoopTyped, CapHolds, EnginePass
    PROVE  LoopTyped' /\ CapHolds' /\ (NotesFollow => NotesFollow')
  <1> DEFINE Pushes(p, q) == evt_q' = IF p = "none" THEN q ELSE ipc_evt_push(q, p)
             Leaves(p, q) ==
                 engine' = [Coming EXCEPT
                     !.on = @ \ {p},
                     !.untold = IF p # "none" /\ Len(q) >= EVT_QUEUE_DEPTH THEN @ \cup {p} ELSE @,
                     !.first = IF @ = {} THEN {Coming.ceiling} ELSE @]
  <1>1. /\ engine.up /\ cmd_q' = <<>> /\ UNCHANGED <<at, conf, seen, cap, world>>
        /\ \E p \in Coming.on \cup {"none"}, q \in {evt_q, ipc_evt_push(evt_q, "other")} :
             Pushes(p, q) /\ Leaves(p, q)
    BY Zenon DEF EnginePass, Coming, Taken
  <1>2. PICK p \in Coming.on \cup {"none"}, q \in {evt_q, ipc_evt_push(evt_q, "other")} :
             Pushes(p, q) /\ Leaves(p, q)
    BY <1>1, Zenon
  <1>3. /\ Engine(engine') /\ engine'.on = Coming.on \ {p} /\ Coming.on \subseteq Ports
        /\ engine'.untold = IF p # "none" /\ Len(q) >= EVT_QUEUE_DEPTH
                             THEN Coming.untold \cup {p} ELSE Coming.untold
        /\ engine'.first = IF Coming.first = {} THEN {Coming.ceiling} ELSE Coming.first
    BY <1>2 DEF LoopTyped, Engine, Parts
  <1>4. Coming' = engine' /\ Coming.first = engine.first
    BY <1>1, TakenNone DEF Coming, LoopTyped
  <1>5. /\ q \in Seq(Events)
        /\ \A r \in Ports : (\E i \in DOMAIN q : q[i] = r) <=> \E i \in DOMAIN evt_q : evt_q[i] = r
    <2>1. evt_q \in Seq(Events) /\ "other" \in Events /\ "other" \notin Ports
      BY MainLoopAssumption DEF LoopTyped, Events
    <2>2. CASE q = evt_q
      BY <2>1, <2>2
    <2>3. CASE q = ipc_evt_push(evt_q, "other")
      <3>1. /\ ipc_evt_push(evt_q, "other") \in Seq(Events)
            /\ \A r : (\E i \in DOMAIN ipc_evt_push(evt_q, "other") : ipc_evt_push(evt_q, "other")[i] = r)
                      <=> (Len(evt_q) < EVT_QUEUE_DEPTH /\ r = "other") \/ \E i \in DOMAIN evt_q : evt_q[i] = r
        BY <2>1, EventPush
      <3> QED
        BY <2>1, <2>3, <3>1
    <2> QED
      BY <1>2, <2>2, <2>3
  <1>6. /\ evt_q' \in Seq(Events)
        /\ \A r \in Ports : (\E i \in DOMAIN evt_q' : evt_q'[i] = r)
                            <=> \/ p # "none" /\ Len(q) < EVT_QUEUE_DEPTH /\ r = p
                                \/ \E i \in DOMAIN evt_q : evt_q[i] = r
    <2>1. CASE p = "none"
      BY <1>2, <1>5, <2>1
    <2>2. CASE p # "none"
      <3>1. p \in Events /\ evt_q' = ipc_evt_push(q, p)
        BY <1>2, <1>3, <2>2 DEF Events
      <3>2. /\ ipc_evt_push(q, p) \in Seq(Events)
            /\ \A r : (\E i \in DOMAIN ipc_evt_push(q, p) : ipc_evt_push(q, p)[i] = r)
                      <=> (Len(q) < EVT_QUEUE_DEPTH /\ r = p) \/ \E i \in DOMAIN q : q[i] = r
        BY <1>5, <3>1, EventPush
      <3> QED
        BY <1>5, <2>2, <3>1, <3>2
    <2> QED
      BY <2>1, <2>2
  <1> HIDE DEF Pushes, Leaves
  <1>7. LoopTyped'
    BY <1>1, <1>3, <1>4, <1>6 DEF LoopTyped
  <1>8. CapHolds'
    BY <1>1, <1>3, <1>4 DEF CapHolds
  <1>9. ASSUME NotesFollow, NEW r \in Ports
        PROVE  IF Reported(r)' THEN r \notin Coming'.on
               ELSE r \in Coming'.untold \/ (r \in conf'.off <=> r \notin Coming'.on)
    <2>1. /\ Reported(r)' <=> (p # "none" /\ Len(q) < EVT_QUEUE_DEPTH /\ r = p) \/ Reported(r)
          /\ IF Reported(r) THEN r \notin Coming.on
             ELSE r \in Coming.untold \/ (r \in conf.off <=> r \notin Coming.on)
      BY <1>1, <1>6, <1>9 DEF NotesFollow, Reported
    <2>2. Len(q) \in Nat /\ EVT_QUEUE_DEPTH \in Nat /\ "none" \notin Ports /\ conf' = conf
      BY <1>1, <1>5, MainLoopAssumption
    <2>3. CASE p = r /\ Len(q) < EVT_QUEUE_DEPTH
      BY <1>3, <1>4, <2>1, <2>2, <2>3
    <2>4. CASE p = r /\ ~(Len(q) < EVT_QUEUE_DEPTH)
      <3>1. Len(q) >= EVT_QUEUE_DEPTH
        BY <2>2, <2>4
      <3>2. r \in Coming'.untold /\ r \notin Coming'.on
        BY <1>3, <1>4, <2>2, <2>4, <3>1
      <3> QED
        BY <3>2
    <2>5. CASE p # r
      <3>1. r \in Coming'.on <=> r \in Coming.on
        BY <1>3, <1>4, <2>5
      <3>2. r \in Coming.untold => r \in Coming'.untold
        BY <1>3, <1>4
      <3> QED
        BY <2>1, <2>2, <2>5, <3>1, <3>2
    <2> QED
      BY <2>3, <2>4, <2>5
  <1> QED
    BY <1>7, <1>8, <1>9 DEF NotesFollow

\* A port that is switched, and noted if the queue took the command.
LEMMA SwitchHolds ==
    ASSUME LoopTyped, CapHolds, Interrupts, SwitchPort
    PROVE  LoopTyped' /\ CapHolds' /\ (NotesFollow /\ ~Crosses => NotesFollow')
  <1>1. /\ at \notin {"power_up", "launch"} /\ UNCHANGED <<at, evt_q, engine, seen, cap, world>>
    BY DEF Interrupts
  <1>2. PICK p \in Ports, on \in BOOLEAN :
       /\ Crosses \/ ~Reported(p)
       /\ cmd_q' = ipc_cmd_push(cmd_q, Cmd("port", [p |-> p, on |-> on]))
       /\ conf' = IF Takes(cmd_q) THEN Noted(p, on) ELSE conf
    BY DEF SwitchPort
  <1> DEFINE c == Cmd("port", [p |-> p, on |-> on])
  <1>3. c \in Commands /\ c.op = "port" /\ c.arg.p = p /\ c.arg.on = on
    BY CommandsAre
  <1>4. cmd_q' = ipc_cmd_push(cmd_q, c)
    BY <1>2
  <1> HIDE DEF c
  <1>5. cmd_q' \in Seq(Commands) /\ Coming' = IF Takes(cmd_q) THEN Dispatched(Coming, c) ELSE Coming
    BY <1>1, <1>3, <1>4, PushIs DEF Coming, LoopTyped
  <1>6. LET d == Dispatched(Coming, c)
        IN  /\ Engine(d) /\ d.ceiling = Coming.ceiling /\ d.first = Coming.first
            /\ d.on = IF on THEN Coming.on \cup {p} ELSE Coming.on \ {p}
            /\ d.untold = Coming.untold \ {p}
    <2> DEFINE d == Dispatched(Coming, c)
    <2>1. Engine(Coming)
      BY DEF LoopTyped
    <2>2. /\ Engine(d) /\ d.ceiling = Coming.ceiling /\ d.first = Coming.first
          /\ d.on = IF on THEN Coming.on \cup {p} ELSE Coming.on \ {p}
          /\ d.untold = Coming.untold \ {p}
      <3> HIDE DEF d
      <3>1. d = Dispatched(Coming, Cmd("port", [p |-> p, on |-> on]))
        BY DEF d, c
      <3> QED
        BY <2>1, <3>1, SwitchIs
    <2> QED
      BY <2>2
  <1>7. /\ conf' = [f \in {"level", "budget", "off"} |-> conf'[f]]
        /\ conf'.level = conf.level /\ conf'.budget = conf.budget
        /\ conf'.off = IF Takes(cmd_q) THEN IF on THEN conf.off \ {p} ELSE conf.off \cup {p} ELSE conf.off
    BY <1>2 DEF Noted, LoopTyped
  <1>8. LoopTyped'
    BY <1>1, <1>5, <1>6, <1>7 DEF LoopTyped
  <1>9. CapHolds'
    BY <1>1, <1>5, <1>6 DEF CapHolds
  <1>10. ASSUME NotesFollow, ~Crosses PROVE NotesFollow'
    <2>1. ~Reported(p) /\ \A r : Reported(r)' <=> Reported(r)
      BY <1>1, <1>2, <1>10, ReportedSame
    <2>2. CASE Takes(cmd_q)
      BY <1>5, <1>6, <1>7, <1>10, <2>1, <2>2 DEF NotesFollow
    <2>3. CASE ~Takes(cmd_q)
      BY <1>5, <1>7, <1>10, <2>1, <2>3 DEF NotesFollow
    <2> QED
      BY <2>2, <2>3
  <1> QED
    BY <1>8, <1>9, <1>10

LEMMA SendIs ==
    ASSUME LoopTyped, NEW op \in {"flags", "level", "hold", "budget", "ask"}, NEW a \in Args
    PROVE  Aside(cmd_q, ipc_cmd_push(cmd_q, Cmd(op, a))) /\ Aside(cmd_q, cmd_q)
  <1>1. Cmd(op, a) \in Commands /\ Cmd(op, a).op \notin {"ceiling", "port"}
    BY CommandsAre DEF Ops
  <1>2. cmd_q \in Seq(Commands) /\ Engine(Taken(engine, cmd_q))
    BY DEF LoopTyped, Coming
  <1> QED
    BY <1>1, <1>2, AsidePush DEF Aside

\* The other calls of the surfaces.
LEMMA CallHolds ==
    ASSUME LoopTyped, CapHolds, Interrupts, AskPort \/ SetAnyway \/ SetBudget \/ settings_post
    PROVE  LoopTyped' /\ CapHolds' /\ (NotesFollow => NotesFollow')
  <1>1. /\ at \notin {"power_up", "launch"} /\ UNCHANGED <<at, evt_q, engine, seen, cap, world>>
    BY DEF Interrupts
  <1>2. ASSUME NEW b \in Levels, NEW w \in Budgets
        PROVE  b \in Args /\ w \in Args
    BY MainLoopAssumption DEF Args
  <1>3. ASSUME Aside(cmd_q, cmd_q'), conf' = [f \in {"level", "budget", "off"} |-> conf'[f]],
               conf'.level \in Levels, conf'.budget \in Budgets, conf'.off = conf.off
        PROVE  LoopTyped' /\ CapHolds' /\ (NotesFollow => NotesFollow')
    <2>1. /\ seen'.evt = seen.evt /\ (at' = "taken" <=> at = "taken")
          /\ seen' = [f \in {"flags", "level", "base", "hold", "evt"} |-> seen'[f]]
      BY <1>1 DEF LoopTyped
    <2> QED
      BY <1>1, <1>3, <2>1, AsideHolds
  <1>4. CASE AskPort
    <2>1. PICK p \in Ports : cmd_q' = ipc_cmd_push(cmd_q, Cmd("ask", p))
      BY <1>4 DEF AskPort
    <2>2. p \in Args /\ conf' = conf
      BY <1>4 DEF Args, AskPort
    <2>3. Aside(cmd_q, cmd_q')
      BY <2>1, <2>2, SendIs
    <2> QED
      BY <1>3, <2>2, <2>3 DEF LoopTyped
  <1>5. ASSUME NEW w \in Budgets, conf' = [conf EXCEPT !.budget = w],
               cmd_q' = ipc_cmd_push(cmd_q, Cmd("budget", w))
        PROVE  LoopTyped' /\ CapHolds' /\ (NotesFollow => NotesFollow')
    <2>1. Aside(cmd_q, cmd_q')
      BY <1>2, <1>5, SendIs, MainLoopAssumption DEF LoopTyped
    <2> QED
      BY <1>3, <1>5, <2>1 DEF LoopTyped
  <1>6. ASSUME NEW b \in Levels, conf' = [conf EXCEPT !.level = b],
               cmd_q' = ipc_cmd_push(cmd_q, Cmd("level", b))
        PROVE  LoopTyped' /\ CapHolds' /\ (NotesFollow => NotesFollow')
    <2>1. Aside(cmd_q, cmd_q')
      BY <1>2, <1>6, SendIs DEF LoopTyped
    <2> QED
      BY <1>3, <1>6, <2>1 DEF LoopTyped
  <1>7. CASE SetAnyway \/ SetBudget
    <2>1. BudgetsSet \subseteq Budgets /\ LevelsSet \subseteq Levels
      BY DEF BudgetsSet, LevelsSet
    <2> QED
      BY <1>5, <1>6, <1>7, <2>1 DEF SetAnyway, SetBudget
  <1>8. CASE settings_post
    <2>1. PICK w \in BudgetsSet \cup {conf.budget}, b \in LevelsSet \cup {conf.level} :
            LET q == IF w = conf.budget THEN cmd_q ELSE ipc_cmd_push(cmd_q, Cmd("budget", w))
            IN  /\ conf' = [conf EXCEPT !.budget = w, !.level = b]
                /\ cmd_q' = IF b = conf.level THEN q ELSE ipc_cmd_push(q, Cmd("level", b))
      BY <1>8 DEF settings_post
    <2> DEFINE q == IF w = conf.budget THEN cmd_q ELSE ipc_cmd_push(cmd_q, Cmd("budget", w))
    <2>2. w \in Budgets /\ b \in Levels /\ w \in Args /\ b \in Args
      BY <1>2 DEF BudgetsSet, LevelsSet, LoopTyped
    <2>3. Aside(cmd_q, q)
      BY <2>2, SendIs
    <2>4. cmd_q' = IF b = conf.level THEN q ELSE ipc_cmd_push(q, Cmd("level", b))
      BY <2>1
    <2> HIDE DEF q
    <2>5. Aside(q, ipc_cmd_push(q, Cmd("level", b)))
      <3>1. Cmd("level", b) \in Commands /\ Cmd("level", b).op = "level"
        BY <2>2, CommandsAre DEF Ops
      <3> QED
        BY <2>3, <3>1, AsidePush DEF Aside
    <2>6. Aside(cmd_q, cmd_q')
      BY <2>3, <2>4, <2>5 DEF Aside
    <2> QED
      BY <1>3, <2>1, <2>2, <2>6 DEF LoopTyped
  <1> QED
    BY <1>4, <1>7, <1>8

\* The lights and the button.
LEMMA LightsHold ==
    ASSUME LoopTyped, CapHolds, SendFlags \/ SendLevel \/ NoteBase \/ SendHold
    PROVE  LoopTyped' /\ CapHolds' /\ (NotesFollow => NotesFollow')
  <1> DEFINE Aways == {"power_up", "launch", "taken"}
  <1>6. /\ seen'.evt = seen.evt
        /\ seen' = [f \in {"flags", "level", "base", "hold", "evt"} |-> seen'[f]]
    BY DEF SendFlags, SendLevel, NoteBase, SendHold, LoopTyped
  <1>1. ASSUME NEW op \in {"flags", "level", "hold"}, NEW a \in Args, NEW changed, Sends(op, a, changed),
               at \notin Aways, at' \notin Aways
        PROVE  LoopTyped' /\ CapHolds' /\ (NotesFollow => NotesFollow')
    <2>1. Aside(cmd_q, cmd_q')
      BY <1>1, SendIs DEF Sends
    <2> QED
      BY <1>1, <1>6, <2>1, AsideHolds DEF Sends, LoopTyped
  <1>2. CASE SendFlags
    <2>1. world.flags \in Args
      BY DEF LoopTyped, Args
    <2> QED
      BY <1>1, <1>2, <2>1 DEF SendFlags
  <1>3. CASE SendLevel
    <2>1. led_sched_level \in Args
      BY MainLoopAssumption DEF LoopTyped, Args, led_sched_level
    <2> QED
      BY <1>1, <1>3, <2>1 DEF SendLevel
  <1>4. CASE SendHold
    <2>1. world.hold \in Args
      BY DEF LoopTyped, Args
    <2> QED
      BY <1>1, <1>4, <2>1 DEF SendHold
  <1>5. CASE NoteBase
    <2>1. /\ UNCHANGED <<cmd_q, evt_q, engine, conf, cap, world>>
          /\ at \notin Aways /\ at' \notin Aways
      BY <1>5 DEF NoteBase
    <2>2. Aside(cmd_q, cmd_q')
      BY <2>1 DEF Aside, LoopTyped, Coming
    <2> QED
      BY <1>6, <2>1, <2>2, AsideHolds DEF LoopTyped
  <1> QED
    BY <1>2, <1>3, <1>4, <1>5

\* An event is taken: its port is reported still.
LEMMA PopHolds ==
    ASSUME LoopTyped, CapHolds, PopEvent
    PROVE  LoopTyped' /\ CapHolds' /\ (NotesFollow => NotesFollow')
  <1>1. /\ at = "events" /\ at' \in {"cap", "taken"} /\ UNCHANGED <<cmd_q, engine, conf, cap, world>>
        /\ seen.evt = "none"
    BY DEF PopEvent, LoopTyped
  <1>2. Coming' = Coming
    BY <1>1 DEF Coming
  <1>3. CASE at' = "cap" /\ UNCHANGED <<evt_q, seen>>
    <2>1. NotesFollow => NotesFollow'
      BY <1>1, <1>2, <1>3, FollowsSame
    <2> QED
      BY <1>1, <1>2, <1>3, <2>1 DEF LoopTyped, CapHolds
  <1>4. CASE /\ evt_q # <<>> /\ at' = "taken" /\ evt_q' = Tail(evt_q)
             /\ seen' = [seen EXCEPT !.evt = Head(evt_q)]
    <2>1. evt_q \in Seq(Events) /\ evt_q # <<>>
      BY <1>4 DEF LoopTyped
    <2>2. /\ Tail(evt_q) \in Seq(Events) /\ Head(evt_q) \in Events
          /\ \A r : (\E i \in DOMAIN evt_q : evt_q[i] = r)
                    <=> r = Head(evt_q) \/ \E i \in DOMAIN Tail(evt_q) : Tail(evt_q)[i] = r
      BY <2>1, TailHas
    <2>3. /\ seen' = [f \in {"flags", "level", "base", "hold", "evt"} |-> seen'[f]]
          /\ seen'.evt = Head(evt_q)
      BY <1>4 DEF LoopTyped
    <2>4. LoopTyped' /\ CapHolds'
      BY <1>1, <1>2, <1>4, <2>2, <2>3 DEF LoopTyped, CapHolds
    <2>5. \A r \in Ports : Reported(r)' <=> Reported(r)
      BY <1>1, <1>4, <2>2, <2>3, MainLoopAssumption DEF Reported
    <2>6. NotesFollow => NotesFollow'
      BY <1>1, <1>2, <2>5 DEF NotesFollow
    <2> QED
      BY <2>4, <2>6
  <1> QED
    BY <1>3, <1>4 DEF PopEvent

\* It is noted: its port is off, and is noted off.
LEMMA NoteHolds ==
    ASSUME LoopTyped, CapHolds, NoteEvent
    PROVE  LoopTyped' /\ CapHolds' /\ (NotesFollow => NotesFollow')
  <1>1. /\ at = "taken" /\ at' = "events" /\ UNCHANGED <<cmd_q, evt_q, engine, cap, world>>
        /\ seen' = [seen EXCEPT !.evt = "none"]
        /\ conf' = IF seen.evt = "other" THEN conf ELSE Noted(seen.evt, FALSE)
    BY DEF NoteEvent
  <1>2. Coming' = Coming
    BY <1>1 DEF Coming
  <1>3. /\ seen' = [f \in {"flags", "level", "base", "hold", "evt"} |-> seen'[f]] /\ seen'.evt = "none"
        /\ conf' = [f \in {"level", "budget", "off"} |-> conf'[f]]
        /\ conf'.level = conf.level /\ conf'.budget = conf.budget
        /\ conf'.off = IF seen.evt = "other" THEN conf.off ELSE conf.off \cup {seen.evt}
    BY <1>1 DEF Noted, LoopTyped
  <1>4. LoopTyped' /\ CapHolds'
    BY <1>1, <1>2, <1>3 DEF LoopTyped, CapHolds
  <1>5. ASSUME NotesFollow, NEW r \in Ports
        PROVE  IF Reported(r)' THEN r \notin Coming'.on
               ELSE r \in Coming'.untold \/ (r \in conf'.off <=> r \notin Coming'.on)
    <2>1. /\ Reported(r) <=> seen.evt = r \/ Reported(r)'
          /\ IF Reported(r) THEN r \notin Coming.on
             ELSE r \in Coming.untold \/ (r \in conf.off <=> r \notin Coming.on)
      BY <1>1, <1>3, <1>5, MainLoopAssumption DEF NotesFollow, Reported
    <2>2. "other" \notin Ports
      BY MainLoopAssumption
    <2>3. CASE seen.evt = r
      BY <1>2, <1>3, <2>1, <2>2, <2>3
    <2>4. CASE seen.evt # r
      BY <1>2, <1>3, <2>1, <2>4
    <2> QED
      BY <2>3, <2>4
  <1> QED
    BY <1>4, <1>5 DEF NotesFollow

LEMMA LoopHolds ==
    ASSUME LoopTyped, CapHolds, [MainNext]_main_vars
    PROVE  LoopTyped' /\ CapHolds'
  <1>1. CASE Surface
    BY <1>1, SwitchHolds, CallHolds DEF Surface, ApiPost, handle_command, run_line, settings_post
  <1>2. CASE MainStep
    <2>1. CASE PowerUpCap \/ Cap
      BY <2>1, PollHolds DEF PowerUpCap, Cap
    <2> QED
      BY <1>2, <2>1, LaunchHolds, LightsHold, PopHolds, NoteHolds DEF MainStep
  <1>3. CASE WorldMoves \/ UNCHANGED main_vars
    <2>1. UNCHANGED <<at, cmd_q, evt_q, engine, conf, seen, cap>>
      BY <1>3 DEF WorldMoves, main_vars
    <2>2. Coming' = Coming
      BY <2>1 DEF Coming
    <2>3. /\ world' = [f \in {"bus", "flags", "dimmed", "hold", "scene"} |-> world'[f]]
          /\ world'.flags \in Chassis /\ world'.hold \in Holds
      BY <1>3 DEF WorldMoves, main_vars, LoopTyped
    <2> QED
      BY <2>1, <2>2, <2>3 DEF LoopTyped, CapHolds
  <1> QED
    BY <1>1, <1>2, <1>3, PassHolds DEF MainNext

LEMMA FollowsHolds ==
    ASSUME LoopTyped, CapHolds, NotesFollow, ~Crosses, [MainNext]_main_vars
    PROVE  NotesFollow'
  <1>1. CASE Surface
    BY <1>1, SwitchHolds, CallHolds DEF Surface, ApiPost, handle_command, run_line, settings_post
  <1>2. CASE MainStep
    <2>1. CASE PowerUpCap \/ Cap
      BY <2>1, PollHolds DEF PowerUpCap, Cap
    <2> QED
      BY <1>2, <2>1, LaunchHolds, LightsHold, PopHolds, NoteHolds DEF MainStep
  <1>3. CASE WorldMoves \/ UNCHANGED main_vars
    <2>1. UNCHANGED <<cmd_q, evt_q, engine, conf, seen>>
      BY <1>3 DEF WorldMoves, main_vars
    <2>2. Coming' = Coming
      BY <2>1 DEF Coming
    <2> QED
      BY <2>1, <2>2, FollowsSame
  <1> QED
    BY <1>1, <1>2, <1>3, PassHolds DEF MainNext

\* A chassis that powers up on a sagging bus touches its first port under the
\* cap: the command is the first in the queue, which core 1 takes before it
\* ticks a port (main.c, the poll of bus_cap.c before core 1 is launched).
THEOREM CapComesFirst == MainSpec => []CapBeforePorts
  <1>1. MainInit => LoopTyped /\ CapHolds
    BY InitLoop
  <1>2. LoopTyped /\ CapHolds /\ [MainNext]_main_vars => LoopTyped' /\ CapHolds'
    BY LoopHolds
  <1>3. CapHolds => CapBeforePorts
    BY DEF CapHolds, CapBeforePorts
  <1> QED
    BY <1>1, <1>2, <1>3, PTL DEF MainSpec

\* A port is noted off exactly when core 1 has it off, once the queues are
\* taken, whatever either queue refuses and whichever callbacks come between the
\* statements of the loop (main.c, settings_port_admin_note()).  Only of a port
\* that switched itself off with no room to report it nothing follows, until it
\* is switched again.
THEOREM NotedAsSwitched == ASSUME ~Crosses PROVE MainSpec => []AdminFollows
  <1>1. MainInit => LoopTyped /\ CapHolds /\ NotesFollow
    BY InitLoop
  <1>2. LoopTyped /\ CapHolds /\ NotesFollow /\ [MainNext]_main_vars => LoopTyped' /\ CapHolds' /\ NotesFollow'
    BY LoopHolds, FollowsHolds
  <1>3. NotesFollow => AdminFollows
    <2>1. ASSUME NotesFollow, NEW p \in Ports \ Coming.untold
          PROVE  Agrees(p, Coming)
      BY <2>1 DEF NotesFollow, Agrees
    <2> QED
      BY <2>1, Zenon DEF AdminFollows, Coming, Taken
  <1> QED
    BY <1>1, <1>2, <1>3, PTL DEF MainSpec
------------------------------------------------------------------------------
(* What the log sink owes *)

Bytes == {"c", "n"}
Breaks(s) == {p \in DOMAIN s : s[p] = "n"}

LEMMA BreaksAre ==
    ASSUME NEW s \in Seq(Bytes)
    PROVE  /\ IsFiniteSet(Breaks(s)) /\ Newlines(s) = Cardinality(Breaks(s)) /\ Newlines(s) \in Nat
           /\ Len(s) \in Nat /\ DOMAIN s = 1..Len(s)
           /\ Newlines(s) = 0 <=> \A p \in 1..Len(s) : s[p] # "n"
  <1>1. Len(s) \in Nat /\ DOMAIN s = 1..Len(s)
    OBVIOUS
  <1>2. IsFiniteSet(1..Len(s))
    BY <1>1, FS_Interval
  <1>3. IsFiniteSet(Breaks(s))
    BY <1>1, <1>2, FS_Subset DEF Breaks
  <1>4. Newlines(s) = Cardinality(Breaks(s))
    BY Zenon DEF Newlines, Breaks
  <1>5. Newlines(s) \in Nat
    BY <1>3, <1>4, FS_CardinalityType
  <1>6. Newlines(s) = 0 <=> Breaks(s) = {}
    BY <1>3, <1>4, FS_EmptySet
  <1>7. Breaks(s) = {} <=> \A p \in 1..Len(s) : s[p] # "n"
    BY <1>1 DEF Breaks
  <1> QED
    BY <1>1, <1>3, <1>4, <1>5, <1>6, <1>7

\* Newlines fall before a place or after it.
LEMMA CutAt ==
    ASSUME NEW s \in Seq(Bytes), NEW k \in 0..Len(s)
    PROVE  /\ SubSeq(s, 1, k) \in Seq(Bytes) /\ Len(SubSeq(s, 1, k)) = k
           /\ \A p \in 1..k : SubSeq(s, 1, k)[p] = s[p]
           /\ From(s, k + 1) \in Seq(Bytes) /\ Len(From(s, k + 1)) = Len(s) - k
           /\ \A p \in 1..Len(s) - k : From(s, k + 1)[p] = s[k + p]
           /\ Newlines(s) = Newlines(SubSeq(s, 1, k)) + Newlines(From(s, k + 1))
  <1> DEFINE a == SubSeq(s, 1, k)
             b == From(s, k + 1)
             n == Len(s)
  <1>1. n \in Nat /\ DOMAIN s = 1..n /\ \A p \in 1..n : s[p] \in Bytes
    OBVIOUS
  <1>2. a \in Seq(Bytes) /\ Len(a) = k /\ \A p \in 1..k : a[p] = s[p]
    <2>1. k \in Int /\ \A p \in 1..k : s[p] \in Bytes
      BY <1>1
    <2>2. /\ SubSeq(s, 1, k) \in Seq(Bytes) /\ Len(SubSeq(s, 1, k)) = IF 1 <= k THEN k - 1 + 1 ELSE 0
          /\ \A p \in 1..k - 1 + 1 : SubSeq(s, 1, k)[p] = s[1 + p - 1]
      BY <2>1, SubSeqProperties
    <2> QED
      BY <2>2, <1>1
  <1>3. b \in Seq(Bytes) /\ Len(b) = n - k /\ \A p \in 1..n - k : b[p] = s[k + p]
    <2>1. k + 1 \in Int /\ n \in Int /\ \A p \in k + 1..n : s[p] \in Bytes
      BY <1>1
    <2>2. /\ SubSeq(s, k + 1, n) \in Seq(Bytes)
          /\ Len(SubSeq(s, k + 1, n)) = IF k + 1 <= n THEN n - (k + 1) + 1 ELSE 0
          /\ \A p \in 1..n - (k + 1) + 1 : SubSeq(s, k + 1, n)[p] = s[k + 1 + p - 1]
      BY <2>1, SubSeqProperties
    <2>3. n - (k + 1) + 1 = n - k /\ \A p \in Int : k + 1 + p - 1 = k + p
      BY <1>1
    <2>4. b = SubSeq(s, k + 1, n)
      BY DEF From
    <2> HIDE DEF b, n
    <2> QED
      BY <1>1, <2>2, <2>3, <2>4
  <1> HIDE DEF a, b, n
  <1> DEFINE High == {p \in k + 1..n : s[p] = "n"}
             f == [p \in Breaks(b) |-> k + p]
  <1>4. DOMAIN a = 1..k /\ DOMAIN b = 1..n - k
    BY <1>2, <1>3
  <1>5. f \in Bijection(Breaks(b), High)
    <2>1. f \in [Breaks(b) -> High]
      BY <1>1, <1>3, <1>4 DEF Breaks
    <2>2. \A p, q \in Breaks(b) : p # q => f[p] # f[q]
      BY <1>1, <1>4 DEF Breaks
    <2>3. ASSUME NEW t \in High PROVE \E p \in Breaks(b) : f[p] = t
      <3>1. t - k \in 1..n - k /\ k + (t - k) = t
        BY <1>1
      <3>2. t - k \in Breaks(b)
        BY <1>3, <1>4, <3>1 DEF Breaks
      <3> QED
        BY <3>1, <3>2
    <2> HIDE DEF f, High
    <2> QED
      BY <2>1, <2>2, <2>3 DEF Bijection, Injection, Surjection, IsInjective
  <1>6. IsFiniteSet(High) /\ Cardinality(High) = Newlines(b)
    <2>1. IsFiniteSet(Breaks(b)) /\ Newlines(b) = Cardinality(Breaks(b))
      BY <1>3, BreaksAre
    <2>2. ExistsBijection(Breaks(b), High)
      BY <1>5 DEF ExistsBijection
    <2> HIDE DEF High
    <2> QED
      BY <2>1, <2>2, FS_Bijection
  <1>7. IsFiniteSet(Breaks(a)) /\ Newlines(a) = Cardinality(Breaks(a))
    BY <1>2, BreaksAre
  <1>8. Breaks(s) = Breaks(a) \cup High /\ Breaks(a) \cap High = {}
    BY <1>1, <1>2, <1>4 DEF Breaks
  <1>9. Newlines(s) = Newlines(a) + Newlines(b)
    <2>1. Newlines(s) = Cardinality(Breaks(s))
      BY BreaksAre
    <2>2. Cardinality(Breaks(a) \cup High) = Cardinality(Breaks(a)) + Cardinality(High)
                                             - Cardinality(Breaks(a) \cap High)
      <3> HIDE DEF High
      <3> QED
        BY <1>6, <1>7, FS_Union
    <2>3. Newlines(a) \in Nat /\ Newlines(b) \in Nat
      BY <1>2, <1>3, BreaksAre
    <2> HIDE DEF High
    <2>4. Cardinality(Breaks(a) \cap High) = 0
      BY <1>8, FS_EmptySet
    <2>5. Cardinality(Breaks(s)) = Cardinality(Breaks(a) \cup High)
      BY <1>8
    <2> QED
      BY <1>6, <1>7, <2>1, <2>2, <2>3, <2>4, <2>5
  <1> QED
    BY <1>2, <1>3, <1>9 DEF a, b, n
LEMMA JoinAt ==
    ASSUME NEW s \in Seq(Bytes), NEW t \in Seq(Bytes)
    PROVE  s \o t \in Seq(Bytes) /\ Newlines(s \o t) = Newlines(s) + Newlines(t)
  <1> DEFINE z == s \o t
             k == Len(s)
  <1>1. z \in Seq(Bytes) /\ Len(z) = Len(s) + Len(t)
    BY ConcatProperties
  <1>2. \A i \in 1..Len(s) + Len(t) : z[i] = IF i <= Len(s) THEN s[i] ELSE t[i - Len(s)]
    BY ConcatProperties
  <1>3. Len(s) \in Nat /\ Len(t) \in Nat
    OBVIOUS
  <1> HIDE DEF z
  <1>4. /\ SubSeq(z, 1, k) \in Seq(Bytes) /\ Len(SubSeq(z, 1, k)) = k
        /\ \A p \in 1..k : SubSeq(z, 1, k)[p] = z[p]
        /\ From(z, k + 1) \in Seq(Bytes) /\ Len(From(z, k + 1)) = Len(z) - k
        /\ \A p \in 1..Len(z) - k : From(z, k + 1)[p] = z[k + p]
        /\ Newlines(z) = Newlines(SubSeq(z, 1, k)) + Newlines(From(z, k + 1))
    <2>1. k \in 0..Len(z)
      BY <1>1, <1>3
    <2> HIDE DEF k
    <2> QED
      BY <1>1, <2>1, CutAt
  <1>5. SubSeq(z, 1, k) = s
    <2>1. \A p \in 1..k : SubSeq(z, 1, k)[p] = s[p]
      BY <1>2, <1>3, <1>4
    <2> QED
      BY <1>4, <2>1, SeqEqual
  <1>6. From(z, k + 1) = t
    <2>1. ASSUME NEW p \in 1..Len(t) PROVE From(z, k + 1)[p] = t[p]
      <3>1. Len(s) \in Nat /\ Len(t) \in Nat /\ k = Len(s) /\ Len(z) = Len(s) + Len(t)
        BY <1>1, <1>2, <1>3
      <3>2. k + p \in 1..Len(s) + Len(t) /\ ~(k + p <= Len(s)) /\ k + p - Len(s) = p
        BY <3>1
      <3>3. p \in 1..Len(z) - k
        BY <3>1
      <3>4. z[k + p] = t[p]
        BY <1>2, <3>2
      <3> QED
        BY <1>4, <3>3, <3>4
    <2>2. Len(From(z, k + 1)) = Len(t)
      BY <1>1, <1>3, <1>4
    <2> QED
      BY <1>4, <2>1, <2>2, SeqEqual
  <1>7. Newlines(z) = Newlines(s) + Newlines(t)
    BY <1>4, <1>5, <1>6
  <1> QED
    BY <1>1, <1>7 DEF z

\* A line ends at its first newline.
LEMMA FirstIs ==
    ASSUME NEW s \in Seq(Bytes), Newlines(s) > 0
    PROVE  /\ First(s) \in 1..Len(s) /\ From(s, First(s) + 1) \in Seq(Bytes)
           /\ Newlines(From(s, First(s) + 1)) = Newlines(s) - 1
  <1>1. /\ IsFiniteSet(Breaks(s)) /\ Newlines(s) = Cardinality(Breaks(s)) /\ Newlines(s) \in Nat
        /\ Len(s) \in Nat /\ DOMAIN s = 1..Len(s)
        /\ Newlines(s) = 0 <=> \A p \in 1..Len(s) : s[p] # "n"
    BY BreaksAre
  <1>2. Breaks(s) \in SUBSET Nat /\ Breaks(s) # {}
    BY <1>1 DEF Breaks
  <1>3. PICK x \in Breaks(s) : \A y \in Breaks(s) : x <= y
    BY <1>2, Least
  <1>4. x \in 1..Len(s) /\ s[x] = "n" /\ \A q \in 1..(x - 1) : s[q] # "n"
    BY <1>1, <1>3 DEF Breaks
  <1> DEFINE k == First(s)
  <1>5. k \in 1..Len(s) /\ s[k] = "n" /\ \A q \in 1..(k - 1) : s[q] # "n"
    BY <1>4 DEF First
  <1> HIDE DEF k
  <1>6. k \in 0..Len(s)
    BY <1>1, <1>5
  <1>7. /\ SubSeq(s, 1, k) \in Seq(Bytes) /\ Len(SubSeq(s, 1, k)) = k
        /\ \A p \in 1..k : SubSeq(s, 1, k)[p] = s[p]
        /\ From(s, k + 1) \in Seq(Bytes)
        /\ Newlines(s) = Newlines(SubSeq(s, 1, k)) + Newlines(From(s, k + 1))
    BY <1>6, CutAt
  <1> DEFINE a == SubSeq(s, 1, k)
  <1> HIDE DEF a
  <1>8. a \in Seq(Bytes) /\ Len(a) = k /\ \A p \in 1..k : a[p] = s[p]
    BY <1>7 DEF a
  <1>9. Newlines(a) = 1
    <2>1. /\ DOMAIN a = 1..k /\ Newlines(a) = Cardinality(Breaks(a))
      BY <1>8, BreaksAre
    <2>2. \A p \in 1..k : p = k \/ p \in 1..(k - 1)
      BY <1>6
    <2>3. Breaks(a) = {k}
      BY <1>5, <1>8, <2>1, <2>2 DEF Breaks
    <2> QED
      BY <2>1, <2>3, FS_Singleton
  <1>10. Newlines(From(s, k + 1)) \in Nat
    BY <1>7, BreaksAre
  <1>11. Newlines(From(s, k + 1)) = Newlines(s) - 1
    BY <1>1, <1>7, <1>9, <1>10 DEF a
  <1> QED
    BY <1>5, <1>7, <1>11 DEF k

\* Nothing but newlines, or none.
LEMMA AllBreaks ==
    ASSUME NEW s \in Seq(Bytes), \A p \in 1..Len(s) : s[p] = "n"
    PROVE  Newlines(s) = Len(s)
  <1>1. Newlines(s) = Cardinality(Breaks(s)) /\ Len(s) \in Nat /\ DOMAIN s = 1..Len(s)
    BY BreaksAre
  <1>2. Breaks(s) = 1..Len(s)
    BY <1>1 DEF Breaks
  <1>3. Cardinality(1..Len(s)) = Len(s)
    <2>1. 1 \in Int /\ Len(s) \in Int
      BY <1>1
    <2>2. Cardinality(1..Len(s)) = IF 1 > Len(s) THEN 0 ELSE Len(s) - 1 + 1
      BY <2>1, FS_Interval
    <2> QED
      BY <1>1, <2>2
  <1> QED
    BY <1>1, <1>2, <1>3

ReaderFields == {"text", "resync", "dropped", "start", "taken"}

\* What is left to read goes on with a line only after a part of it was taken.
Reader(r) ==
    /\ r = [f \in ReaderFields |-> r[f]]
    /\ r.text \in Seq(Bytes) /\ r.dropped \in Nat /\ r.taken \in Nat
    /\ r.resync \in BOOLEAN /\ r.start \in BOOLEAN /\ (r.resync = FALSE => r.start = TRUE)

\* The lines that r speaks for.
Lines(r) == Newlines(r.text) + r.taken + r.dropped

LEMMA Shifts ==
    ASSUME NEW r, NEW u, NEW a \in Nat, NEW b \in Nat, Newlines(r.text) = a + b, Newlines(u.text) = b,
           r.taken \in Nat, r.dropped \in Nat, u.taken \in Nat, u.dropped \in Nat,
           u.taken + u.dropped = r.taken + r.dropped + a
    PROVE  Lines(u) = Lines(r)
  BY DEF Lines

LEMMA NoBytes == <<>> \in Seq(Bytes) /\ Newlines(<<>>) = 0
  <1>1. <<>> \in Seq(Bytes) /\ Len(<<>>) = 0
    OBVIOUS
  <1>2. \A p \in 1..Len(<<>>) : <<>>[p] = "n"
    BY <1>1
  <1>3. Newlines(<<>>) = Len(<<>>)
    BY <1>1, <1>2, AllBreaks
  <1> QED
    BY <1>1, <1>3

\* A reader whose text is cut at k, with n lines taken or dropped.
LEMMA Moved ==
    ASSUME NEW r, Reader(r), NEW k \in 0..Len(r.text), NEW u, u = [f \in ReaderFields |-> u[f]],
           u.text = From(r.text, k + 1), u.taken \in Nat, u.dropped \in Nat,
           u.resync \in BOOLEAN, u.start \in BOOLEAN, u.resync = FALSE => u.start = TRUE,
           u.taken + u.dropped = r.taken + r.dropped + Newlines(SubSeq(r.text, 1, k))
    PROVE  Reader(u) /\ Lines(u) = Lines(r)
  <1>1. r.text \in Seq(Bytes) /\ r.taken \in Nat /\ r.dropped \in Nat
    BY DEF Reader
  <1> DEFINE s == r.text
             a == SubSeq(s, 1, k)
             b == From(s, k + 1)
  <1>2. a \in Seq(Bytes) /\ b \in Seq(Bytes) /\ Newlines(s) = Newlines(a) + Newlines(b)
    BY <1>1, CutAt
  <1> HIDE DEF a, b, s
  <1>3. Newlines(a) \in Nat /\ Newlines(b) \in Nat
    BY <1>2, BreaksAre
  <1>4. u.text = b /\ u.taken + u.dropped = r.taken + r.dropped + Newlines(a)
    BY DEF a, b, s
  <1>5. Reader(u)
    BY <1>2, <1>4 DEF Reader
  <1>6. Newlines(r.text) = Newlines(a) + Newlines(b) /\ Newlines(u.text) = Newlines(b)
    BY <1>2, <1>4 DEF s
  <1>7. Lines(u) = Lines(r)
    BY <1>1, <1>3, <1>4, <1>6, Shifts
  <1> QED
    BY <1>5, <1>7

LEMMA WrittenIs ==
    ASSUME NEW r, Reader(r), NEW w \in Seq(Bytes)
    PROVE  Reader(Written(r, w)) /\ Lines(Written(r, w)) = Lines(r) + Newlines(w)
  <1> DEFINE all == r.text \o w
             over == Len(all) - LOG_RING_SIZE
             m == [r EXCEPT !.text = all]
  <1>1. all \in Seq(Bytes) /\ Newlines(all) = Newlines(r.text) + Newlines(w) /\ Len(all) \in Nat
    BY JoinAt DEF Reader
  <1>2. LOG_RING_SIZE \in Nat
    BY LogShipAssumption
  <1> HIDE DEF all
  <1>3. Reader(m) /\ m.text = all /\ m.taken = r.taken /\ m.dropped = r.dropped
    BY <1>1 DEF Reader, ReaderFields
  <1>4. Lines(m) = Lines(r) + Newlines(w)
    <2>1. Newlines(r.text) \in Nat /\ Newlines(w) \in Nat /\ r.taken \in Nat /\ r.dropped \in Nat
      BY BreaksAre DEF Reader
    <2> HIDE DEF m
    <2> QED
      BY <1>1, <1>3, <2>1 DEF Lines
  <1>5. CASE over <= 0
    <2>1. Written(r, w) = m
      BY <1>5 DEF Written, all
    <2> QED
      BY <1>3, <1>4, <2>1
  <1>6. CASE ~(over <= 0)
    <2> DEFINE u == [r EXCEPT !.text = From(all, over + 1), !.resync = all[over] # "n",
                              !.dropped = @ + Newlines(SubSeq(all, 1, over)), !.start = all[over] = "n"]
    <2>1. Written(r, w) = u
      BY <1>6 DEF Written, all
    <2>2. over \in 0..Len(m.text)
      BY <1>1, <1>2, <1>3, <1>6
    <2> HIDE DEF over
    <2>3. Newlines(SubSeq(all, 1, over)) \in Nat
      <3>1. SubSeq(all, 1, over) \in Seq(Bytes)
        BY <1>1, <1>3, <2>2, CutAt
      <3> QED
        BY <3>1, BreaksAre
    <2>4. /\ u = [f \in ReaderFields |-> u[f]] /\ u.text = From(all, over + 1)
          /\ u.taken = r.taken /\ u.dropped = r.dropped + Newlines(SubSeq(all, 1, over))
          /\ u.resync = (all[over] # "n") /\ u.start = (all[over] = "n")
      BY DEF Reader, ReaderFields
    <2> HIDE DEF u, m
    <2>5. u.resync \in BOOLEAN /\ u.start \in BOOLEAN /\ (u.resync = FALSE => u.start = TRUE)
      BY <2>4
    <2>6. r.taken \in Nat /\ r.dropped \in Nat
      BY DEF Reader
    <2>7. /\ u.text = From(m.text, over + 1) /\ u.taken \in Nat /\ u.dropped \in Nat
          /\ u.taken + u.dropped = m.taken + m.dropped + Newlines(SubSeq(m.text, 1, over))
      BY <1>3, <2>3, <2>4, <2>6
    <2>8. Reader(u) /\ Lines(u) = Lines(m)
      BY <1>3, <2>2, <2>4, <2>5, <2>7, Moved
    <2> QED
      BY <1>4, <2>1, <2>8
  <1> QED
    BY <1>5, <1>6

\* The newlines before and with the first.
LEMMA FirstLine ==
    ASSUME NEW s \in Seq(Bytes), Newlines(s) > 0
    PROVE  First(s) \in 0..Len(s) /\ Newlines(SubSeq(s, 1, First(s))) = 1
  <1> DEFINE k == First(s)
  <1>1. k \in 1..Len(s) /\ Newlines(From(s, k + 1)) = Newlines(s) - 1
    BY FirstIs
  <1>2. Newlines(s) \in Nat
    BY BreaksAre
  <1> HIDE DEF k
  <1>3. k \in 0..Len(s)
    BY <1>1
  <1>4. SubSeq(s, 1, k) \in Seq(Bytes) /\ Newlines(s) = Newlines(SubSeq(s, 1, k)) + Newlines(From(s, k + 1))
    BY <1>3, CutAt
  <1>5. Newlines(SubSeq(s, 1, k)) \in Nat
    BY <1>4, BreaksAre
  <1>6. Newlines(SubSeq(s, 1, k)) = 1
    BY <1>1, <1>2, <1>4, <1>5
  <1> QED
    BY <1>3, <1>6 DEF k

LEMMA ResyncedIs ==
    ASSUME NEW r, Reader(r)
    PROVE  Reader(Resynced(r)) /\ Lines(Resynced(r)) = Lines(r)
  <1>1. CASE r.resync = FALSE
    BY <1>1 DEF Resynced
  <1>2. CASE r.resync = TRUE
    <2>1. r.text \in Seq(Bytes) /\ Newlines(r.text) \in Nat /\ r.taken \in Nat /\ r.dropped \in Nat /\ r.start \in BOOLEAN
      BY BreaksAre DEF Reader
    <2>2. CASE Newlines(r.text) = 0
      <3> DEFINE u == [r EXCEPT !.text = <<>>]
      <3>1. Resynced(r) = u
        BY <1>2, <2>2 DEF Resynced
      <3>2. Reader(u) /\ u.text = <<>> /\ u.taken = r.taken /\ u.dropped = r.dropped
        BY DEF Reader, ReaderFields
      <3> HIDE DEF u
      <3> QED
        BY <2>2, <3>1, <3>2, NoBytes DEF Lines
    <2>3. CASE Newlines(r.text) # 0
      <3> DEFINE k == First(r.text)
                 u == [r EXCEPT !.text = From(@, First(@) + 1), !.resync = FALSE, !.dropped = @ + 1, !.start = TRUE]
      <3>1. Resynced(r) = u
        BY <1>2, <2>3 DEF Resynced
      <3>2. k \in 0..Len(r.text) /\ Newlines(SubSeq(r.text, 1, k)) = 1
        BY <2>1, <2>3, FirstLine
      <3>3. /\ u = [f \in ReaderFields |-> u[f]] /\ u.text = From(r.text, k + 1)
            /\ u.taken = r.taken /\ u.dropped = r.dropped + 1
            /\ u.resync = FALSE /\ u.start = TRUE
        BY DEF Reader, ReaderFields
      <3> HIDE DEF u, k
      <3>5. /\ u.taken \in Nat /\ u.dropped \in Nat /\ u.resync \in BOOLEAN /\ u.start \in BOOLEAN
            /\ u.resync = FALSE => u.start = TRUE
            /\ u.taken + u.dropped = r.taken + r.dropped + Newlines(SubSeq(r.text, 1, k))
        <4>1. u.taken \in Nat /\ u.dropped \in Nat
          BY <2>1, <3>3
        <4>2. u.resync \in BOOLEAN /\ u.start \in BOOLEAN /\ (u.resync = FALSE => u.start = TRUE)
          BY <3>3
        <4>3. u.taken + u.dropped = r.taken + r.dropped + Newlines(SubSeq(r.text, 1, k))
          BY <2>1, <3>2, <3>3
        <4> QED
          BY <4>1, <4>2, <4>3
      <3>4. Reader(u) /\ Lines(u) = Lines(r)
        BY <3>2, <3>3, <3>5, Moved
      <3> QED
        BY <3>1, <3>4
    <2> QED
      BY <2>2, <2>3
  <1> QED
    BY <1>1, <1>2 DEF Reader

LEMMA UnpaddedIs ==
    ASSUME NEW r, Reader(r)
    PROVE  Reader(Unpadded(r)) /\ Lines(Unpadded(r)) = Lines(r) /\ Unpadded(r).resync = r.resync
  <1> DEFINE s == r.text
             Pads(m) == /\ \A p \in 1..m : s[p] = "n"
                        /\ m = Len(s) \/ s[m + 1] # "n"
             n == CHOOSE m \in 0..Len(s) : Pads(m)
             u == [r EXCEPT !.text = From(s, n + 1), !.start = @ \/ n > 0, !.taken = @ + n]
  <1>1. s \in Seq(Bytes) /\ Len(s) \in Nat /\ r.taken \in Nat /\ r.dropped \in Nat /\ r.start \in BOOLEAN /\ r.resync \in BOOLEAN
    BY DEF Reader
  <1>2. Unpadded(r) = u
    BY DEF Unpadded
  <1>3. \E m \in 0..Len(s) : Pads(m)
    <2> DEFINE T == {m \in 0..Len(s) : m = Len(s) \/ s[m + 1] # "n"}
    <2>1. T \in SUBSET Nat /\ T # {}
      BY <1>1
    <2>2. PICK x \in T : \A y \in T : x <= y
      <3> HIDE DEF T
      <3> QED
        BY <2>1, Least
    <2>3. ASSUME NEW p \in 1..x PROVE s[p] = "n"
      <3>1. p - 1 \in 0..Len(s) /\ p - 1 < x /\ p - 1 + 1 = p
        BY <1>1, <2>2
      <3>2. p - 1 \notin T
        <4>1. x \in Nat /\ p - 1 \in Nat /\ ~(x <= p - 1)
          BY <2>2, <3>1
        <4> HIDE DEF T
        <4> QED
          BY <2>2, <4>1
      <3> QED
        BY <3>1, <3>2
    <2> QED
      BY <2>2, <2>3
  <1>4. n \in 0..Len(s) /\ Pads(n)
    BY <1>3
  <1> HIDE DEF n
  <1>5. Newlines(SubSeq(s, 1, n)) = n
    <2> DEFINE a == SubSeq(s, 1, n)
    <2>1. a \in Seq(Bytes) /\ Len(a) = n /\ \A p \in 1..n : a[p] = s[p]
      BY <1>1, <1>4, CutAt
    <2> HIDE DEF a
    <2>2. \A p \in 1..Len(a) : a[p] = "n"
      BY <1>4, <2>1
    <2>3. Newlines(a) = n
      BY <2>1, <2>2, AllBreaks
    <2> QED
      BY <2>3 DEF a
  <1>6. /\ u = [f \in ReaderFields |-> u[f]] /\ u.text = From(s, n + 1)
        /\ u.taken = r.taken + n /\ u.dropped = r.dropped /\ u.resync = r.resync
        /\ u.start = (r.start \/ n > 0)
    BY DEF Reader, ReaderFields
  <1> HIDE DEF u, s, Pads
  <1>7. u.start \in BOOLEAN /\ (u.resync = FALSE => u.start = TRUE)
    BY <1>6 DEF Reader
  <1>8. Reader(u) /\ Lines(u) = Lines(r)
    <2>1. /\ u.taken \in Nat /\ u.dropped \in Nat /\ u.resync \in BOOLEAN
          /\ u.taken + u.dropped = r.taken + r.dropped + Newlines(SubSeq(r.text, 1, n))
          /\ n \in 0..Len(r.text) /\ u.text = From(r.text, n + 1)
      BY <1>1, <1>4, <1>5, <1>6 DEF s
    <2> QED
      BY <1>6, <1>7, <2>1, Moved
  <1> QED
    BY <1>2, <1>6, <1>8

LEMMA NextLineIs ==
    ASSUME NEW r, Reader(r)
    PROVE  Reader(NextLine(r).to) /\ Lines(NextLine(r).to) = Lines(r) /\ NextLine(r).line \subseteq {TRUE}
  <1> DEFINE s == Resynced(r)
             u == Unpadded(s)
             z == NextLine(r)
  <1> SUFFICES Reader(z.to) /\ Lines(z.to) = Lines(r) /\ z.line \subseteq {TRUE}
    OBVIOUS
  <1>1. Reader(s) /\ Lines(s) = Lines(r)
    BY ResyncedIs
  <1>2. Reader(u) /\ Lines(u) = Lines(r) /\ u.resync = s.resync
    BY <1>1, UnpaddedIs
  <1> DEFINE k == First(u.text)
             a == [u EXCEPT !.text = From(@, First(@) + 1), !.start = TRUE, !.taken = @ + 1]
             b == [u EXCEPT !.text = From(@, LOG_LINE_MAX + 1)]
             quiet == s.resync \/ u.text = <<>>
  <1>3. \/ ~quiet /\ Newlines(u.text) > 0 /\ z = [to |-> a, line |-> {u.start}]
        \/ ~quiet /\ ~(Newlines(u.text) > 0) /\ Len(u.text) >= LOG_LINE_MAX /\ z = [to |-> b, line |-> {u.start}]
        \/ z = [to |-> s, line |-> {}]
        \/ z = [to |-> u, line |-> {}]
    BY Zenon DEF NextLine
  <1>4. ~quiet => u.resync = FALSE /\ u.start = TRUE
    BY <1>1, <1>2 DEF Reader
  <1> HIDE DEF s, u, z, quiet
  <1>5. /\ u.text \in Seq(Bytes) /\ Newlines(u.text) \in Nat /\ u.taken \in Nat /\ u.dropped \in Nat
        /\ Len(u.text) \in Nat
    BY <1>2, BreaksAre DEF Reader
  <1>6. CASE ~quiet /\ Newlines(u.text) > 0 /\ z = [to |-> a, line |-> {u.start}]
    <2>1. k \in 0..Len(u.text) /\ Newlines(SubSeq(u.text, 1, k)) = 1
      BY <1>5, <1>6, FirstLine
    <2>2. /\ a = [f \in ReaderFields |-> a[f]] /\ a.text = From(u.text, k + 1)
          /\ a.taken = u.taken + 1 /\ a.dropped = u.dropped
          /\ a.resync = FALSE /\ a.start = TRUE
      BY <1>2, <1>4, <1>6 DEF Reader, ReaderFields
    <2> HIDE DEF a, k
    <2>4. /\ a.taken \in Nat /\ a.dropped \in Nat /\ a.resync \in BOOLEAN /\ a.start \in BOOLEAN
          /\ a.resync = FALSE => a.start = TRUE
          /\ a.taken + a.dropped = u.taken + u.dropped + Newlines(SubSeq(u.text, 1, k))
      <3>1. a.taken \in Nat /\ a.dropped \in Nat
        BY <1>5, <2>2
      <3>2. a.resync \in BOOLEAN /\ a.start \in BOOLEAN /\ (a.resync = FALSE => a.start = TRUE)
        BY <2>2
      <3>3. a.taken + a.dropped = u.taken + u.dropped + Newlines(SubSeq(u.text, 1, k))
        BY <1>5, <2>1, <2>2
      <3> QED
        BY <3>1, <3>2, <3>3
    <2>3. Reader(a) /\ Lines(a) = Lines(u)
      BY <1>2, <2>1, <2>2, <2>4, Moved
    <2>5. z.to = a /\ z.line = {TRUE}
      BY <1>4, <1>6
    <2> QED
      BY <1>2, <2>3, <2>5
  <1>7. CASE ~quiet /\ ~(Newlines(u.text) > 0) /\ Len(u.text) >= LOG_LINE_MAX /\ z = [to |-> b, line |-> {u.start}]
    <2>1. LOG_LINE_MAX \in 0..Len(u.text)
      BY <1>5, <1>7, LogShipAssumption
    <2>2. Newlines(SubSeq(u.text, 1, LOG_LINE_MAX)) = 0
      <3> DEFINE c == SubSeq(u.text, 1, LOG_LINE_MAX)
                 d == From(u.text, LOG_LINE_MAX + 1)
      <3>1. c \in Seq(Bytes) /\ d \in Seq(Bytes) /\ Newlines(u.text) = Newlines(c) + Newlines(d)
        BY <1>5, <2>1, CutAt
      <3> HIDE DEF c, d
      <3>2. Newlines(c) \in Nat /\ Newlines(d) \in Nat
        BY <3>1, BreaksAre
      <3>3. Newlines(c) = 0
        BY <1>5, <1>7, <3>1, <3>2
      <3> QED
        BY <3>3 DEF c
    <2>3. /\ b = [f \in ReaderFields |-> b[f]] /\ b.text = From(u.text, LOG_LINE_MAX + 1)
          /\ b.taken = u.taken /\ b.dropped = u.dropped
          /\ b.resync = FALSE /\ b.start = TRUE
      BY <1>2, <1>4, <1>7 DEF Reader, ReaderFields
    <2> HIDE DEF b
    <2>5. /\ b.taken \in Nat /\ b.dropped \in Nat /\ b.resync \in BOOLEAN /\ b.start \in BOOLEAN
          /\ b.resync = FALSE => b.start = TRUE
          /\ b.taken + b.dropped = u.taken + u.dropped + Newlines(SubSeq(u.text, 1, LOG_LINE_MAX))
      <3>1. b.taken \in Nat /\ b.dropped \in Nat
        BY <1>5, <2>3
      <3>2. b.resync \in BOOLEAN /\ b.start \in BOOLEAN /\ (b.resync = FALSE => b.start = TRUE)
        BY <2>3
      <3>3. b.taken + b.dropped = u.taken + u.dropped + Newlines(SubSeq(u.text, 1, LOG_LINE_MAX))
        BY <1>5, <2>2, <2>3
      <3> QED
        BY <3>1, <3>2, <3>3
    <2>4. Reader(b) /\ Lines(b) = Lines(u)
      BY <1>2, <2>1, <2>3, <2>5, Moved
    <2>6. z.to = b /\ z.line = {TRUE}
      BY <1>4, <1>7
    <2> QED
      BY <1>2, <2>4, <2>6
  <1>8. CASE z = [to |-> s, line |-> {}] \/ z = [to |-> u, line |-> {}]
    <2>1. (z.to = s \/ z.to = u) /\ z.line = {}
      BY <1>8
    <2> QED
      BY <1>1, <1>2, <2>1
  <1> QED
    BY <1>3, <1>6, <1>7, <1>8

\* What was dropped is told, and no longer counted.
LEMMA ToldOnce ==
    ASSUME NEW r, Reader(r)
    PROVE  LET z == [r EXCEPT !.dropped = 0] IN Reader(z) /\ Lines(z) = Lines(r) - r.dropped
  <1> DEFINE z == [r EXCEPT !.dropped = 0]
  <1>1. /\ Reader(z) /\ z.text = r.text /\ z.taken = r.taken /\ z.dropped = 0
        /\ r.text \in Seq(Bytes) /\ r.taken \in Nat /\ r.dropped \in Nat
    BY DEF Reader, ReaderFields
  <1> HIDE DEF z
  <1>2. Newlines(r.text) \in Nat
    BY <1>1, BreaksAre
  <1>3. Lines(z) = Lines(r) - r.dropped
    BY <1>1, <1>2 DEF Lines
  <1> QED
    BY <1>1, <1>3 DEF z

LEMMA LinesInt == ASSUME NEW r, Reader(r) PROVE Lines(r) \in Int /\ r.dropped \in Int
  BY BreaksAre DEF Reader, Lines

LEMMA DrainedIs ==
    ASSUME NEW r, Reader(r), NEW left
    PROVE  /\ Reader(Drained(r, left).to) /\ Drained(r, left).lost \in Int
           /\ Lines(Drained(r, left).to) + Drained(r, left).lost = Lines(r)
           /\ Drained(r, left).line \subseteq {TRUE}
  <1> DEFINE x == [r EXCEPT !.dropped = 0]
             one == NextLine(x)
             y == [one.to EXCEPT !.dropped = 0]
             two == NextLine(y)
             d == Drained(r, left)
  <1> SUFFICES Reader(d.to) /\ Lines(d.to) + d.lost = Lines(r) /\ d.line \subseteq {TRUE} /\ d.lost \in Int
    OBVIOUS
  <1>1. Reader(x) /\ Lines(x) = Lines(r) - r.dropped
    BY ToldOnce
  <1>2. Reader(one.to) /\ Lines(one.to) = Lines(x) /\ one.line \subseteq {TRUE}
    BY <1>1, NextLineIs
  <1>3. Reader(y) /\ Lines(y) = Lines(one.to) - one.to.dropped
    BY <1>2, ToldOnce
  <1>4. Reader(two.to) /\ Lines(two.to) = Lines(y) /\ two.line \subseteq {TRUE}
    BY <1>3, NextLineIs
  <1>5. \/ d = [to |-> one.to, line |-> one.line, lost |-> r.dropped]
        \/ d = [to |-> two.to, line |-> one.line \cup two.line, lost |-> r.dropped + one.to.dropped]
    BY Zenon DEF Drained
  <1>6. /\ Lines(r) \in Int /\ r.dropped \in Int /\ Lines(one.to) \in Int /\ one.to.dropped \in Int
        /\ Lines(two.to) \in Int
    <2> HIDE DEF one, two, x, y
    <2> QED
      BY <1>2, <1>4, LinesInt
  <1> HIDE DEF one, two, x, y, d
  <1>7. CASE d = [to |-> one.to, line |-> one.line, lost |-> r.dropped]
    <2>1. d.to = one.to /\ d.line = one.line /\ d.lost = r.dropped
      BY <1>7
    <2>2. Lines(d.to) + d.lost = Lines(r)
      <3>1. Lines(d.to) = Lines(one.to)
        BY <2>1
      <3> QED
        BY <1>1, <1>2, <1>6, <2>1, <3>1
    <2> QED
      BY <1>2, <1>6, <2>1, <2>2
  <1>8. CASE d = [to |-> two.to, line |-> one.line \cup two.line, lost |-> r.dropped + one.to.dropped]
    <2>1. d.to = two.to /\ d.line = one.line \cup two.line /\ d.lost = r.dropped + one.to.dropped
      BY <1>8
    <2>2. Lines(d.to) + d.lost = Lines(r)
      <3>1. Lines(d.to) = Lines(two.to)
        BY <2>1
      <3> QED
        BY <1>1, <1>2, <1>3, <1>4, <1>6, <2>1, <3>1
    <2>3. Reader(d.to) /\ d.line \subseteq {TRUE}
      BY <1>2, <1>4, <2>1
    <2>4. d.lost \in Int
      BY <1>6, <2>1
    <2> QED
      BY <2>2, <2>3, <2>4
  <1> QED
    BY <1>5, <1>7, <1>8

ShipHolds ==
    /\ Reader(reader) /\ ended \in Int /\ told \in Int
    /\ ended = Lines(reader) + told /\ sent.whole = TRUE

LEMMA PrintedHolds == ASSUME ShipHolds, NEW w \in Writes, Printed(w) PROVE ShipHolds'
  <1>1. w \in Seq(Bytes)
    BY LogShipAssumption DEF Bytes
  <1> DEFINE z == Written(reader, w)
  <1>2. Reader(z) /\ Lines(z) = Lines(reader) + Newlines(w) /\ Lines(reader) \in Int /\ Newlines(w) \in Int
    BY <1>1, WrittenIs, LinesInt, BreaksAre DEF ShipHolds
  <1>3. reader' = z /\ ended' = ended + Newlines(w) /\ told' = told /\ sent' = sent
    BY DEF Printed
  <1> HIDE DEF z
  <1>4. Reader(reader') /\ Lines(reader') = Lines(reader) + Newlines(w)
    BY <1>2, <1>3
  <1> QED
    BY <1>2, <1>3, <1>4 DEF ShipHolds

LEMMA PollShips == ASSUME ShipHolds, log_sink_poll PROVE ShipHolds'
  <1> DEFINE fresh == IF NewHost THEN [reader EXCEPT !.dropped = 0] ELSE reader
             d == Drained(fresh, LINES_PER_POLL)
  <1>1. /\ Reader(reader) /\ Lines(reader) \in Int /\ reader.dropped \in Int
    BY LinesInt DEF ShipHolds
  <1>2. Reader(fresh) /\ Lines(fresh) + reader.dropped - fresh.dropped = Lines(reader) /\ fresh.dropped \in Int
    <2>1. CASE NewHost
      <3>1. fresh = [reader EXCEPT !.dropped = 0]
        BY <2>1
      <3>2. [reader EXCEPT !.dropped = 0].dropped = 0
        BY <1>1 DEF Reader, ReaderFields
      <3> HIDE DEF fresh
      <3> QED
        BY <1>1, <3>1, <3>2, ToldOnce, LinesInt
    <2>2. CASE ~NewHost
      BY <1>1, <2>2
    <2> QED
      BY <2>1, <2>2
  <1>3. Reader(d.to) /\ Lines(d.to) + d.lost = Lines(fresh) /\ d.line \subseteq {TRUE} /\ d.lost \in Int
    <2> HIDE DEF fresh
    <2> QED
      BY <1>2, DrainedIs
  <1>4. /\ ended' = ended
        /\ \/ /\ reader' = d.to /\ told' = told + d.lost + reader.dropped - fresh.dropped
              /\ sent' = IF d.line = {} THEN sent ELSE [to |-> address', as |-> host, whole |-> d.line = {TRUE}]
           \/ /\ reader' = fresh /\ told' = told + reader.dropped - fresh.dropped /\ sent' = sent
    BY DEF log_sink_poll
  <1>5. Lines(fresh) \in Int /\ Lines(d.to) \in Int
    <2> HIDE DEF fresh, d
    <2> QED
      BY <1>2, <1>3, LinesInt
  <1> HIDE DEF fresh, d
  <1>6. CASE /\ reader' = d.to /\ told' = told + d.lost + reader.dropped - fresh.dropped
             /\ sent' = IF d.line = {} THEN sent ELSE [to |-> address', as |-> host, whole |-> d.line = {TRUE}]
    <2>1. sent'.whole = TRUE
      BY <1>3, <1>6 DEF ShipHolds
    <2>2. Reader(reader') /\ Lines(reader') = Lines(d.to)
      BY <1>3, <1>6
    <2> QED
      <3>1. told' = told + d.lost + reader.dropped - fresh.dropped /\ ended' = ended
        BY <1>4, <1>6
      <3>2. ended \in Int /\ told \in Int /\ ended = Lines(reader) + told
        BY DEF ShipHolds
      <3>3. ended' = Lines(reader') + told' /\ told' \in Int /\ ended' \in Int
        BY <1>1, <1>2, <1>3, <1>5, <2>2, <3>1, <3>2
      <3> QED
        BY <2>1, <2>2, <3>3 DEF ShipHolds
  <1>7. CASE reader' = fresh /\ told' = told + reader.dropped - fresh.dropped /\ sent' = sent
    <2>1. Reader(reader') /\ Lines(reader') = Lines(fresh)
      BY <1>2, <1>7
    <2> QED
      BY <1>1, <1>2, <1>4, <1>5, <1>7, <2>1 DEF ShipHolds
  <1> QED
    BY <1>4, <1>6, <1>7

LEMMA ShipInitHolds == ShipInit => ShipHolds
  <1> SUFFICES ASSUME ShipInit PROVE ShipHolds
    OBVIOUS
  <1>3. /\ reader = [text |-> <<>>, resync |-> FALSE, dropped |-> 0, start |-> TRUE, taken |-> 0]
        /\ sent.whole = TRUE /\ ended = 0 /\ told = 0
    BY DEF ShipInit
  <1>4. Reader(reader) /\ Lines(reader) = 0
    BY <1>3, NoBytes DEF Reader, ReaderFields, Lines
  <1> QED
    BY <1>3, <1>4 DEF ShipHolds

LEMMA ShipStep == ShipHolds /\ [ShipNext]_ship_vars => ShipHolds'
  <1> SUFFICES ASSUME ShipHolds, [ShipNext]_ship_vars PROVE ShipHolds'
    OBVIOUS
  <1>1. CASE UNCHANGED <<reader, sent, ended, told>>
    BY <1>1 DEF ShipHolds
  <1>2. CASE \E w \in Writes : Printed(w)
    BY <1>2, PrintedHolds
  <1>3. CASE ResolveDue \/ UNCHANGED ship_vars \/ \E h \in Hosts : sink_dns_cb(h) \/ SetHost(h)
    BY <1>1, <1>3 DEF ResolveDue, ship_vars, sink_dns_cb, SetHost
  <1> QED
    BY <1>2, <1>3, PollShips DEF ShipNext

\* Every line that was printed is in the ring, was taken, or is in the count
\* of those that were lost, exactly once, whatever comes round (log_ring.c,
\* the reader that log_ring_write() moves); and no datagram starts in the
\* middle of a line whose beginning was lost (log_ring_next_line()).
THEOREM NoLineUncounted == ShipSpec => []LinesAccounted
  <1>1. ShipHolds => LinesAccounted
    <2> SUFFICES ASSUME ShipHolds PROVE LinesAccounted
      OBVIOUS
    <2> QED
      BY DEF ShipHolds, LinesAccounted, Lines
  <1> QED
    BY <1>1, ShipInitHolds, ShipStep, PTL DEF ShipSpec

------------------------------------------------------------------------------
(* The fan *)

\* The hold of a change runs out when the change is as old as the hold.
FanType ==
    /\ ms \in 0..(WRAP - 1) /\ felt \in [since : 1..FAN_MIN_HOLD_MS, waited : Nat]
    /\ fan \in [on : BOOLEAN, auto : BOOLEAN, manual : BOOLEAN, hold : 0..(WRAP - 1)]
HoldRuns ==
    felt.since < FAN_MIN_HOLD_MS =>
       fan.auto /\ fan.hold = (ms + (FAN_MIN_HOLD_MS - felt.since)) % WRAP
FanInv == FanType /\ HoldRuns

\* A deadline that lies ahead is taken for one, as far as half the clock.
LEMMA AheadIsNegative ==
    ASSUME NEW m \in 0..(WRAP - 1), NEW k \in 1..FAN_MIN_HOLD_MS
    PROVE  Negative(m - ((m + k) % WRAP))
  <1>1. PICK h \in Nat : h = FAN_MIN_HOLD_MS
    BY FanAssumption
  <1>2. PICK w \in Nat \ {0} : w = WRAP /\ 2 * h <= w /\ k <= h
    BY <1>1, FanAssumption
  <1>3. m \in Nat /\ m < w /\ k \in Nat \ {0}
    BY <1>1, <1>2
  <1>4. w \div 2 \in Nat /\ 2 * (w \div 2) <= w /\ w <= 2 * (w \div 2) + 1
    BY ONLY w \in Nat \ {0}
  <1>5. CASE m + k < w
    <2>1. (m + k) % w = m + k
      BY ONLY <1>3, <1>5, w \in Nat \ {0}
    <2>2. (m - (m + k)) % w = w - k
      <3>1. (0 - k) % w = w - k
        BY ONLY <1>2, <1>3, w \in Nat \ {0}, h \in Nat, Z3
      <3>2. m - (m + k) = 0 - k
        BY <1>3
      <3> QED
        BY <3>1, <3>2
    <2>3. w - k >= w \div 2
      BY <1>2, <1>3, <1>4
    <2> QED
      BY <1>2, <2>1, <2>2, <2>3 DEF Negative
  <1>6. CASE m + k >= w
    <2>1. (m + k) % w = m + k - w
      BY ONLY <1>2, <1>3, <1>6, w \in Nat \ {0}, h \in Nat, Z3
    <2>2. (m - (m + k - w)) % w = w - k
      <3>1. (w - k) % w = w - k
        BY ONLY <1>2, <1>3, w \in Nat \ {0}, h \in Nat, Z3
      <3>2. m - (m + k - w) = w - k
        BY <1>3
      <3> QED
        BY <3>1, <3>2
    <2>3. w - k >= w \div 2
      BY <1>2, <1>3, <1>4
    <2> QED
      BY <1>2, <2>1, <2>2, <2>3 DEF Negative
  <1> QED
    BY <1>2, <1>3, <1>5, <1>6

\* The deadline stays where it is while the clock comes nearer.
LEMMA Nearer ==
    ASSUME NEW m \in 0..(WRAP - 1), NEW k \in 0..FAN_MIN_HOLD_MS
    PROVE  /\ (m + 1) % WRAP \in 0..(WRAP - 1)
           /\ (m + (k + 1)) % WRAP = (((m + 1) % WRAP) + k) % WRAP
  <1>1. PICK w \in Nat \ {0} : w = WRAP /\ k < w /\ k \in Nat
    BY FanAssumption
  <1>2. m \in Nat /\ m < w
    BY <1>1
  <1>3. (m + 1) % w \in 0..(w - 1)
    BY ONLY <1>2, w \in Nat \ {0}
  <1>4. CASE m + 1 < w
    <2>1. (m + 1) % w = m + 1
      BY ONLY <1>2, <1>4, w \in Nat \ {0}
    <2>2. (m + 1) + k = m + (k + 1)
      BY <1>2
    <2> QED
      BY <1>1, <1>3, <2>1, <2>2
  <1>5. CASE m + 1 = w
    <2>1. (m + 1) % w = 0
      BY ONLY <1>5, w \in Nat \ {0}
    <2>2. m + (k + 1) = w + k
      BY <1>2, <1>5
    <2>3. (w + k) % w = k /\ k % w = k
      BY ONLY <1>1, w \in Nat \ {0}, Z3
    <2>4. (m + (k + 1)) % w = k
      BY <2>2, <2>3
    <2>5. (((m + 1) % w) + k) % w = k
      BY <1>1, <2>1, <2>3
    <2> QED
      BY <1>1, <1>3, <2>4, <2>5
  <1> QED
    BY <1>2, <1>4, <1>5

\* While a change is younger than the hold, the policy holds back.
LEMMA HeldBack ==
    ASSUME FanInv, felt.since < FAN_MIN_HOLD_MS
    PROVE  Negative(ms - fan.hold)
  <1>1. PICK k \in 1..FAN_MIN_HOLD_MS : k = FAN_MIN_HOLD_MS - felt.since
    BY FanAssumption DEF FanInv, FanType
  <1>2. fan.hold = (ms + k) % WRAP
    BY <1>1 DEF FanInv, HoldRuns
  <1> QED
    BY <1>2, AheadIsNegative DEF FanInv, FanType

\* A pass of the policy keeps the hold, starts one, or lets it run out.
LEMMA TickKeepsHold ==
    ASSUME FanInv, fan_policy_tick
    PROVE  FanInv'
  <1>1. /\ FAN_MIN_HOLD_MS \in Nat \ {0} /\ WRAP \in Nat \ {0} /\ ms \in 0..(WRAP - 1)
        /\ felt \in [since : 1..FAN_MIN_HOLD_MS, waited : Nat]
        /\ felt.since \in 1..FAN_MIN_HOLD_MS /\ felt.waited \in Nat
        /\ fan \in [on : BOOLEAN, auto : BOOLEAN, manual : BOOLEAN, hold : 0..(WRAP - 1)]
    BY FanAssumption DEF FanInv, FanType
  <1>2. /\ ms' = (ms + 1) % WRAP /\ ms' \in 0..(WRAP - 1)
    <2>1. 0 \in 0..FAN_MIN_HOLD_MS
      BY <1>1
    <2> QED
      BY <1>1, <2>1, Nearer DEF fan_policy_tick
  <1>3. felt'.since = IF fan.auto /\ fan'.on # fan.on THEN 1
                      ELSE IF felt.since < FAN_MIN_HOLD_MS THEN felt.since + 1 ELSE felt.since
    BY DEF fan_policy_tick
  <1>6. PICK w \in Nat : felt' = [since |-> felt'.since, waited |-> w]
    <2>1. felt' = [since |-> felt'.since, waited |-> felt'.waited] /\ felt'.waited \in Nat
      BY <1>1 DEF fan_policy_tick
    <2> QED
      BY <2>1
  <1>4. CASE fan.auto /\ fan'.on # fan.on
    <2>1. PICK f \in Set(~fan.on) : fan' = IF f = fan THEN f ELSE [f EXCEPT !.hold = Next_hold]
      BY <1>1, <1>4 DEF fan_policy_tick, auto_tick
    <2>2. f = [fan EXCEPT !.on = ~fan.on]
      BY <1>4, <2>1 DEF Set
    <2>3. fan' = [[fan EXCEPT !.on = ~fan.on] EXCEPT !.hold = Next_hold]
      BY <1>1, <1>4, <2>1, <2>2
    <2>4. Next_hold = (ms + FAN_MIN_HOLD_MS) % WRAP /\ Next_hold \in 0..(WRAP - 1)
      <3>1. ms + FAN_MIN_HOLD_MS \in Nat
        BY <1>1
      <3>2. (ms + FAN_MIN_HOLD_MS) % WRAP \in 0..(WRAP - 1)
        BY ONLY <1>1, <3>1
      <3> QED
        BY <3>2 DEF Next_hold
    <2>5. /\ fan' \in [on : BOOLEAN, auto : BOOLEAN, manual : BOOLEAN, hold : 0..(WRAP - 1)]
          /\ fan'.auto /\ fan'.hold = Next_hold
      BY <1>1, <1>4, <2>3, <2>4
    <2>6. PICK k \in 0..FAN_MIN_HOLD_MS : k = FAN_MIN_HOLD_MS - 1
      BY <1>1
    <2>7. Next_hold = (ms' + k) % WRAP
      <3>1. FAN_MIN_HOLD_MS = k + 1
        BY <1>1, <2>6
      <3> QED
        BY <1>1, <1>2, <2>4, <3>1, Nearer
    <2>8. felt'.since = 1
      BY <1>3, <1>4
    <2> QED
      BY <1>1, <1>2, <1>6, <2>5, <2>6, <2>7, <2>8 DEF FanInv, FanType, HoldRuns
  <1>5. CASE ~(fan.auto /\ fan'.on # fan.on)
    <2>1. /\ fan' \in [on : BOOLEAN, auto : BOOLEAN, manual : BOOLEAN, hold : 0..(WRAP - 1)]
          /\ fan'.auto = fan.auto /\ (fan.auto => fan' = fan)
      <3>1. CASE fan.auto
        <4>1. fan' \in auto_tick
          BY <3>1 DEF fan_policy_tick
        <4>2. CASE fan' = fan
          BY <1>1, <4>2
        <4>3. CASE fan' # fan
          <5>1. PICK f \in Set(~fan.on) : fan' = IF f = fan THEN f ELSE [f EXCEPT !.hold = Next_hold]
            BY <4>1, <4>3 DEF auto_tick
          <5>2. f = [fan EXCEPT !.on = ~fan.on] /\ f # fan
            BY <4>3, <5>1 DEF Set
          <5>3. fan'.on = ~fan.on
            BY <1>1, <5>1, <5>2
          <5> QED
            BY <1>1, <1>5, <3>1, <5>3
        <4> QED
          BY <4>2, <4>3
      <3>2. CASE ~fan.auto
        <4>1. fan' \in manual_off_tick
          BY <3>2 DEF fan_policy_tick
        <4>2. fan' = fan \/ fan' = [fan EXCEPT !.on = ~fan.on]
          BY <4>1 DEF manual_off_tick, Set
        <4> QED
          BY <1>1, <3>2, <4>2
      <3> QED
        BY <3>1, <3>2
    <2>2. CASE felt.since < FAN_MIN_HOLD_MS
      <3>1. felt'.since = felt.since + 1 /\ felt'.since \in 1..FAN_MIN_HOLD_MS
        BY <1>1, <1>3, <1>5, <2>2
      <3>2. PICK k \in 0..FAN_MIN_HOLD_MS : k = FAN_MIN_HOLD_MS - felt'.since
        BY <1>1, <3>1
      <3>3. fan.auto /\ fan.hold = (ms + (FAN_MIN_HOLD_MS - felt.since)) % WRAP
        BY <2>2 DEF FanInv, HoldRuns
      <3>4. FAN_MIN_HOLD_MS - felt.since = k + 1
        BY <1>1, <3>1, <3>2
      <3>5. fan'.hold = (ms' + k) % WRAP
        <4>1. (ms + (k + 1)) % WRAP = (((ms + 1) % WRAP) + k) % WRAP
          BY <1>1, Nearer
        <4>2. fan'.hold = fan.hold
          BY <2>1, <3>3
        <4> QED
          BY <1>2, <3>3, <3>4, <4>1, <4>2
      <3> QED
        BY <1>1, <1>2, <1>6, <2>1, <3>1, <3>2, <3>3, <3>5 DEF FanInv, FanType, HoldRuns
    <2>3. CASE ~(felt.since < FAN_MIN_HOLD_MS)
      <3>1. felt'.since = felt.since
        BY <1>3, <1>5, <2>3
      <3> QED
        BY <1>1, <1>2, <1>6, <2>1, <2>3, <3>1 DEF FanInv, FanType, HoldRuns
    <2> QED
      BY <2>2, <2>3
  <1> QED
    BY <1>4, <1>5

\* A command or a restart ends the hold; the air leaves it alone.
LEMMA OthersKeepHold ==
    ASSUME FanInv,
           AirMoves \/ fan_policy_set_auto \/ FanRestart \/ UNCHANGED fan_vars
             \/ \E on \in BOOLEAN : fan_policy_set_manual(on)
    PROVE  FanInv'
  <1>1. /\ FAN_MIN_HOLD_MS \in Nat \ {0} /\ WRAP \in Nat \ {0} /\ ms \in 0..(WRAP - 1)
        /\ felt \in [since : 1..FAN_MIN_HOLD_MS, waited : Nat]
        /\ fan \in [on : BOOLEAN, auto : BOOLEAN, manual : BOOLEAN, hold : 0..(WRAP - 1)]
    BY FanAssumption DEF FanInv, FanType
  <1>2. 0 \in 0..(WRAP - 1) /\ FAN_MIN_HOLD_MS \in 1..FAN_MIN_HOLD_MS
    BY <1>1
  <1>3. CASE AirMoves \/ UNCHANGED fan_vars
    <2>1. fan' = fan /\ ms' = ms /\ felt' = felt
      BY <1>3 DEF AirMoves, fan_vars
    <2> QED
      BY <2>1 DEF FanInv, FanType, HoldRuns
  <1>4. ASSUME fan' \in [on : BOOLEAN, auto : BOOLEAN, manual : BOOLEAN, hold : 0..(WRAP - 1)],
               ms' \in 0..(WRAP - 1), NEW n \in Nat,
               felt' = [since |-> FAN_MIN_HOLD_MS, waited |-> n]
        PROVE  FanInv'
    BY <1>2, <1>4 DEF FanInv, FanType, HoldRuns
  <1>5. PICK n \in Nat : [felt EXCEPT !.since = FAN_MIN_HOLD_MS] = [since |-> FAN_MIN_HOLD_MS, waited |-> n]
    BY <1>1
  <1>6. CASE fan_policy_set_auto
    <2>1. fan' = [fan EXCEPT !.auto = TRUE, !.hold = 0] /\ ms' = ms
          /\ felt' = [felt EXCEPT !.since = FAN_MIN_HOLD_MS]
      BY <1>6 DEF fan_policy_set_auto
    <2>2. fan' \in [on : BOOLEAN, auto : BOOLEAN, manual : BOOLEAN, hold : 0..(WRAP - 1)]
      BY <1>1, <1>2, <2>1
    <2> QED
      BY <1>1, <1>4, <1>5, <2>1, <2>2
  <1>7. ASSUME NEW on \in BOOLEAN, fan_policy_set_manual(on)
        PROVE  FanInv'
    <2>1. PICK f \in Set(on) : fan' = [f EXCEPT !.auto = FALSE, !.manual = on]
      BY <1>7 DEF fan_policy_set_manual
    <2>2. f = [fan EXCEPT !.on = on] \/ f = fan
      BY <2>1 DEF Set
    <2>3. ms' = ms /\ felt' = [felt EXCEPT !.since = FAN_MIN_HOLD_MS]
      BY <1>7 DEF fan_policy_set_manual
    <2>4. f \in [on : BOOLEAN, auto : BOOLEAN, manual : BOOLEAN, hold : 0..(WRAP - 1)]
      BY <1>1, <1>7, <2>2
    <2>5. fan' \in [on : BOOLEAN, auto : BOOLEAN, manual : BOOLEAN, hold : 0..(WRAP - 1)]
      BY <1>7, <2>1, <2>4
    <2> QED
      BY <1>1, <1>4, <1>5, <2>3, <2>5
  <1>8. CASE FanRestart
    <2>1. PICK on \in {fan.on, FALSE}, own \in BOOLEAN :
            fan' = [on |-> on, auto |-> own, manual |-> on, hold |-> 0]
      BY <1>8 DEF FanRestart, fan_policy_init
    <2>2. ms' = 0 /\ felt' = [since |-> FAN_MIN_HOLD_MS, waited |-> 0]
      BY <1>8 DEF FanRestart, Fresh
    <2>3. fan' \in [on : BOOLEAN, auto : BOOLEAN, manual : BOOLEAN, hold : 0..(WRAP - 1)]
      BY <1>1, <1>2, <2>1
    <2> QED
      BY <1>2, <1>4, <2>2, <2>3
  <1> QED
    BY <1>3, <1>6, <1>7, <1>8

\* A change by the policy starts a hold, and the policy changes the fan again only
\* when it has run out (fan_policy_tick()), on a clock that counts at least two holds
\* before it starts over: whatever the load and the blades do, whether writes take or
\* not, and however commands and restarts come between.
THEOREM HoldsBetweenChanges == FanSpec => NoFlap
  <1>1. FanInit => FanInv
    <2>1. SUFFICES ASSUME FanInit
                   PROVE  FanInv
      OBVIOUS
    <2>2. PICK own \in BOOLEAN : fan = [on |-> FALSE, auto |-> own, manual |-> FALSE, hold |-> 0]
      BY <2>1 DEF FanInit, fan_policy_init
    <2>3. ms = 0 /\ felt = [since |-> FAN_MIN_HOLD_MS, waited |-> 0]
      BY <2>1 DEF FanInit, Fresh
    <2>4. 0 \in 0..(WRAP - 1) /\ FAN_MIN_HOLD_MS \in 1..FAN_MIN_HOLD_MS
      BY FanAssumption
    <2> QED
      BY <2>2, <2>3, <2>4 DEF FanInv, FanType, HoldRuns
  <1>2. FanInv /\ [FanNext]_fan_vars => FanInv'
    BY TickKeepsHold, OthersKeepHold DEF FanNext
  <1>3. FanInv /\ [FanNext]_fan_vars =>
          [fan_policy_tick /\ fan.auto /\ fan'.on # fan.on => felt.since = FAN_MIN_HOLD_MS]_fan_vars
    <2>1. SUFFICES ASSUME FanInv, fan_policy_tick, fan.auto, fan'.on # fan.on
                   PROVE  felt.since = FAN_MIN_HOLD_MS
      OBVIOUS
    <2>2. ~Negative(ms - fan.hold)
      BY <2>1 DEF fan_policy_tick, auto_tick
    <2>3. ~(felt.since < FAN_MIN_HOLD_MS)
      BY <2>1, <2>2, HeldBack
    <2> QED
      BY <2>1, <2>3, FanAssumption DEF FanInv, FanType
  <1> QED
    BY <1>1, <1>2, <1>3, PTL DEF FanSpec, NoFlap

==============================================================================
