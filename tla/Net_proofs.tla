----------------------------- MODULE Net_proofs -----------------------------
(***************************************************************************)
(* Proofs about the web server and the wired link, for every number of     *)
(* connections and configurations, every size of the ring and every set of *)
(* frames.                                                                 *)
(*                                                                         *)
(* No answer of the web server is a mixture: a buffer that all share is    *)
(* built again only when no connection holds it (Unheld), and the console's*)
(* transcript belongs to the batch from the moment it is queued until it is*)
(* done (BatchOwns).                                                       *)
(*                                                                         *)
(* The configurations of the certificate are counted right: each has as    *)
(* many references as connections, and is there exactly as long as it is   *)
(* the live one or somebody uses it.  The certificate that was installed   *)
(* serves and is what a start finds, since a save goes to the other copy   *)
(* under a higher number.                                                  *)
(*                                                                         *)
(* No frame waits in the W6100 unseen, wherever the bus accesses of the    *)
(* driver fall between the arrivals, and the driver frees whole frames.    *)
(*                                                                         *)
(* The network that setup over Bluetooth reports as joined is the one that *)
(* was asked for.                                                          *)
(***************************************************************************)
EXTENDS Web, Wired, Setup, FiniteSetTheorems, TLAPS

------------------------------------------------------------------------------
(* The answers *)

\* The fields of the records, which no step changes.
WebFields == {"conns", "gens", "live", "uploader", "listener"}
ConnFields == {"pcb", "conf", "req", "resp", "body", "keep", "discard", "upload", "served",
               "idle", "whole"}
WebShape(w) == w = [f \in WebFields |-> w[f]]
ConnShape(k) == k = [f \in ConnFields |-> k[f]]

\* A slot that is free holds no buffer, and none is built again under a connection.
ConnGood(k) == ConnShape(k) /\ k.whole /\ (~k.pcb => k.body = "none")
Good(w) ==
    /\ WebShape(w) /\ w.conns = [c \in Conns |-> w.conns[c]]
    /\ \A c \in Conns : ConnGood(w.conns[c])

Unheld(w, body) == \A c \in Conns : w.conns[c].body # body

BatchOwns == web_state \in {"queued", "running"} => Unheld(web, "console")

IInv == Good(web) /\ BatchOwns

\* From w to v no connection takes a buffer.
Tame(w, v) == Good(v) /\ \A c \in Conns : v.conns[c].body \in {w.conns[c].body, "none"}

\* From w to v the connections are what they were.
SameConns(w, v) == WebShape(v) /\ v.conns = w.conns

------------------------------------------------------------------------------
(* What the helpers do to the connections *)

LEMMA SameIsTame ==
    ASSUME NEW w, Good(w), NEW v, SameConns(w, v)
    PROVE  Tame(w, v)
BY DEF Good, SameConns, Tame

LEMMA TameTrans ==
    ASSUME NEW w, NEW v, NEW u, Tame(w, v), Tame(v, u)
    PROVE  Tame(w, u)
BY DEF Tame

LEMMA TameSelf == ASSUME NEW w, Good(w) PROVE Tame(w, w)
BY DEF Tame

LEMMA TameGood == ASSUME NEW w, NEW v, Tame(w, v) PROVE Good(v)
BY DEF Tame

LEMMA UnheldStays ==
    ASSUME NEW w, NEW v, Tame(w, v), Unheld(w, "console")
    PROVE  Unheld(v, "console")
BY DEF Tame, Unheld

\* One connection is changed.
LEMMA OneChanged ==
    ASSUME NEW w, Good(w), NEW c \in Conns, NEW k, ConnGood(k),
           k.body \in {w.conns[c].body, "none"}
    PROVE  Tame(w, [w EXCEPT !.conns[c] = k])
  <1> DEFINE v == [w EXCEPT !.conns[c] = k]
  <1>1. WebShape(v) /\ v.conns = [w.conns EXCEPT ![c] = k]
    BY DEF Good, WebShape, WebFields
  <1> SUFFICES Tame(w, v)
    OBVIOUS
  <1> HIDE DEF v
  <1>2. v.conns = [d \in Conns |-> v.conns[d]]
    BY <1>1 DEF Good
  <1>3. \A d \in Conns : v.conns[d] = IF d = c THEN k ELSE w.conns[d]
    BY <1>1 DEF Good
  <1>4. \A d \in Conns : ConnGood(v.conns[d])
    BY <1>3 DEF Good
  <1>5. \A d \in Conns : v.conns[d].body \in {w.conns[d].body, "none"}
    BY <1>3
  <1> QED
    BY <1>1, <1>2, <1>4, <1>5 DEF Tame, Good

LEMMA GenFreeSame ==
    ASSUME NEW w, WebShape(w), NEW g
    PROVE  SameConns(w, gen_free(w, g))
BY DEF gen_free, SameConns, WebShape, WebFields

LEMMA ConnOpenedSame ==
    ASSUME NEW w, WebShape(w), NEW g
    PROVE  SameConns(w, https_conn_opened(w, g))
BY DEF https_conn_opened, SameConns, WebShape, WebFields

LEMMA ConnClosedSame ==
    ASSUME NEW w, WebShape(w), NEW g
    PROVE  SameConns(w, https_conn_closed(w, g))
  <1> DEFINE less == [w EXCEPT !.gens[g].refs = @ - 1]
  <1>1. SameConns(w, less)
    BY DEF SameConns, WebShape, WebFields
  <1>2. https_conn_closed(w, g) \in {w, less, gen_free(less, g)}
    BY DEF https_conn_closed
  <1> HIDE DEF less
  <1>3. SameConns(less, gen_free(less, g))
    BY <1>1, GenFreeSame DEF SameConns
  <1> QED
    BY <1>1, <1>2, <1>3 DEF SameConns

LEMMA MakeLiveSame ==
    ASSUME NEW w, WebShape(w), NEW g, NEW cert
    PROVE  SameConns(w, make_live(w, g, cert))
  <1> DEFINE built == [w EXCEPT !.gens[g].cert = cert, !.live = g]
  <1>1. SameConns(w, built)
    BY DEF SameConns, WebShape, WebFields
  <1>2. make_live(w, g, cert) \in {built, gen_free(built, w.live)}
    BY DEF make_live
  <1> HIDE DEF built
  <1>3. SameConns(built, gen_free(built, w.live))
    BY <1>1, GenFreeSame DEF SameConns
  <1> QED
    BY <1>1, <1>2, <1>3 DEF SameConns

LEMMA UnloadedSame ==
    ASSUME NEW w, WebShape(w)
    PROVE  SameConns(w, Unloaded(w))
  <1> DEFINE off == [w EXCEPT !.live = 0]
  <1>1. SameConns(w, off)
    BY DEF SameConns, WebShape, WebFields
  <1>2. Unloaded(w) \in {w, off, gen_free(off, w.live)}
    BY DEF Unloaded
  <1> HIDE DEF off
  <1>3. SameConns(off, gen_free(off, w.live))
    BY <1>1, GenFreeSame DEF SameConns
  <1> QED
    BY <1>1, <1>2, <1>3 DEF SameConns

LEMMA SyncSame ==
    ASSUME NEW w, WebShape(w), NEW on
    PROVE  SameConns(w, http_tls_sync(w, on))
BY DEF http_tls_sync, SameConns, WebShape, WebFields

LEMMA UploaderSame ==
    ASSUME NEW w, WebShape(w), NEW c
    PROVE  SameConns(w, [w EXCEPT !.uploader = c])
BY DEF SameConns, WebShape, WebFields

------------------------------------------------------------------------------
(* What the operations on one connection do *)

LEMMA ClosedGood == ConnGood(Closed) /\ Closed.body = "none"
BY DEF ConnGood, ConnShape, ConnFields, Closed

LEMMA FreeTame ==
    ASSUME NEW w, Good(w), NEW c \in Conns
    PROVE  Tame(w, conn_free(w, c))
  <1> DEFINE v == [w EXCEPT !.conns[c] = Closed]
             u == [v EXCEPT !.uploader = IF @ = c THEN NoConn ELSE @]
  <1>1. Tame(w, v)
    BY OneChanged, ClosedGood
  <1>2. conn_free(w, c) = https_conn_closed(u, w.conns[c].conf)
    <2>1. u = [w EXCEPT !.conns[c] = Closed, !.uploader = IF @ = c THEN NoConn ELSE @]
      BY DEF Good, WebShape, WebFields
    <2> HIDE DEF u
    <2> QED
      BY <2>1 DEF conn_free
  <1> HIDE DEF v
  <1>3. SameConns(v, u)
    BY <1>1 DEF Tame, Good, SameConns, WebShape, WebFields
  <1> HIDE DEF u
  <1>4. SameConns(u, https_conn_closed(u, w.conns[c].conf))
    BY <1>3, ConnClosedSame DEF SameConns
  <1>5. SameConns(v, conn_free(w, c))
    BY <1>2, <1>3, <1>4 DEF SameConns
  <1> QED
    BY <1>1, <1>5, SameIsTame, TameTrans, TameGood

LEMMA ResetTame ==
    ASSUME NEW w, Good(w), NEW c \in Conns
    PROVE  Tame(w, conn_reset_request(w, c))
  <1> DEFINE k == [w.conns[c] EXCEPT !.served = TRUE, !.req = FALSE, !.resp = FALSE,
                                     !.body = "none", !.upload = FALSE, !.discard = FALSE,
                                     !.idle = 0]
  <1>1. ConnGood(k) /\ k.body = "none"
    BY DEF Good, ConnGood, ConnShape, ConnFields
  <1>2. conn_reset_request(w, c) = [w EXCEPT !.conns[c] = k]
    BY DEF conn_reset_request
  <1> HIDE DEF k
  <1> QED
    BY <1>1, <1>2, OneChanged

\* A field that has nothing to do with buffers is set.
LEMMA FieldTame ==
    ASSUME NEW w, Good(w), NEW c \in Conns, NEW x,
           NEW f \in {"req", "resp", "keep", "discard", "upload", "idle"}
    PROVE  Tame(w, [w EXCEPT !.conns[c][f] = x])
  <1> DEFINE k == [w.conns[c] EXCEPT ![f] = x]
  <1>1. ConnGood(k) /\ k.body = w.conns[c].body
    BY DEF Good, ConnGood, ConnShape, ConnFields
  <1>2. [w EXCEPT !.conns[c][f] = x] = [w EXCEPT !.conns[c] = k]
    OBVIOUS
  <1> HIDE DEF k
  <1> QED
    BY <1>1, <1>2, OneChanged

LEMMA SendTame ==
    ASSUME NEW w, Good(w), NEW c \in Conns, NEW v \in send_more(w, c)
    PROVE  Tame(w, v)
  <1>1. v \in {w, conn_reset_request(w, c), [w EXCEPT !.conns[c].resp = FALSE], conn_free(w, c)}
    BY DEF send_more
  <1>2. Tame(w, [w EXCEPT !.conns[c].resp = FALSE])
    BY FieldTame
  <1> QED
    BY <1>1, <1>2, TameSelf, ResetTame, FreeTame

LEMMA RespondTame ==
    ASSUME NEW w, Good(w), NEW c \in Conns, NEW v \in respond(w, c)
    PROVE  Tame(w, v)
  <1> DEFINE u == [w EXCEPT !.conns[c].resp = TRUE]
  <1>1. Tame(w, u)
    BY FieldTame
  <1>2. v \in send_more(u, c)
    BY DEF respond
  <1> HIDE DEF u
  <1> QED
    BY <1>1, <1>2, SendTame, TameTrans, TameGood

\* A request is heard on a connection that is open.
LEMMA HeardTame ==
    ASSUME Good(web), NEW c \in Conns, NEW r
    PROVE  Tame(web, Heard(c, r)) /\ Heard(c, r).conns[c].pcb = web.conns[c].pcb
  <1> DEFINE keep == http_req_keep_alive(r)
             k == [web.conns[c] EXCEPT !.req = TRUE, !.idle = 0, !.keep = keep]
  <1>2. Heard(c, r) = [web EXCEPT !.conns[c] = k]
    BY DEF Heard
  <1> HIDE DEF keep
  <1>0. ConnGood(web.conns[c])
    BY DEF Good
  <1>1. ConnGood(k) /\ k.body = web.conns[c].body /\ k.pcb = web.conns[c].pcb
    BY <1>0 DEF ConnGood, ConnShape, ConnFields
  <1> HIDE DEF k
  <1>3. Heard(c, r).conns[c] = k
    BY <1>2 DEF Good, WebShape, WebFields
  <1> QED
    BY <1>1, <1>2, <1>3, OneChanged

LEMMA FinalTame ==
    ASSUME Good(web), NEW c \in Conns
    PROVE  Tame(web, Final(c))
  <1> DEFINE k == [web.conns[c] EXCEPT !.req = TRUE, !.idle = 0, !.keep = FALSE]
  <1>1. ConnGood(k) /\ k.body = web.conns[c].body
    BY ZenonT(40) DEF Good, ConnGood, ConnShape, ConnFields
  <1>2. Final(c) = [web EXCEPT !.conns[c] = k]
    BY DEF Final
  <1> HIDE DEF k
  <1> QED
    BY <1>1, <1>2, OneChanged

------------------------------------------------------------------------------
(* Buffers *)

\* Nobody holds a buffer that is not busy: a free slot holds none.
LEMMA NotBusy ==
    ASSUME NEW w, Good(w), NEW body, body # "none", ~busy(w, body)
    PROVE  Unheld(w, body)
BY DEF Good, ConnGood, Unheld, busy

\* What nobody holds can be built again.
LEMMA RebuiltSame ==
    ASSUME NEW w, Good(w), NEW body, Unheld(w, body)
    PROVE  SameConns(w, Rebuilt(w, body))
  <1>1. [c \in Conns |-> IF w.conns[c].body = body THEN [w.conns[c] EXCEPT !.whole = FALSE]
                         ELSE w.conns[c]] = w.conns
    BY DEF Good, Unheld
  <1>2. Rebuilt(w, body) = [w EXCEPT !.conns = w.conns]
    BY <1>1 DEF Rebuilt
  <1> QED
    BY <1>2 DEF Good, SameConns, WebShape, WebFields

\* An answer from a shared buffer holds it, on a connection that is open.
LEMMA StaticGood ==
    ASSUME NEW w, Good(w), NEW c \in Conns, w.conns[c].pcb, NEW body,
           NEW v \in respond_static(w, c, body)
    PROVE  Good(v) /\ \A d \in Conns : v.conns[d].body \in {w.conns[d].body, body, "none"}
  <1> DEFINE k == [w.conns[c] EXCEPT !.resp = TRUE, !.body = body, !.whole = TRUE]
             u == [w EXCEPT !.conns[c] = k]
  <1>1. v \in send_more(u, c)
    BY DEF respond_static
  <1>2. ConnGood(k) /\ k.body = body
    BY ZenonT(40) DEF Good, ConnGood, ConnShape, ConnFields
  <1> HIDE DEF k
  <1>3. WebShape(u) /\ u.conns = [w.conns EXCEPT ![c] = k]
    BY DEF Good, WebShape, WebFields
  <1> HIDE DEF u
  <1>4. u.conns = [d \in Conns |-> u.conns[d]]
    BY <1>3 DEF Good
  <1>5. \A d \in Conns : u.conns[d] = IF d = c THEN k ELSE w.conns[d]
    BY <1>3 DEF Good
  <1>6. \A d \in Conns : ConnGood(u.conns[d])
    BY <1>2, <1>5 DEF Good
  <1>7. Tame(u, v)
    BY <1>1, <1>3, <1>4, <1>6, SendTame DEF Good
  <1>8. \A d \in Conns : u.conns[d].body \in {w.conns[d].body, body}
    BY <1>2, <1>5
  <1> QED
    BY <1>7, <1>8 DEF Tame

------------------------------------------------------------------------------
(* The steps.  Most take no buffer and leave the batch alone. *)

Quiet == Tame(web, web') /\ web_state' = web_state

LEMMA QuietHolds == IInv /\ Quiet => IInv'
BY UnheldStays DEF IInv, Quiet, BatchOwns, Tame

LEMMA InitHolds == WebInit => IInv
  <1> SUFFICES ASSUME WebInit PROVE IInv
    OBVIOUS
  <1>0. web = [conns |-> [c \in Conns |-> Closed],
               gens |-> [g \in Generations |-> [cert |-> "none", refs |-> 0]],
               live |-> 0, uploader |-> NoConn, listener |-> FALSE]
    BY DEF WebInit
  <1>1. web.conns = [c \in Conns |-> Closed] /\ WebShape(web)
    BY <1>0 DEF WebShape, WebFields
  <1>2. web_state = "idle"
    BY DEF WebInit
  <1> QED
    BY <1>1, <1>2, ClosedGood DEF IInv, Good, BatchOwns

\* The slot that a connection gets is freed first, also from under another.
LEMMA AcceptQuiet == IInv /\ Accept => Quiet
  <1> SUFFICES ASSUME IInv, Accept PROVE Quiet
    OBVIOUS
  <1>1. PICK tls \in BOOLEAN : accept_cb(tls)
    BY DEF Accept
  <1>2. PICK c \in Conns :
          LET w == conn_free(web, c)
          IN  web' = IF tls /\ w.live = 0 THEN w
                     ELSE LET g == IF tls THEN w.live ELSE 0
                              k == [Closed EXCEPT !.pcb = TRUE, !.conf = g]
                          IN  https_conn_opened([w EXCEPT !.conns[c] = k], g)
    BY <1>1 DEF accept_cb, idle_slot, Idle
  <1> DEFINE w == conn_free(web, c)
             g == IF tls THEN w.live ELSE 0
             k == [Closed EXCEPT !.pcb = TRUE, !.conf = g]
             v == [w EXCEPT !.conns[c] = k]
  <1>3. web' = w \/ web' = https_conn_opened(v, g)
    BY <1>2
  <1>4. Tame(web, w)
    BY FreeTame DEF IInv
  <1> HIDE DEF w, g
  <1>5. ConnGood(k) /\ k.body = "none"
    BY DEF ConnGood, ConnShape, ConnFields, Closed
  <1> HIDE DEF k
  <1>6. Tame(w, v)
    BY <1>4, <1>5, OneChanged, TameGood
  <1> HIDE DEF v
  <1>7. Tame(v, https_conn_opened(v, g))
    BY <1>6, SameIsTame, ConnOpenedSame DEF Tame, Good
  <1>8. Tame(web, web')
    BY <1>3, <1>4, <1>6, <1>7, TameTrans
  <1> QED
    BY <1>8 DEF Quiet, Accept

LEMMA RecvRestQuiet ==
    ASSUME IInv, NEW c \in Conns, RecvRest(c)
    PROVE  Quiet
  <1> DEFINE w == [web EXCEPT !.conns[c].idle = 0]
             k == web.conns[c]
             done == [w EXCEPT !.conns[c].discard = FALSE]
  <1>1. \/ web' \in {w, done, conn_free(done, c)}
        \/ web' = [w EXCEPT !.conns[c].keep = FALSE]
        \/ web' = [w EXCEPT !.conns[c].req = TRUE]
    BY DEF RecvRest
  <1>2. Tame(web, w)
    BY FieldTame DEF IInv
  <1> HIDE DEF w
  <1>3. Tame(w, done)
    BY <1>2, FieldTame, TameGood
  <1> HIDE DEF done
  <1>4. Tame(done, conn_free(done, c))
    BY <1>3, FreeTame, TameGood
  <1>5. Tame(w, [w EXCEPT !.conns[c].keep = FALSE])
    BY <1>2, FieldTame, TameGood
  <1>6. Tame(w, [w EXCEPT !.conns[c].req = TRUE])
    BY <1>2, FieldTame, TameGood
  <1>7. Tame(web, done) /\ Tame(web, conn_free(done, c))
    BY <1>2, <1>3, <1>4, TameTrans
  <1>8. Tame(web, [w EXCEPT !.conns[c].keep = FALSE])
    BY <1>2, <1>5, TameTrans
  <1>9. Tame(web, [w EXCEPT !.conns[c].req = TRUE])
    BY <1>2, <1>6, TameTrans
  <1>10. Tame(web, web')
    BY <1>1, <1>2, <1>7, <1>8, <1>9
  <1> QED
    BY <1>10 DEF Quiet, RecvRest

LEMMA ConnectionQuiet ==
    ASSUME IInv, NEW c \in Conns, Sent(c) \/ poll_cb(c) \/ Hangup(c)
    PROVE  Quiet
  <1>1. Good(web)
    BY DEF IInv
  <1>2. CASE Sent(c)
    BY <1>1, <1>2, SendTame DEF Sent, Quiet
  <1>3. CASE poll_cb(c)
    <2>1. web' = conn_free(web, c) \/ web' = [web EXCEPT !.conns[c].idle = web.conns[c].idle + 1]
      BY <1>3 DEF poll_cb
    <2>2. ASSUME NEW n PROVE Tame(web, [web EXCEPT !.conns[c].idle = n])
      BY <1>1, FieldTame
    <2>3. Tame(web, web')
      BY <1>1, <2>1, <2>2, FreeTame
    <2> QED
      BY <1>3, <2>3 DEF poll_cb, Quiet
  <1>4. CASE Hangup(c)
    BY <1>1, <1>4, FreeTame DEF Hangup, Quiet
  <1> QED
    BY <1>2, <1>3, <1>4

\* A short answer to a request.
LEMMA AnswerTame ==
    ASSUME Good(web), NEW c \in Conns, NEW r, NEW v,
           v \in respond(Heard(c, r), c) \/ v \in respond(Final(c), c)
    PROVE  Tame(web, v)
  <1>1. CASE v \in respond(Heard(c, r), c)
    BY <1>1, HeardTame, RespondTame, TameTrans, TameGood
  <1>2. CASE v \in respond(Final(c), c)
    BY <1>2, FinalTame, RespondTame, TameTrans, TameGood
  <1> QED
    BY <1>1, <1>2

LEMMA ShortQuiet ==
    ASSUME IInv, NEW c \in Conns, NEW r, Turned(c, r) \/ GetShort(c, r)
    PROVE  Quiet
BY AnswerTame DEF IInv, Turned, GetShort, Quiet

\* A new certificate changes the configurations and what listens.
LEMMA InstalledQuiet ==
    ASSUME NEW c \in Conns, NEW w, Good(w), Installed(c, w)
    PROVE  Tame(w, web')
  <1>1. CASE web' \in respond(w, c)
    BY <1>1, RespondTame
  <1>2. CASE \E g, cert : web' \in respond(http_tls_sync(make_live(w, g, cert), https), c)
    <2>1. PICK g, cert : web' \in respond(http_tls_sync(make_live(w, g, cert), https), c)
      BY <1>2
    <2> DEFINE v == make_live(w, g, cert)
               u == http_tls_sync(v, https)
    <2>2. Tame(w, v)
      BY MakeLiveSame, SameIsTame DEF Good
    <2> HIDE DEF v
    <2>3. Tame(v, u)
      BY <2>2, SyncSame, SameIsTame DEF Tame, Good
    <2>4. web' \in respond(u, c)
      BY <2>1 DEF v
    <2> HIDE DEF u
    <2> QED
      BY <2>2, <2>3, <2>4, RespondTame, TameTrans, TameGood
  <1> QED
    BY <1>1, <1>2 DEF Installed

LEMMA UploadedQuiet ==
    ASSUME NEW c \in Conns, NEW w, Good(w), Uploaded(c, w)
    PROVE  Tame(w, web')
  <1>1. CASE web' = [w EXCEPT !.conns[c].upload = TRUE]
    BY <1>1, FieldTame
  <1>2. CASE Installed(c, [w EXCEPT !.conns[c].upload = FALSE, !.uploader = NoConn])
    <2> DEFINE v == [w EXCEPT !.conns[c].upload = FALSE]
               u == [v EXCEPT !.uploader = NoConn]
    <2>1. Tame(w, v)
      BY FieldTame
    <2>2. u = [w EXCEPT !.conns[c].upload = FALSE, !.uploader = NoConn]
      BY DEF Good, WebShape, WebFields
    <2> HIDE DEF v
    <2>3. Tame(v, u)
      BY <2>1, UploaderSame, SameIsTame DEF Tame, Good
    <2> HIDE DEF u
    <2>4. Installed(c, u)
      BY <1>2, <2>2
    <2> QED
      BY <2>1, <2>3, <2>4, InstalledQuiet, TameTrans, TameGood
  <1> QED
    BY <1>1, <1>2 DEF Uploaded

LEMMA PostTlsQuiet ==
    ASSUME IInv, NEW c \in Conns, NEW r, PostTls(c, r)
    PROVE  Quiet
  <1> DEFINE w == Final(c)
  <1>1. Tame(web, w)
    BY FinalTame DEF IInv
  <1>2. \/ \E rest : web' \in respond([w EXCEPT !.conns[c].discard = rest], c)
        \/ Uploaded(c, [w EXCEPT !.uploader = c])
    BY DEF PostTls
  <1> HIDE DEF w
  <1>3. CASE \E rest : web' \in respond([w EXCEPT !.conns[c].discard = rest], c)
    <2>1. PICK rest : web' \in respond([w EXCEPT !.conns[c].discard = rest], c)
      BY <1>3
    <2> DEFINE u == [w EXCEPT !.conns[c].discard = rest]
    <2>2. Tame(w, u)
      BY <1>1, FieldTame, TameGood
    <2>3. web' \in respond(u, c)
      BY <2>1
    <2> HIDE DEF u
    <2>4. Tame(web, web')
      BY <1>1, <2>2, <2>3, RespondTame, TameTrans, TameGood
    <2> QED
      BY <2>4 DEF PostTls, Quiet
  <1>4. CASE Uploaded(c, [w EXCEPT !.uploader = c])
    <2> DEFINE u == [w EXCEPT !.uploader = c]
    <2>1. Tame(w, u)
      BY <1>1, UploaderSame, SameIsTame DEF Tame, Good
    <2>2. Uploaded(c, u)
      BY <1>4
    <2> HIDE DEF u
    <2>3. Tame(web, web')
      BY <1>1, <2>1, <2>2, UploadedQuiet, TameTrans, TameGood
    <2> QED
      BY <2>3 DEF PostTls, Quiet
  <1> QED
    BY <1>2, <1>3, <1>4

LEMMA FeedQuiet ==
    ASSUME IInv, NEW c \in Conns, TlsUploadFeed(c)
    PROVE  Quiet
  <1> DEFINE w == [web EXCEPT !.conns[c].idle = 0]
  <1>1. Tame(web, w)
    BY FieldTame DEF IInv
  <1>2. Uploaded(c, w)
    BY DEF TlsUploadFeed
  <1> HIDE DEF w
  <1>3. Tame(web, web')
    BY <1>1, <1>2, UploadedQuiet, TameTrans, TameGood
  <1> QED
    BY <1>3 DEF TlsUploadFeed, Quiet

LEMMA PostRemoveQuiet ==
    ASSUME IInv, NEW c \in Conns, NEW r, PostRemove(c, r)
    PROVE  Quiet
  <1> DEFINE w == Heard(c, r)
             v == Unloaded(w)
  <1>1. Tame(web, w)
    BY HeardTame DEF IInv
  <1>2. web' \in respond(w, c) \/ web' \in respond(v, c)
    BY DEF PostRemove
  <1> HIDE DEF w
  <1>3. Tame(w, v)
    BY <1>1, UnloadedSame, SameIsTame DEF Tame, Good
  <1> HIDE DEF v
  <1>4. Tame(web, web')
    BY <1>1, <1>2, <1>3, RespondTame, TameTrans, TameGood
  <1> QED
    BY <1>4 DEF PostRemove, Quiet

LEMMA PostHttpsQuiet ==
    ASSUME IInv, NEW c \in Conns, NEW r, NEW on, PostHttps(c, r, on)
    PROVE  Quiet
  <1> DEFINE w == Heard(c, r)
             v == http_tls_sync(w, on)
  <1>1. Tame(web, w)
    BY HeardTame DEF IInv
  <1>2. web' \in respond(w, c) \/ web' \in respond(v, c)
    BY DEF PostHttps
  <1> HIDE DEF w
  <1>3. Tame(w, v)
    BY <1>1, SyncSame, SameIsTame DEF Tame, Good
  <1> HIDE DEF v
  <1>4. Tame(web, web')
    BY <1>1, <1>2, <1>3, RespondTame, TameTrans, TameGood
  <1> QED
    BY <1>4 DEF PostHttps, Quiet

\* The main loop's part: the console installs nothing, but it removes and switches.
LEMMA ConsoleQuiet ==
    ASSUME IInv, Remove \/ \E on \in BOOLEAN : Console(on)
    PROVE  Quiet
  <1>1. Good(web) /\ WebShape(web)
    BY DEF IInv, Good
  <1>2. \/ web' = web
        \/ web' = Unloaded(web)
        \/ \E on : web' = http_tls_sync(web, on)
    BY DEF Remove, Console
  <1>3. Tame(web, web')
    BY <1>1, <1>2, TameSelf, UnloadedSame, SyncSame, SameIsTame
  <1> QED
    BY <1>3 DEF Remove, Console, Quiet

------------------------------------------------------------------------------
(* What takes a buffer, and the batch *)

\* The metrics, the log and the settings have buffers of their own.
LEMMA StreamHolds ==
    ASSUME IInv, NEW c \in Conns, NEW r, NEW body \in Streams, GetStream(c, r, body)
    PROVE  IInv'
  <1> DEFINE w == Heard(c, r)
             v == Rebuilt(w, body)
  <1>1. body \notin {"none", "console"}
    BY WebAssumption
  <1>2. web.conns[c].pcb /\ web_state' = web_state
    BY DEF GetStream, Handled, Asks
  <1>3. Tame(web, w) /\ w.conns[c].pcb
    BY <1>2, HeardTame DEF IInv
  <1>4. web' \in IF busy(w, body) THEN respond(w, c) ELSE respond_static(v, c, body)
    BY DEF GetStream
  <1> HIDE DEF w
  <1>5. CASE busy(w, body)
    <2>1. Tame(web, web')
      BY <1>3, <1>4, <1>5, RespondTame, TameTrans, TameGood
    <2> QED
      BY <1>2, <2>1, QuietHolds DEF Quiet
  <1>6. CASE ~busy(w, body)
    <2>1. SameConns(w, v)
      BY <1>1, <1>3, <1>6, NotBusy, RebuiltSame, TameGood
    <2>2. web' \in respond_static(v, c, body)
      BY <1>4, <1>6
    <2> HIDE DEF v
    <2>3. Good(v) /\ v.conns[c].pcb
      BY <1>3, <2>1 DEF Tame, Good, SameConns
    <2>4. Good(web') /\ \A d \in Conns : web'.conns[d].body \in {v.conns[d].body, body, "none"}
      BY <2>2, <2>3, StaticGood
    <2>5. \A d \in Conns : v.conns[d].body \in {web.conns[d].body, "none"}
      BY <1>3, <2>1 DEF Tame, SameConns
    <2>6. \A d \in Conns : web'.conns[d].body \in {web.conns[d].body, body, "none"}
      BY <2>4, <2>5
    <2> QED
      BY <1>1, <1>2, <2>4, <2>6 DEF IInv, BatchOwns, Unheld
  <1> QED
    BY <1>5, <1>6

\* The transcript is asked for: it is there only when the batch is done.
LEMMA GetConsoleHolds ==
    ASSUME IInv, NEW c \in Conns, NEW r, GetConsole(c, r)
    PROVE  IInv'
  <1> DEFINE w == Heard(c, r)
  <1>1. web.conns[c].pcb /\ web_state' = web_state
    BY DEF GetConsole, Handled, Asks
  <1>2. Tame(web, w) /\ w.conns[c].pcb
    BY <1>1, HeardTame DEF IInv
  <1>3. web' \in IF web_state = "done" THEN respond_static(w, c, "console") ELSE respond(w, c)
    BY DEF GetConsole
  <1> HIDE DEF w
  <1>4. CASE web_state = "done"
    <2>1. Good(web')
      BY <1>2, <1>3, <1>4, StaticGood, TameGood
    <2> QED
      BY <1>1, <1>4, <2>1 DEF IInv, BatchOwns
  <1>5. CASE web_state # "done"
    <2>1. Tame(web, web')
      BY <1>2, <1>3, <1>5, RespondTame, TameTrans, TameGood
    <2> QED
      BY <1>1, <2>1, QuietHolds DEF Quiet
  <1> QED
    BY <1>4, <1>5

\* A batch is queued only while nobody holds the transcript of the one before.
LEMMA PostConsoleHolds ==
    ASSUME IInv, NEW c \in Conns, NEW r, PostConsole(c, r)
    PROVE  IInv'
  <1>1. Tame(web, web')
    BY AnswerTame DEF IInv, PostConsole
  <1>2. Good(web')
    BY <1>1, TameGood
  <1>3. CASE ~busy(web, "console")
    <2>1. Unheld(web', "console")
      BY <1>1, <1>3, NotBusy, UnheldStays DEF IInv
    <2> QED
      BY <1>2, <2>1 DEF IInv, BatchOwns
  <1>4. CASE busy(web, "console")
    <2>1. web_state' = web_state
      BY <1>4 DEF PostConsole
    <2> QED
      BY <1>1, <2>1, QuietHolds DEF Quiet
  <1> QED
    BY <1>3, <1>4

\* The batch writes its transcript, which nobody holds.
LEMMA RunBatchHolds == IInv /\ RunBatch => IInv'
  <1> SUFFICES ASSUME IInv, RunBatch PROVE IInv'
    OBVIOUS
  <1>1. Good(web) /\ Unheld(web, "console")
    BY DEF IInv, BatchOwns, RunBatch
  <1>2. web' = Rebuilt(web, "console")
    BY DEF RunBatch
  <1>3. Tame(web, web')
    BY <1>1, <1>2, RebuiltSame, SameIsTame
  <1>4. Good(web') /\ Unheld(web', "console")
    BY <1>1, <1>3, UnheldStays, TameGood
  <1> QED
    BY <1>4 DEF IInv, BatchOwns

\* A start finds no connection and no batch.
LEMMA RestartHolds == IInv /\ Restart => IInv'
  <1> SUFFICES ASSUME Restart PROVE IInv'
    OBVIOUS
  <1> DEFINE w == [conns |-> [c \in Conns |-> Closed],
                   gens |-> [g \in Generations |-> [cert |-> "none", refs |-> 0]],
                   live |-> 0, uploader |-> NoConn, listener |-> FALSE]
  <1>1. web_state' = "idle"
    BY DEF Restart
  <1>2. web' = w \/ \E cert, on : web' = http_tls_sync(make_live(w, 1, cert), on)
    BY DEF Restart, Booted
  <1>3. WebShape(w) /\ w.conns = [c \in Conns |-> Closed]
    BY DEF WebShape, WebFields
  <1> HIDE DEF w
  <1>4. Good(w)
    BY <1>3, ClosedGood DEF Good
  <1>5. ASSUME NEW cert, NEW on, web' = http_tls_sync(make_live(w, 1, cert), on)
        PROVE  Good(web')
    <2> DEFINE v == make_live(w, 1, cert)
    <2>1. Tame(w, v)
      BY <1>3, <1>4, MakeLiveSame, SameIsTame
    <2>2. web' = http_tls_sync(v, on)
      BY <1>5
    <2> HIDE DEF v
    <2>3. Good(v) /\ WebShape(v)
      BY <2>1 DEF Tame, Good
    <2>4. SameConns(v, web')
      BY <2>2, <2>3, SyncSame
    <2> QED
      BY <2>3, <2>4, SameIsTame, TameGood
  <1>6. Good(web')
    BY <1>2, <1>4, <1>5
  <1> QED
    BY <1>1, <1>6 DEF IInv, BatchOwns

------------------------------------------------------------------------------
(* The theorem *)

LEMMA LwipHolds == IInv /\ Lwip => IInv'
  <1> SUFFICES ASSUME IInv, Lwip PROVE IInv'
    OBVIOUS
  <1>1. CASE Accept
    BY <1>1, AcceptQuiet, QuietHolds
  <1>2. CASE Restart
    BY <1>2, RestartHolds
  <1>3. ASSUME NEW c \in Conns, Sent(c) \/ poll_cb(c) \/ Hangup(c) \/ RecvRest(c)
        PROVE  IInv'
    BY <1>3, ConnectionQuiet, RecvRestQuiet, QuietHolds
  <1>4. ASSUME NEW c \in Conns, NEW r \in Requests, Turned(c, r) \/ GetShort(c, r)
        PROVE  IInv'
    BY <1>4, ShortQuiet, QuietHolds
  <1> QED
    BY <1>1, <1>2, <1>3, <1>4, Zenon DEF Lwip

LEMMA PagesHold == IInv /\ Pages => IInv'
BY RunBatchHolds, StreamHolds, GetConsoleHolds, PostConsoleHolds, Zenon DEF Pages

LEMMA CertificatesHold == IInv /\ Certificates => IInv'
  <1> SUFFICES ASSUME IInv, Certificates PROVE IInv'
    OBVIOUS
  <1>1. CASE Remove \/ \E on \in BOOLEAN : Console(on)
    BY <1>1, ConsoleQuiet, QuietHolds
  <1>2. ASSUME NEW c \in Conns, TlsUploadFeed(c)
        PROVE  IInv'
    BY <1>2, FeedQuiet, QuietHolds
  <1>3. ASSUME NEW c \in Conns, NEW r \in Requests,
               \/ PostTls(c, r) \/ PostRemove(c, r)
               \/ \E on \in BOOLEAN : PostHttps(c, r, on)
        PROVE  IInv'
    BY <1>3, PostTlsQuiet, PostRemoveQuiet, PostHttpsQuiet, QuietHolds
  <1> QED
    BY <1>1, <1>2, <1>3, Zenon DEF Certificates

LEMMA StepKeeps == IInv /\ [WebNext]_web_vars => IInv'
  <1>1. IInv /\ UNCHANGED web_vars => IInv'
    BY DEF web_vars, IInv, Good, BatchOwns, Unheld
  <1> QED
    BY <1>1, LwipHolds, PagesHold, CertificatesHold, Zenon DEF WebNext

\* No answer is a mixture: a buffer is never built again while a connection still
\* sends what it was built for (http.c's *_busy() and cli_web_submit()), for every
\* number of connections, also when one is closed to make room for another.
THEOREM AnswersAreWhole == WebSpec => []StreamsAreWhole
  <1>1. IInv => StreamsAreWhole
    BY DEF IInv, Good, ConnGood, StreamsAreWhole
  <1> QED
    BY InitHolds, StepKeeps, <1>1, PTL DEF WebSpec

------------------------------------------------------------------------------
(* The configurations of the certificate *)

Users(conns, g) == {c \in Conns : conns[c].conf = g}

\* What is known of one configuration with n users.
Held(gen, n, live) == gen.refs = n /\ (gen.refs > 0 \/ live <=> gen.cert # "none")

GenFields == {"cert", "refs"}
GensShape(gens) ==
    gens = [g \in Generations |-> gens[g]]
    /\ \A g \in Generations : gens[g] = [f \in GenFields |-> gens[g][f]]

Accounted(conns, gens, live) ==
    /\ GensShape(gens) /\ live \in 0..GENS
    /\ \A c \in Conns : conns[c].conf \in 0..GENS
    /\ \A g \in Generations : Held(gens[g], Cardinality(Users(conns, g)), live = g)

Sound(w) == Good(w) /\ Accounted(w.conns, w.gens, w.live)

\* A copy in flash that a start takes for whole names a certificate.
Names(rec) == tls_record_decode(rec) => rec.cert # "none"
StoreNames(st) ==
    /\ st = [f \in {"copy", "slot", "seq"} |-> st[f]] /\ st.copy = [i \in 0..1 |-> st.copy[i]]
    /\ \A i \in 0..1 : Names(st.copy[i])

GInv == IInv /\ Sound(web) /\ StoreNames(store)

------------------------------------------------------------------------------
(* Counting *)

LEMMA UsersFinite ==
    ASSUME NEW conns, NEW g
    PROVE  IsFiniteSet(Users(conns, g)) /\ Cardinality(Users(conns, g)) \in Nat
  <1>1. IsFiniteSet(Users(conns, g))
    BY WebAssumption, FS_Subset DEF Users
  <1> QED
    BY <1>1, FS_CardinalityType

\* A connection that uses one configuration no longer uses it.
LEMMA UserLeaves ==
    ASSUME NEW conns, NEW c \in Conns, NEW next,
           \A d \in Conns \ {c} : next[d].conf = conns[d].conf, next[c].conf = 0,
           NEW g \in Generations
    PROVE  Cardinality(Users(next, g)) =
             IF conns[c].conf = g THEN Cardinality(Users(conns, g)) - 1
             ELSE Cardinality(Users(conns, g))
  <1>1. g # 0
    BY WebAssumption DEF Generations
  <1>2. Users(next, g) = Users(conns, g) \ {c}
    BY <1>1 DEF Users
  <1>3. c \in Users(conns, g) <=> conns[c].conf = g
    BY DEF Users
  <1> QED
    BY <1>2, <1>3, UsersFinite, FS_RemoveElement

LEMMA UserComes ==
    ASSUME NEW conns, NEW c \in Conns, NEW next,
           \A d \in Conns \ {c} : next[d].conf = conns[d].conf, conns[c].conf = 0,
           NEW g \in Generations
    PROVE  Cardinality(Users(next, g)) =
             IF next[c].conf = g THEN Cardinality(Users(conns, g)) + 1
             ELSE Cardinality(Users(conns, g))
  <1>1. g # 0
    BY WebAssumption DEF Generations
  <1>2. CASE next[c].conf = g
    <2>1. Users(next, g) = Users(conns, g) \cup {c} /\ c \notin Users(conns, g)
      BY <1>1, <1>2 DEF Users
    <2>2. Cardinality(Users(conns, g) \cup {c}) = Cardinality(Users(conns, g)) + 1
      BY <2>1, UsersFinite, FS_AddElement
    <2> QED
      BY <1>2, <2>1, <2>2
  <1>3. CASE next[c].conf # g
    <2>1. Users(next, g) = Users(conns, g)
      BY <1>1, <1>3 DEF Users
    <2> QED
      BY <1>3, <2>1
  <1> QED
    BY <1>2, <1>3

LEMMA SameUsers ==
    ASSUME NEW conns, NEW next, \A c \in Conns : next[c].conf = conns[c].conf, NEW g
    PROVE  Users(next, g) = Users(conns, g)
BY DEF Users

LEMMA SameAccounted ==
    ASSUME NEW conns, NEW next, \A c \in Conns : next[c].conf = conns[c].conf,
           NEW gens, NEW live, Accounted(conns, gens, live)
    PROVE  Accounted(next, gens, live)
BY SameUsers, SMTT(40) DEF Accounted

LEMMA NobodyUses ==
    ASSUME NEW conns, \A c \in Conns : conns[c].conf = 0, NEW g \in Generations
    PROVE  Cardinality(Users(conns, g)) = 0
  <1>1. Users(conns, g) = {}
    BY WebAssumption DEF Users, Generations
  <1> QED
    BY <1>1, FS_EmptySet

------------------------------------------------------------------------------
(* The helpers *)

\* The connections and the configurations stay what they are.
SameCounts(w, v) ==
    /\ v.gens = w.gens /\ v.live = w.live
    /\ \A c \in Conns : v.conns[c].conf = w.conns[c].conf

LEMMA CountsSound ==
    ASSUME NEW w, Sound(w), NEW v, Good(v), SameCounts(w, v)
    PROVE  Sound(v)
BY SameAccounted DEF Sound, SameCounts

LEMMA CountsTrans ==
    ASSUME NEW w, NEW v, NEW u, SameCounts(w, v), SameCounts(v, u)
    PROVE  SameCounts(w, u)
BY DEF SameCounts

\* One connection is changed, but not the configuration it uses.
LEMMA OneCounts ==
    ASSUME NEW w, Good(w), NEW c \in Conns, NEW k, k.conf = w.conns[c].conf
    PROVE  SameCounts(w, [w EXCEPT !.conns[c] = k])
  <1> DEFINE v == [w EXCEPT !.conns[c] = k]
  <1> SUFFICES SameCounts(w, v)
    OBVIOUS
  <1>1. v.conns = [w.conns EXCEPT ![c] = k] /\ v.gens = w.gens /\ v.live = w.live
    BY DEF Good, WebShape, WebFields
  <1> HIDE DEF v
  <1>2. \A d \in Conns : v.conns[d] = IF d = c THEN k ELSE w.conns[d]
    BY <1>1 DEF Good
  <1> QED
    BY <1>1, <1>2 DEF SameCounts

LEMMA FieldCounts ==
    ASSUME NEW w, Good(w), NEW c \in Conns, NEW x,
           NEW f \in {"req", "resp", "keep", "discard", "upload", "idle", "body", "whole"}
    PROVE  SameCounts(w, [w EXCEPT !.conns[c][f] = x])
  <1> DEFINE k == [w.conns[c] EXCEPT ![f] = x]
  <1>1. k.conf = w.conns[c].conf
    BY DEF Good, ConnGood, ConnShape, ConnFields
  <1>2. [w EXCEPT !.conns[c][f] = x] = [w EXCEPT !.conns[c] = k]
    OBVIOUS
  <1> HIDE DEF k
  <1> QED
    BY <1>1, <1>2, OneCounts

LEMMA FieldSound ==
    ASSUME NEW w, Sound(w), NEW c \in Conns, NEW x,
           NEW f \in {"req", "resp", "keep", "discard", "upload", "idle"}
    PROVE  Sound([w EXCEPT !.conns[c][f] = x])
BY FieldTame, FieldCounts, CountsSound DEF Sound, Tame

\* One configuration's count or certificate is set, so that it is held again.
LEMMA GenSet ==
    ASSUME NEW conns, NEW gens, NEW live, NEW g \in Generations, NEW gen,
           GensShape(gens), live \in 0..GENS,
           \A c \in Conns : conns[c].conf \in 0..GENS,
           gen = [f \in GenFields |-> gen[f]], Held(gen, Cardinality(Users(conns, g)), live = g),
           \A h \in Generations \ {g} : Held(gens[h], Cardinality(Users(conns, h)), live = h)
    PROVE  Accounted(conns, [gens EXCEPT ![g] = gen], live)
  <1> DEFINE next == [gens EXCEPT ![g] = gen]
  <1>1. \A h \in Generations : next[h] = IF h = g THEN gen ELSE gens[h]
    BY DEF GensShape
  <1>2. next = [h \in Generations |-> next[h]]
    BY DEF GensShape
  <1> SUFFICES Accounted(conns, next, live)
    OBVIOUS
  <1> HIDE DEF next
  <1>3. GensShape(next)
    BY <1>1, <1>2 DEF GensShape
  <1>4. ASSUME NEW h \in Generations
        PROVE  Held(next[h], Cardinality(Users(conns, h)), live = h)
    <2>1. CASE h = g
      BY <1>1, <2>1
    <2>2. CASE h # g
      BY <1>1, <2>2
    <2> QED
      BY <2>1, <2>2
  <1> QED
    BY <1>3, <1>4 DEF Accounted

\* A configuration g that nobody uses and that is not the live one goes.
LEMMA GenFreed ==
    ASSUME NEW conns, NEW gens, NEW live, NEW g \in Generations,
           GensShape(gens), live \in 0..GENS, live # g,
           \A c \in Conns : conns[c].conf \in 0..GENS,
           Cardinality(Users(conns, g)) = 0,
           \A h \in Generations \ {g} : Held(gens[h], Cardinality(Users(conns, h)), live = h)
    PROVE  Accounted(conns, [gens EXCEPT ![g] = [cert |-> "none", refs |-> 0]], live)
  <1> DEFINE none == [cert |-> "none", refs |-> 0]
  <1>1. none = [f \in GenFields |-> none[f]] /\ Held(none, 0, FALSE)
    BY DEF GenFields, Held
  <1> HIDE DEF none
  <1>2. Held(none, Cardinality(Users(conns, g)), live = g)
    BY <1>1
  <1>3. Accounted(conns, [gens EXCEPT ![g] = none], live)
    BY <1>1, <1>2, GenSet
  <1> QED
    BY <1>3 DEF none

\* gen_free() of such a one.
LEMMA GenFreeSound ==
    ASSUME NEW w, Good(w), NEW g \in Generations, GensShape(w.gens),
           w.live \in 0..GENS, w.live # g, \A c \in Conns : w.conns[c].conf \in 0..GENS,
           Cardinality(Users(w.conns, g)) = 0,
           \A h \in Generations \ {g} : Held(w.gens[h], Cardinality(Users(w.conns, h)), w.live = h)
    PROVE  Sound(gen_free(w, g))
  <1> DEFINE v == gen_free(w, g)
  <1>1. /\ v.conns = w.conns /\ v.live = w.live
        /\ v.gens = [w.gens EXCEPT ![g] = [cert |-> "none", refs |-> 0]]
    BY DEF gen_free, Good, WebShape, WebFields
  <1>2. Good(v)
    BY GenFreeSame, SameIsTame DEF Good, Tame
  <1> HIDE DEF v
  <1>3. Accounted(w.conns, v.gens, w.live)
    BY <1>1, GenFreed
  <1>4. Sound(v)
    BY <1>1, <1>2, <1>3 DEF Sound
  <1> QED
    BY <1>4 DEF v

\* A configuration that is in use has a certificate; one without has no user.
LEMMA UsedIsThere ==
    ASSUME NEW w, Sound(w), NEW g \in Generations
    PROVE  /\ w.gens[g].refs = Cardinality(Users(w.conns, g)) /\ w.gens[g].refs \in Nat
           /\ w.gens[g].refs > 0 \/ w.live = g <=> w.gens[g].cert # "none"
           /\ w.gens[g] = [f \in GenFields |-> w.gens[g][f]]
BY UsersFinite DEF Sound, Accounted, Held, GensShape

\* A slot is closed: what it used counts one less and goes with its last user.
LEMMA FreeSound ==
    ASSUME NEW w, Sound(w), NEW c \in Conns
    PROVE  Sound(conn_free(w, c))
  <1> DEFINE g == w.conns[c].conf
             u == [w EXCEPT !.conns[c] = Closed, !.uploader = IF @ = c THEN NoConn ELSE @]
             less == [u EXCEPT !.gens[g].refs = @ - 1]
             gen == [w.gens[g] EXCEPT !.refs = @ - 1]
  <1>1. Good(w) /\ WebShape(w) /\ g \in 0..GENS
    BY DEF Sound, Good, Accounted
  <1>2. /\ u.conns = [w.conns EXCEPT ![c] = Closed] /\ WebShape(u)
        /\ u.gens = w.gens /\ u.live = w.live
    BY <1>1 DEF WebShape, WebFields
  <1>3. /\ less.conns = u.conns /\ less.live = u.live /\ WebShape(less)
        /\ less.gens = [u.gens EXCEPT ![g] = [u.gens[g] EXCEPT !.refs = u.gens[g].refs - 1]]
    <2>1. less = [u EXCEPT !.gens = [u.gens EXCEPT ![g] = [u.gens[g] EXCEPT !.refs = u.gens[g].refs - 1]]]
      OBVIOUS
    <2> HIDE DEF u, less
    <2> QED
      BY <1>2, <2>1 DEF WebShape, WebFields
  <1>4. conn_free(w, c) = https_conn_closed(u, g)
    BY DEF conn_free
  <1>5. https_conn_closed(u, g) =
          IF g = 0 THEN u
          ELSE IF less.gens[g].refs = 0 /\ g # less.live THEN gen_free(less, g) ELSE less
    BY DEF https_conn_closed
  <1> HIDE DEF u, less
  <1>6. \A d \in Conns : u.conns[d] = IF d = c THEN Closed ELSE w.conns[d]
    BY <1>1, <1>2 DEF Good
  <1>7. Closed.conf = 0
    BY DEF Closed
  <1>8. Good(conn_free(w, c))
    BY <1>1, FreeTame, TameGood
  <1>9. Good(u)
    <2>1. u.conns = [d \in Conns |-> u.conns[d]]
      BY <1>1, <1>2 DEF Good
    <2> QED
      BY <1>1, <1>2, <1>6, <2>1, ClosedGood DEF Good
  <1>10. \A d \in Conns : u.conns[d].conf = IF d = c THEN 0 ELSE w.conns[d].conf
    BY <1>6, <1>7
  <1>11. \A d \in Conns : u.conns[d].conf \in 0..GENS
    BY <1>10, WebAssumption DEF Sound, Accounted
  <1>12. CASE g = 0
    <2>1. SameCounts(w, u)
      BY <1>2, <1>10, <1>12 DEF SameCounts
    <2> QED
      BY <1>4, <1>5, <1>9, <1>12, <2>1, CountsSound
  <1>13. CASE g # 0
    <2>1. g \in Generations
      BY <1>1, <1>13, WebAssumption DEF Generations
    <2>2. \A h \in Generations :
            Cardinality(Users(u.conns, h)) =
              IF h = g THEN Cardinality(Users(w.conns, h)) - 1 ELSE Cardinality(Users(w.conns, h))
      BY <1>10, UserLeaves
    <2>3. c \in Users(w.conns, g)
      BY DEF Users
    <2>4. Cardinality(Users(w.conns, g)) # 0
      BY <2>3, UsersFinite, FS_EmptySet
    <2>5. /\ w.gens[g].refs = Cardinality(Users(w.conns, g)) /\ w.gens[g].refs \in Nat \ {0}
          /\ w.gens[g].cert # "none" /\ w.gens[g] = [f \in GenFields |-> w.gens[g][f]]
      BY <2>1, <2>4, UsedIsThere
    <2>61. Cardinality(Users(u.conns, g)) = w.gens[g].refs - 1
      BY <2>1, <2>2, <2>5
    <2>62. /\ gen = [f \in GenFields |-> gen[f]] /\ gen.cert # "none"
           /\ gen.refs = w.gens[g].refs - 1
      BY <2>5 DEF GenFields
    <2>7. less.gens = [w.gens EXCEPT ![g] = gen]
      BY <1>2, <1>3
    <2> HIDE DEF gen
    <2>6. /\ gen = [f \in GenFields |-> gen[f]] /\ gen.cert # "none"
          /\ gen.refs = Cardinality(Users(u.conns, g)) /\ gen.refs \in Nat
      <3>1. gen.refs = Cardinality(Users(u.conns, g))
        BY <2>61, <2>62
      <3>2. gen.refs \in Nat
        BY <3>1, UsersFinite
      <3> QED
        BY <2>62, <3>1, <3>2
    <2>8. /\ GensShape(w.gens) /\ w.live \in 0..GENS
          /\ \A h \in Generations \ {g} :
                Held(w.gens[h], Cardinality(Users(u.conns, h)), w.live = h)
      BY <2>2 DEF Sound, Accounted
    <2>9. Good(less)
      BY <1>3, <1>9 DEF Good
    <2>10. less.gens[g] = gen
      BY <2>1, <2>7, <2>8 DEF GensShape
    <2>11. CASE gen.refs = 0 /\ g # w.live
      <3>1. conn_free(w, c) = gen_free(less, g)
        BY <1>2, <1>3, <1>4, <1>5, <1>13, <2>10, <2>11
      <3>2. \A h \in Generations : less.gens[h] = IF h = g THEN gen ELSE w.gens[h]
        BY <2>7, <2>8 DEF GensShape
      <3>3. GensShape(less.gens)
        BY <2>6, <2>7, <2>8, <3>2 DEF GensShape
      <3>4. /\ less.conns = u.conns /\ less.live = w.live
            /\ \A h \in Generations \ {g} :
                  Held(less.gens[h], Cardinality(Users(less.conns, h)), less.live = h)
        BY <1>2, <1>3, <2>8, <3>2
      <3>5. Cardinality(Users(less.conns, g)) = 0
        BY <2>6, <2>11, <3>4
      <3>6. /\ less.live \in 0..GENS /\ less.live # g
            /\ \A d \in Conns : less.conns[d].conf \in 0..GENS
        BY <1>11, <2>8, <2>11, <3>4
      <3>7. Sound(gen_free(less, g))
        BY <2>1, <2>9, <3>3, <3>4, <3>5, <3>6, GenFreeSound
      <3> QED
        BY <3>1, <3>7
    <2>12. CASE ~(gen.refs = 0 /\ g # w.live)
      <3>1. conn_free(w, c) = less
        BY <1>2, <1>3, <1>4, <1>5, <1>13, <2>10, <2>12
      <3>2. Held(gen, Cardinality(Users(u.conns, g)), w.live = g)
        BY <2>6, <2>12 DEF Held
      <3>3. Accounted(u.conns, less.gens, w.live)
        BY <1>11, <2>1, <2>6, <2>7, <2>8, <3>2, GenSet
      <3> QED
        BY <1>2, <1>3, <2>9, <3>1, <3>3 DEF Sound
    <2> QED
      BY <2>11, <2>12
  <1> QED
    BY <1>12, <1>13

\* A slot that was closed uses nothing.
LEMMA FreedUsesNone ==
    ASSUME NEW w, Good(w), NEW c \in Conns
    PROVE  conn_free(w, c).conns[c].conf = 0
  <1> DEFINE u == [w EXCEPT !.conns[c] = Closed, !.uploader = IF @ = c THEN NoConn ELSE @]
  <1>1. WebShape(u) /\ u.conns[c] = Closed
    BY DEF Good, WebShape, WebFields
  <1>2. conn_free(w, c) = https_conn_closed(u, w.conns[c].conf)
    BY DEF conn_free
  <1> HIDE DEF u
  <1>3. SameConns(u, conn_free(w, c))
    BY <1>1, <1>2, ConnClosedSame
  <1> QED
    BY <1>1, <1>3 DEF SameConns, Closed

LEMMA ResetSound ==
    ASSUME NEW w, Sound(w), NEW c \in Conns
    PROVE  Sound(conn_reset_request(w, c))
  <1> DEFINE k == [w.conns[c] EXCEPT !.served = TRUE, !.req = FALSE, !.resp = FALSE,
                                     !.body = "none", !.upload = FALSE, !.discard = FALSE,
                                     !.idle = 0]
  <1>1. k.conf = w.conns[c].conf
    BY DEF Sound, Good, ConnGood, ConnShape, ConnFields
  <1>2. conn_reset_request(w, c) = [w EXCEPT !.conns[c] = k]
    BY DEF conn_reset_request
  <1> HIDE DEF k
  <1>3. SameCounts(w, conn_reset_request(w, c))
    BY <1>1, <1>2, OneCounts DEF Sound
  <1> QED
    BY <1>3, ResetTame, TameGood, CountsSound DEF Sound

LEMMA SendSound ==
    ASSUME NEW w, Sound(w), NEW c \in Conns, NEW v \in send_more(w, c)
    PROVE  Sound(v)
  <1>1. v \in {w, conn_reset_request(w, c), [w EXCEPT !.conns[c].resp = FALSE], conn_free(w, c)}
    BY DEF send_more
  <1>2. Sound([w EXCEPT !.conns[c].resp = FALSE])
    BY FieldSound
  <1> QED
    BY <1>1, <1>2, ResetSound, FreeSound

LEMMA RespondSound ==
    ASSUME NEW w, Sound(w), NEW c \in Conns, NEW v \in respond(w, c)
    PROVE  Sound(v)
  <1> DEFINE u == [w EXCEPT !.conns[c].resp = TRUE]
  <1>1. Sound(u)
    BY FieldSound
  <1>2. v \in send_more(u, c)
    BY DEF respond
  <1> HIDE DEF u
  <1> QED
    BY <1>1, <1>2, SendSound

LEMMA HeardSound ==
    ASSUME Sound(web), NEW c \in Conns, NEW r
    PROVE  Sound(Heard(c, r)) /\ Sound(Final(c))
  <1> DEFINE keep == http_req_keep_alive(r)
             k == [web.conns[c] EXCEPT !.req = TRUE, !.idle = 0, !.keep = keep]
             l == [web.conns[c] EXCEPT !.req = TRUE, !.idle = 0, !.keep = FALSE]
  <1>1. Heard(c, r) = [web EXCEPT !.conns[c] = k]
    BY DEF Heard
  <1>2. Final(c) = [web EXCEPT !.conns[c] = l]
    BY DEF Final
  <1> HIDE DEF keep
  <1>3. k.conf = web.conns[c].conf /\ l.conf = web.conns[c].conf
    BY DEF Sound, Good, ConnGood, ConnShape, ConnFields
  <1> HIDE DEF k, l
  <1>4. SameCounts(web, Heard(c, r)) /\ SameCounts(web, Final(c))
    BY <1>1, <1>2, <1>3, OneCounts DEF Sound
  <1> QED
    BY <1>4, HeardTame, FinalTame, TameGood, CountsSound DEF Sound

\* One connection is changed, but not the configuration it uses.
LEMMA OneSound ==
    ASSUME NEW w, Sound(w), NEW c \in Conns, NEW k, ConnGood(k), k.conf = w.conns[c].conf
    PROVE  Sound([w EXCEPT !.conns[c] = k])
  <1> DEFINE u == [w EXCEPT !.conns[c] = k]
  <1>1. SameCounts(w, u)
    BY OneCounts DEF Sound
  <1>2. WebShape(u) /\ u.conns = [w.conns EXCEPT ![c] = k]
    BY DEF Sound, Good, WebShape, WebFields
  <1> SUFFICES Sound(u)
    OBVIOUS
  <1> HIDE DEF u
  <1>3. u.conns = [d \in Conns |-> u.conns[d]]
    BY <1>2 DEF Sound, Good
  <1>4. \A d \in Conns : u.conns[d] = IF d = c THEN k ELSE w.conns[d]
    BY <1>2 DEF Sound, Good
  <1>5. Good(u)
    BY <1>2, <1>3, <1>4 DEF Sound, Good
  <1> QED
    BY <1>1, <1>5, CountsSound

\* An answer from a shared buffer.
LEMMA StaticSound ==
    ASSUME NEW w, Sound(w), NEW c \in Conns, w.conns[c].pcb, NEW body,
           NEW v \in respond_static(w, c, body)
    PROVE  Sound(v)
  <1> DEFINE k == [w.conns[c] EXCEPT !.resp = TRUE, !.body = body, !.whole = TRUE]
             u == [w EXCEPT !.conns[c] = k]
  <1>1. v \in send_more(u, c)
    BY DEF respond_static
  <1>2. ConnGood(w.conns[c])
    BY DEF Sound, Good
  <1>3. k.conf = w.conns[c].conf /\ ConnGood(k)
    BY <1>2 DEF ConnGood, ConnShape, ConnFields
  <1> HIDE DEF k
  <1>4. Sound(u)
    BY <1>3, OneSound
  <1> HIDE DEF u
  <1> QED
    BY <1>1, <1>4, SendSound

------------------------------------------------------------------------------
(* The live configuration *)

\* A spare is free, and so nobody's.
LEMMA SpareFree ==
    ASSUME NEW w, Sound(w), NEW g \in Spares(w)
    PROVE  g \in Generations /\ w.gens[g].cert = "none" /\ w.gens[g].refs = 0 /\ w.live # g
  <1>1. g \in Generations /\ w.gens[g].cert = "none"
    BY DEF Spares
  <1>2. /\ w.gens[g].refs \in Nat
        /\ w.gens[g].refs > 0 \/ w.live = g <=> w.gens[g].cert # "none"
    BY <1>1, UsedIsThere
  <1>3. ~(w.gens[g].refs > 0) /\ w.live # g
    BY <1>1, <1>2
  <1> QED
    BY <1>1, <1>2, <1>3

LEMMA LiveIsThere ==
    ASSUME NEW w, Sound(w), NEW g \in Generations, w.live = g
    PROVE  w.gens[g].refs = Cardinality(Users(w.conns, g)) /\ w.gens[g].cert # "none"
  <1>1. Held(w.gens[g], Cardinality(Users(w.conns, g)), TRUE)
    BY DEF Sound, Accounted
  <1> QED
    BY <1>1 DEF Held

\* The live one changes from the old, which goes unless it is in use, to g.
LEMMA LiveChanges ==
    ASSUME NEW w, Good(w), NEW old \in 0..GENS, NEW v,
           WebShape(v), v.conns = w.conns, v.live \in 0..GENS, v.live # old,
           GensShape(v.gens), \A c \in Conns : w.conns[c].conf \in 0..GENS,
           \A h \in Generations \ {old} :
              Held(v.gens[h], Cardinality(Users(w.conns, h)), v.live = h),
           old # 0 => /\ v.gens[old].refs = Cardinality(Users(w.conns, old))
                      /\ v.gens[old].cert # "none"
    PROVE  Sound(IF old # 0 /\ v.gens[old].refs = 0 THEN gen_free(v, old) ELSE v)
  <1>1. Good(v)
    BY DEF Good
  <1>2. CASE old = 0
    <2>1. \A h \in Generations : h # old
      BY <1>2, WebAssumption DEF Generations
    <2> QED
      BY <1>1, <1>2, <2>1 DEF Sound, Accounted
  <1>3. CASE old # 0
    <2>1. old \in Generations
      BY <1>3, WebAssumption DEF Generations
    <2>2. CASE v.gens[old].refs = 0
      BY <1>1, <1>3, <2>1, <2>2, GenFreeSound
    <2>3. CASE v.gens[old].refs # 0
      <3>1. v.gens[old].refs > 0
        BY <1>3, <2>3, UsersFinite
      <3>2. \A h \in Generations : Held(v.gens[h], Cardinality(Users(w.conns, h)), v.live = h)
        BY <1>3, <2>1, <3>1 DEF Held
      <3> QED
        BY <1>1, <1>3, <2>3, <3>2 DEF Sound, Accounted
    <2> QED
      BY <2>2, <2>3
  <1> QED
    BY <1>2, <1>3

LEMMA MakeLiveSound ==
    ASSUME NEW w, Sound(w), NEW g \in Spares(w), NEW cert, cert # "none"
    PROVE  Sound(make_live(w, g, cert))
  <1> DEFINE old == w.live
             v == [w EXCEPT !.gens[g].cert = cert, !.live = g]
             gen == [w.gens[g] EXCEPT !.cert = cert]
  <1>1. /\ g \in Generations /\ w.gens[g].cert = "none" /\ w.gens[g].refs = 0 /\ old # g
        /\ Good(w) /\ WebShape(w) /\ GensShape(w.gens) /\ old \in 0..GENS
        /\ \A c \in Conns : w.conns[c].conf \in 0..GENS
    BY SpareFree DEF Sound, Good, Accounted
  <1>2. WebShape(v) /\ v.conns = w.conns /\ v.live = g /\ v.gens = [w.gens EXCEPT ![g] = gen]
    BY <1>1 DEF WebShape, WebFields
  <1>3. make_live(w, g, cert) =
          IF old # 0 /\ w.gens[old].refs = 0 THEN gen_free(v, old) ELSE v
    BY DEF make_live
  <1>4. /\ gen.cert = cert /\ gen.refs = 0 /\ gen = [f \in GenFields |-> gen[f]]
    BY <1>1 DEF GensShape, GenFields
  <1> HIDE DEF v, gen
  <1>5. \A h \in Generations : v.gens[h] = IF h = g THEN gen ELSE w.gens[h]
    BY <1>1, <1>2 DEF GensShape
  <1>6. GensShape(v.gens)
    <2>1. v.gens = [h \in Generations |-> v.gens[h]]
      BY <1>1, <1>2 DEF GensShape
    <2>2. ASSUME NEW h \in Generations PROVE v.gens[h] = [f \in GenFields |-> v.gens[h][f]]
      BY <1>1, <1>4, <1>5 DEF GensShape
    <2> QED
      BY <2>1, <2>2 DEF GensShape
  <1>7. Cardinality(Users(w.conns, g)) = 0
    BY <1>1, UsedIsThere
  <1>8. Held(gen, 0, TRUE)
    BY <1>4 DEF Held
  <1>9. ASSUME NEW h \in Generations \ {old}
        PROVE  Held(v.gens[h], Cardinality(Users(w.conns, h)), v.live = h)
    <2>1. CASE h = g
      BY <1>2, <1>5, <1>7, <1>8, <2>1
    <2>2. CASE h # g
      <3>1. Held(w.gens[h], Cardinality(Users(w.conns, h)), FALSE)
        BY <1>9 DEF Sound, Accounted
      <3> QED
        BY <1>2, <1>5, <2>2, <3>1
    <2> QED
      BY <2>1, <2>2
  <1>10. old # 0 => /\ v.gens[old] = w.gens[old]
                    /\ v.gens[old].refs = Cardinality(Users(w.conns, old))
                    /\ v.gens[old].cert # "none"
    <2> SUFFICES ASSUME old # 0
                 PROVE  /\ v.gens[old] = w.gens[old]
                        /\ v.gens[old].refs = Cardinality(Users(w.conns, old))
                        /\ v.gens[old].cert # "none"
      OBVIOUS
    <2>1. old \in Generations
      BY <1>1, WebAssumption DEF Generations
    <2>2. v.gens[old] = w.gens[old]
      BY <1>1, <1>5, <2>1
    <2> QED
      BY <2>1, <2>2, LiveIsThere
  <1>11. v.live \in 0..GENS /\ v.live # old
    BY <1>1, <1>2, WebAssumption DEF Generations
  <1>12. Sound(IF old # 0 /\ v.gens[old].refs = 0 THEN gen_free(v, old) ELSE v)
    <2> HIDE DEF old
    <2> QED
      BY <1>1, <1>2, <1>6, <1>9, <1>10, <1>11, LiveChanges, ZenonT(40)
  <1> QED
    BY <1>3, <1>10, <1>12

LEMMA UnloadedSound ==
    ASSUME NEW w, Sound(w)
    PROVE  Sound(Unloaded(w))
  <1> DEFINE old == w.live
             v == [w EXCEPT !.live = 0]
  <1>1. /\ Good(w) /\ WebShape(w) /\ GensShape(w.gens) /\ old \in 0..GENS
        /\ \A c \in Conns : w.conns[c].conf \in 0..GENS
    BY DEF Sound, Good, Accounted
  <1>2. CASE old = 0
    BY <1>2 DEF Unloaded
  <1>3. CASE old # 0
    <2>1. WebShape(v) /\ v.conns = w.conns /\ v.live = 0 /\ v.gens = w.gens
      BY <1>1 DEF WebShape, WebFields
    <2>2. Unloaded(w) = IF old # 0 /\ w.gens[old].refs = 0 THEN gen_free(v, old) ELSE v
      BY <1>3 DEF Unloaded
    <2> HIDE DEF v
    <2>3. old \in Generations
      BY <1>1, <1>3, WebAssumption DEF Generations
    <2>4. /\ v.gens[old].refs = Cardinality(Users(w.conns, old)) /\ v.gens[old].cert # "none"
      BY <2>1, <2>3, LiveIsThere
    <2>5. ASSUME NEW h \in Generations \ {old}
          PROVE  Held(v.gens[h], Cardinality(Users(w.conns, h)), v.live = h)
      <3>1. Held(w.gens[h], Cardinality(Users(w.conns, h)), FALSE)
        BY <2>5 DEF Sound, Accounted
      <3>2. h # 0
        BY WebAssumption DEF Generations
      <3> QED
        BY <2>1, <3>1, <3>2
    <2>6. v.live \in 0..GENS /\ v.live # old
      BY <1>3, <2>1, WebAssumption
    <2>7. Sound(IF old # 0 /\ v.gens[old].refs = 0 THEN gen_free(v, old) ELSE v)
      <3> HIDE DEF old
      <3> QED
        BY <1>1, <2>1, <2>4, <2>5, <2>6, LiveChanges
    <2> QED
      BY <2>1, <2>2, <2>7
  <1> QED
    BY <1>2, <1>3

LEMMA SyncSound ==
    ASSUME NEW w, Sound(w), NEW on
    PROVE  Sound(http_tls_sync(w, on))
  <1> DEFINE v == http_tls_sync(w, on)
  <1>1. SameConns(w, v)
    BY SyncSame DEF Sound, Good
  <1>2. v.gens = w.gens /\ v.live = w.live
    BY DEF http_tls_sync, Sound, Good, WebShape, WebFields
  <1> HIDE DEF v
  <1>3. Good(v)
    BY <1>1, SameIsTame, TameGood DEF Sound
  <1>4. Sound(v)
    BY <1>1, <1>2, <1>3 DEF Sound, SameConns
  <1> QED
    BY <1>4 DEF v

LEMMA UploaderSound ==
    ASSUME NEW w, Sound(w), NEW c
    PROVE  Sound([w EXCEPT !.uploader = c])
  <1> DEFINE v == [w EXCEPT !.uploader = c]
  <1>1. SameConns(w, v)
    BY UploaderSame DEF Sound, Good
  <1>2. v.gens = w.gens /\ v.live = w.live
    BY DEF Sound, Good, WebShape, WebFields
  <1> HIDE DEF v
  <1>3. Good(v)
    BY <1>1, SameIsTame, TameGood DEF Sound
  <1>4. Sound(v)
    BY <1>1, <1>2, <1>3 DEF Sound, SameConns
  <1> QED
    BY <1>4 DEF v

------------------------------------------------------------------------------
(* The copies in flash *)

LEMMA CopyNames ==
    ASSUME NEW st, StoreNames(st), NEW i \in 0..1, NEW rec, Names(rec)
    PROVE  StoreNames([st EXCEPT !.copy[i] = rec])
  <1> DEFINE next == [st EXCEPT !.copy[i] = rec]
  <1> SUFFICES StoreNames(next)
    OBVIOUS
  <1>1. /\ next = [f \in {"copy", "slot", "seq"} |-> next[f]]
        /\ next.copy = [st.copy EXCEPT ![i] = rec]
    BY DEF StoreNames
  <1> HIDE DEF next
  <1>2. /\ next.copy = [j \in 0..1 |-> next.copy[j]]
        /\ \A j \in 0..1 : next.copy[j] = IF j = i THEN rec ELSE st.copy[j]
    BY <1>1 DEF StoreNames
  <1>3. \A j \in 0..1 : Names(next.copy[j])
    BY <1>2 DEF StoreNames
  <1> QED
    BY <1>1, <1>2, <1>3 DEF StoreNames

LEMMA BlankNames == Names(Blank)
BY DEF Names, Blank, tls_record_decode

LEMMA TornNames == ASSUME NEW seq PROVE Names(Torn(seq))
BY DEF Names, Torn, tls_record_decode

LEMMA OtherCopyIs == OtherCopy(store) \in 0..1
BY DEF OtherCopy

LEMMA RecordNames ==
    ASSUME NEW pem, NEW rec \in Records(pem)
    PROVE  rec.cert # "none"
  <1>1. PICK b : b.certs[1] \in Current /\ rec \in tls_record_encode(b, store.seq + 1)
    BY DEF Records
  <1>2. rec.cert = b.certs[1]
    BY <1>1 DEF tls_record_encode
  <1> QED
    BY <1>1, <1>2, WebAssumption

LEMMA ErasedNames ==
    ASSUME NEW st, StoreNames(st), NEW i \in 0..1, NEW next \in Erased(st, i)
    PROVE  StoreNames(next)
BY CopyNames, BlankNames DEF Erased

LEMMA SlotNames ==
    ASSUME NEW st, StoreNames(st), NEW slot
    PROVE  StoreNames([st EXCEPT !.slot = slot])
BY DEF StoreNames

\* A save: a record takes the place of the older copy.
LEMMA StoredNames ==
    ASSUME StoreNames(store), NEW rec, Names(rec)
    PROVE  StoreNames(Stored(store, rec))
  <1> DEFINE copy == [store.copy EXCEPT ![OtherCopy(store)] = rec]
             next == [copy |-> copy, slot |-> OtherCopy(store), seq |-> rec.seq]
  <1>1. Stored(store, rec) = next
    BY DEF Stored
  <1>2. /\ copy = [j \in 0..1 |-> copy[j]]
        /\ \A j \in 0..1 : copy[j] = IF j = OtherCopy(store) THEN rec ELSE store.copy[j]
    BY OtherCopyIs DEF StoreNames
  <1> HIDE DEF copy
  <1>3. next = [f \in {"copy", "slot", "seq"} |-> next[f]] /\ next.copy = copy
    OBVIOUS
  <1> HIDE DEF next
  <1>4. \A j \in 0..1 : Names(copy[j])
    BY <1>2 DEF StoreNames
  <1> QED
    BY <1>1, <1>2, <1>3, <1>4 DEF StoreNames

\* How a start begins.
LEMMA NothingInUse ==
    ASSUME NEW w, Good(w), w.conns = [c \in Conns |-> Closed], w.live = 0,
           w.gens = [g \in Generations |-> [cert |-> "none", refs |-> 0]]
    PROVE  Sound(w)
  <1>1. \A c \in Conns : w.conns[c].conf = 0
    BY DEF Closed
  <1>2. GensShape(w.gens)
    BY DEF GensShape, GenFields
  <1>3. ASSUME NEW g \in Generations
        PROVE  Held(w.gens[g], Cardinality(Users(w.conns, g)), w.live = g)
    <2>1. g # 0
      BY WebAssumption DEF Generations
    <2>2. Cardinality(Users(w.conns, g)) = 0
      BY <1>1, NobodyUses
    <2> QED
      BY <2>1, <2>2 DEF Held
  <1>4. w.live \in 0..GENS /\ \A c \in Conns : w.conns[c].conf \in 0..GENS
    BY <1>1, WebAssumption
  <1> QED
    BY <1>2, <1>3, <1>4 DEF Sound, Accounted

\* A start: the newest copy is the live one, or there is none.
LEMMA BootedSound ==
    ASSUME NEW st, StoreNames(st), NEW on, Booted(st, on)
    PROVE  Sound(web') /\ StoreNames(store')
  <1> DEFINE w == [conns |-> [c \in Conns |-> Closed],
                   gens |-> [g \in Generations |-> [cert |-> "none", refs |-> 0]],
                   live |-> 0, uploader |-> NoConn, listener |-> FALSE]
  <1>1. \/ web' = w /\ store' = [st EXCEPT !.slot = -1, !.seq = 0]
        \/ \E i \in Newest(st) :
              /\ web' = http_tls_sync(make_live(w, 1, st.copy[i].cert), on)
              /\ store' = [st EXCEPT !.slot = i, !.seq = st.copy[i].seq]
    BY DEF Booted
  <1>2. /\ WebShape(w) /\ w.conns = [c \in Conns |-> Closed] /\ w.live = 0
        /\ w.gens = [g \in Generations |-> [cert |-> "none", refs |-> 0]]
    BY DEF WebShape, WebFields
  <1> HIDE DEF w
  <1>3. Good(w)
    BY <1>2, ClosedGood DEF Good
  <1>7. Sound(w)
    BY <1>2, <1>3, NothingInUse
  <1>8. 1 \in Spares(w)
    BY <1>2, WebAssumption DEF Spares, Generations
  <1>9. CASE web' = w /\ store' = [st EXCEPT !.slot = -1, !.seq = 0]
    BY <1>7, <1>9 DEF StoreNames
  <1>10. CASE \E i \in Newest(st) :
                /\ web' = http_tls_sync(make_live(w, 1, st.copy[i].cert), on)
                /\ store' = [st EXCEPT !.slot = i, !.seq = st.copy[i].seq]
    <2>1. PICK i \in Newest(st) :
                /\ web' = http_tls_sync(make_live(w, 1, st.copy[i].cert), on)
                /\ store' = [st EXCEPT !.slot = i, !.seq = st.copy[i].seq]
      BY <1>10
    <2>2. st.copy[i].cert # "none"
      BY DEF Newest, StoreNames, Names
    <2>3. Sound(web')
      BY <1>7, <1>8, <2>1, <2>2, MakeLiveSound, SyncSound
    <2>4. StoreNames(store')
      BY <2>1 DEF StoreNames
    <2> QED
      BY <2>3, <2>4
  <1> QED
    BY <1>1, <1>9, <1>10

------------------------------------------------------------------------------
(* The steps: first those that leave the flash alone *)

Calm == Sound(web') /\ StoreNames(store')

LEMMA InitSound == WebInit => GInv
  <1> SUFFICES ASSUME WebInit PROVE GInv
    OBVIOUS
  <1>1. web = [conns |-> [c \in Conns |-> Closed],
               gens |-> [g \in Generations |-> [cert |-> "none", refs |-> 0]],
               live |-> 0, uploader |-> NoConn, listener |-> FALSE]
    BY DEF WebInit
  <1>2. /\ web.conns = [c \in Conns |-> Closed] /\ web.live = 0
        /\ web.gens = [g \in Generations |-> [cert |-> "none", refs |-> 0]]
    BY <1>1
  <1>3. IInv
    BY InitHolds
  <1>7. Sound(web)
    BY <1>2, <1>3, NothingInUse DEF IInv
  <1>8. store = [copy |-> [i \in 0..1 |-> Blank], slot |-> -1, seq |-> 0]
    BY DEF WebInit
  <1>9. StoreNames(store)
    BY <1>8, BlankNames DEF StoreNames
  <1> QED
    BY <1>3, <1>7, <1>9 DEF GInv

\* A connection is opened: the live configuration has one more user.
LEMMA AcceptCalm == GInv /\ Accept => Calm
  <1> SUFFICES ASSUME GInv, Accept PROVE Calm
    OBVIOUS
  <1>1. PICK tls \in BOOLEAN : accept_cb(tls)
    BY DEF Accept
  <1>2. PICK c \in Conns :
          LET w == conn_free(web, c)
          IN  web' = IF tls /\ w.live = 0 THEN w
                     ELSE LET g == IF tls THEN w.live ELSE 0
                              k == [Closed EXCEPT !.pcb = TRUE, !.conf = g]
                          IN  https_conn_opened([w EXCEPT !.conns[c] = k], g)
    BY <1>1 DEF accept_cb, idle_slot, Idle
  <1> DEFINE w == conn_free(web, c)
             g == IF tls THEN w.live ELSE 0
             k == [Closed EXCEPT !.pcb = TRUE, !.conf = g]
             v == [w EXCEPT !.conns[c] = k]
             u == https_conn_opened(v, g)
  <1>3. web' = w \/ web' = u
    BY <1>2
  <1>4. Sound(w) /\ w.conns[c].conf = 0 /\ g \in 0..GENS /\ (g # 0 => w.live = g)
    <2>1. Sound(w)
      BY FreeSound DEF GInv
    <2>2. w.conns[c].conf = 0
      BY FreedUsesNone DEF GInv, Sound
    <2> HIDE DEF w
    <2>3. g \in 0..GENS /\ (g # 0 => w.live = g)
      BY <2>1, WebAssumption DEF Sound, Accounted
    <2> QED
      BY <2>1, <2>2, <2>3
  <1>5. StoreNames(store')
    BY DEF Accept, GInv
  <1> HIDE DEF w, g
  <1>6. k.conf = g /\ ConnGood(k)
    BY DEF ConnGood, ConnShape, ConnFields, Closed
  <1> HIDE DEF k
  <1>7. /\ WebShape(v) /\ v.conns = [w.conns EXCEPT ![c] = k] /\ v.gens = w.gens
        /\ v.live = w.live
    BY <1>4 DEF Sound, Good, WebShape, WebFields
  <1> HIDE DEF v
  <1>8. /\ v.conns = [d \in Conns |-> v.conns[d]]
        /\ \A d \in Conns : v.conns[d] = IF d = c THEN k ELSE w.conns[d]
    BY <1>4, <1>7 DEF Sound, Good
  <1>9. Good(v)
    BY <1>4, <1>6, <1>7, <1>8 DEF Sound, Good
  <1>10. \A d \in Conns : v.conns[d].conf = IF d = c THEN g ELSE w.conns[d].conf
    BY <1>6, <1>8
  <1>11. CASE g = 0
    <2>1. SameCounts(w, v)
      BY <1>4, <1>7, <1>10, <1>11 DEF SameCounts
    <2>2. u = v
      BY <1>11 DEF https_conn_opened
    <2> QED
      BY <1>3, <1>4, <1>5, <1>9, <2>1, <2>2, CountsSound DEF Calm
  <1>12. CASE g # 0
    <2> DEFINE gen == [v.gens[g] EXCEPT !.refs = @ + 1]
    <2>1. g \in Generations /\ w.live = g
      BY <1>4, <1>12, WebAssumption DEF Generations
    <2>2. /\ w.gens[g].refs = Cardinality(Users(w.conns, g)) /\ w.gens[g].cert # "none"
          /\ w.gens[g] = [f \in GenFields |-> w.gens[g][f]]
      BY <1>4, <2>1, UsedIsThere, LiveIsThere
    <2>3. \A h \in Generations :
            Cardinality(Users(v.conns, h)) =
              IF h = g THEN Cardinality(Users(w.conns, h)) + 1 ELSE Cardinality(Users(w.conns, h))
      BY <1>4, <1>10, UserComes
    <2>4. /\ gen.refs = w.gens[g].refs + 1 /\ gen.cert # "none"
          /\ gen = [f \in GenFields |-> gen[f]]
      BY <1>7, <2>2 DEF GenFields
    <2>5. /\ u.conns = v.conns /\ u.live = v.live
          /\ u.gens = [v.gens EXCEPT ![g] = gen]
      BY <1>7, <1>12 DEF https_conn_opened, WebShape, WebFields
    <2>6. SameConns(v, u)
      BY <1>7, ConnOpenedSame
    <2> HIDE DEF gen, u
    <2>7. Held(gen, Cardinality(Users(v.conns, g)), TRUE)
      BY <2>1, <2>2, <2>3, <2>4 DEF Held
    <2>8. \A h \in Generations \ {g} :
            Held(v.gens[h], Cardinality(Users(v.conns, h)), v.live = h)
      BY <1>4, <1>7, <2>3 DEF Sound, Accounted
    <2>9. /\ GensShape(v.gens) /\ v.live \in 0..GENS
          /\ \A d \in Conns : v.conns[d].conf \in 0..GENS
      BY <1>4, <1>7, <1>10 DEF Sound, Accounted
    <2>10. Held(gen, Cardinality(Users(v.conns, g)), v.live = g)
      BY <1>7, <2>1, <2>7
    <2>11. Accounted(v.conns, [v.gens EXCEPT ![g] = gen], v.live)
      BY <2>1, <2>4, <2>8, <2>9, <2>10, GenSet
    <2>12. Good(u)
      BY <1>9, <2>6, SameIsTame, TameGood
    <2>13. Sound(u)
      BY <2>5, <2>11, <2>12 DEF Sound
    <2> QED
      BY <1>3, <1>4, <1>5, <2>13 DEF Calm, u
  <1> QED
    BY <1>11, <1>12

LEMMA RecvRestSound ==
    ASSUME GInv, NEW c \in Conns, RecvRest(c)
    PROVE  Sound(web')
  <1> DEFINE w == [web EXCEPT !.conns[c].idle = 0]
             done == [w EXCEPT !.conns[c].discard = FALSE]
  <1>1. \/ web' \in {w, done, conn_free(done, c)}
        \/ web' = [w EXCEPT !.conns[c].keep = FALSE]
        \/ web' = [w EXCEPT !.conns[c].req = TRUE]
    BY DEF RecvRest
  <1>2. Sound(w)
    BY FieldSound DEF GInv
  <1> HIDE DEF w
  <1>3. Sound(done)
    BY <1>2, FieldSound
  <1> HIDE DEF done
  <1>4. Sound(conn_free(done, c))
    BY <1>3, FreeSound
  <1>5. Sound([w EXCEPT !.conns[c].keep = FALSE])
    BY <1>2, FieldSound
  <1>6. Sound([w EXCEPT !.conns[c].req = TRUE])
    BY <1>2, FieldSound
  <1> QED
    BY <1>1, <1>2, <1>3, <1>4, <1>5, <1>6

LEMMA ConnectionSound ==
    ASSUME GInv, NEW c \in Conns, Sent(c) \/ poll_cb(c) \/ Hangup(c)
    PROVE  Sound(web')
  <1>1. Sound(web)
    BY DEF GInv
  <1>2. CASE Sent(c)
    BY <1>1, <1>2, SendSound DEF Sent
  <1>3. CASE poll_cb(c)
    <2>1. web' = conn_free(web, c) \/ web' = [web EXCEPT !.conns[c].idle = web.conns[c].idle + 1]
      BY <1>3 DEF poll_cb
    <2>2. ASSUME NEW n PROVE Sound([web EXCEPT !.conns[c].idle = n])
      BY <1>1, FieldSound
    <2> QED
      BY <1>1, <2>1, <2>2, FreeSound
  <1>4. CASE Hangup(c)
    BY <1>1, <1>4, FreeSound DEF Hangup
  <1> QED
    BY <1>2, <1>3, <1>4

\* Short answers and those of the console
LEMMA ShortSound ==
    ASSUME GInv, NEW c \in Conns, NEW r,
           Turned(c, r) \/ GetShort(c, r) \/ PostConsole(c, r)
    PROVE  Sound(web')
  <1>1. web' \in respond(Heard(c, r), c) \/ web' \in respond(Final(c), c)
    BY DEF Turned, GetShort, PostConsole
  <1> QED
    BY <1>1, HeardSound, RespondSound DEF GInv

\* Answers from shared buffers
LEMMA StreamSound ==
    ASSUME GInv, NEW c \in Conns, NEW r, NEW body \in Streams, GetStream(c, r, body)
    PROVE  Sound(web')
  <1> DEFINE w == Heard(c, r)
             v == Rebuilt(w, body)
  <1>1. body # "none"
    BY WebAssumption
  <1>2. web.conns[c].pcb
    BY DEF GetStream, Handled, Asks
  <1>3. Sound(w) /\ w.conns[c].pcb
    BY <1>2, HeardSound, HeardTame DEF GInv, IInv
  <1>4. web' \in IF busy(w, body) THEN respond(w, c) ELSE respond_static(v, c, body)
    BY DEF GetStream
  <1> HIDE DEF w
  <1>5. CASE busy(w, body)
    BY <1>3, <1>4, <1>5, RespondSound
  <1>6. CASE ~busy(w, body)
    <2>1. SameConns(w, v)
      BY <1>1, <1>3, <1>6, NotBusy, RebuiltSame DEF Sound
    <2>2. v.gens = w.gens /\ v.live = w.live
      BY <1>3 DEF Rebuilt, Sound, Good, WebShape, WebFields
    <2>3. web' \in respond_static(v, c, body)
      BY <1>4, <1>6
    <2> HIDE DEF v
    <2>4. Good(v)
      BY <1>3, <2>1, SameIsTame, TameGood DEF Sound
    <2>5. Sound(v) /\ v.conns[c].pcb
      BY <1>3, <2>1, <2>2, <2>4 DEF Sound, SameConns
    <2> QED
      BY <2>3, <2>5, StaticSound
  <1> QED
    BY <1>5, <1>6

LEMMA GetConsoleSound ==
    ASSUME GInv, NEW c \in Conns, NEW r, GetConsole(c, r)
    PROVE  Sound(web')
  <1> DEFINE w == Heard(c, r)
  <1>1. web.conns[c].pcb
    BY DEF GetConsole, Handled, Asks
  <1>2. Sound(w) /\ w.conns[c].pcb
    BY <1>1, HeardSound, HeardTame DEF GInv, IInv
  <1>3. web' \in respond_static(w, c, "console") \/ web' \in respond(w, c)
    BY DEF GetConsole
  <1> HIDE DEF w
  <1> QED
    BY <1>2, <1>3, StaticSound, RespondSound

LEMMA RunBatchSound ==
    ASSUME GInv, RunBatch
    PROVE  Sound(web')
  <1>1. web' = Rebuilt(web, "console") /\ Unheld(web, "console") /\ Sound(web)
    BY DEF RunBatch, GInv, IInv, BatchOwns
  <1>2. SameConns(web, web')
    BY <1>1, RebuiltSame DEF Sound
  <1>3. web'.gens = web.gens /\ web'.live = web.live
    BY <1>1 DEF Rebuilt, Sound, Good, WebShape, WebFields
  <1>4. Good(web')
    BY <1>1, <1>2, SameIsTame, TameGood DEF Sound
  <1> QED
    BY <1>1, <1>2, <1>3, <1>4 DEF Sound, SameConns

------------------------------------------------------------------------------
(* Those that change certificates *)

LEMMA InstalledSound ==
    ASSUME NEW c \in Conns, NEW w, Sound(w), StoreNames(store), Installed(c, w)
    PROVE  Calm
  <1>1. CASE web' \in respond(w, c) /\ UNCHANGED <<store, kept>>
    BY <1>1, RespondSound DEF Calm
  <1>2. CASE \E g \in Spares(w), pem \in Uploads : \E rec \in Records(pem) :
               /\ store' = Stored(store, rec)
               /\ web' \in respond(http_tls_sync(make_live(w, g, rec.cert), https), c)
    <2>1. PICK g \in Spares(w), pem \in Uploads : \E rec \in Records(pem) :
               /\ store' = Stored(store, rec)
               /\ web' \in respond(http_tls_sync(make_live(w, g, rec.cert), https), c)
      BY <1>2
    <2>2. PICK rec \in Records(pem) :
               /\ store' = Stored(store, rec)
               /\ web' \in respond(http_tls_sync(make_live(w, g, rec.cert), https), c)
      BY <2>1
    <2>3. rec.cert # "none"
      BY RecordNames
    <2>4. StoreNames(store')
      BY <2>2, <2>3, StoredNames DEF Names
    <2>5. Sound(http_tls_sync(make_live(w, g, rec.cert), https))
      BY <2>3, MakeLiveSound, SyncSound
    <2> QED
      BY <2>2, <2>4, <2>5, RespondSound DEF Calm
  <1> QED
    BY <1>1, <1>2 DEF Installed

LEMMA UploadedSound ==
    ASSUME NEW c \in Conns, NEW w, Sound(w), StoreNames(store), Uploaded(c, w)
    PROVE  Calm
  <1>1. CASE web' = [w EXCEPT !.conns[c].upload = TRUE] /\ UNCHANGED <<store, kept>>
    BY <1>1, FieldSound DEF Calm
  <1>2. CASE Installed(c, [w EXCEPT !.conns[c].upload = FALSE, !.uploader = NoConn])
    <2> DEFINE v == [w EXCEPT !.conns[c].upload = FALSE]
               u == [v EXCEPT !.uploader = NoConn]
    <2>1. Sound(v)
      BY FieldSound
    <2>2. u = [w EXCEPT !.conns[c].upload = FALSE, !.uploader = NoConn]
      BY DEF Sound, Good, WebShape, WebFields
    <2> HIDE DEF v
    <2>3. Sound(u)
      BY <2>1, UploaderSound
    <2> HIDE DEF u
    <2>4. Installed(c, u)
      BY <1>2, <2>2
    <2> QED
      BY <2>3, <2>4, InstalledSound
  <1> QED
    BY <1>1, <1>2 DEF Uploaded

LEMMA PostTlsCalm ==
    ASSUME GInv, NEW c \in Conns, NEW r, PostTls(c, r)
    PROVE  Calm
  <1> DEFINE w == Final(c)
  <1>1. Sound(w) /\ StoreNames(store)
    BY HeardSound DEF GInv
  <1>2. \/ /\ \E rest : web' \in respond([w EXCEPT !.conns[c].discard = rest], c)
           /\ UNCHANGED <<store, kept>>
        \/ Uploaded(c, [w EXCEPT !.uploader = c])
    BY DEF PostTls
  <1> HIDE DEF w
  <1>3. CASE /\ \E rest : web' \in respond([w EXCEPT !.conns[c].discard = rest], c)
             /\ UNCHANGED <<store, kept>>
    <2>1. PICK rest : web' \in respond([w EXCEPT !.conns[c].discard = rest], c)
      BY <1>3
    <2>2. Sound([w EXCEPT !.conns[c].discard = rest])
      BY <1>1, FieldSound
    <2> QED
      BY <1>1, <1>3, <2>1, <2>2, RespondSound DEF Calm
  <1>4. CASE Uploaded(c, [w EXCEPT !.uploader = c])
    BY <1>1, <1>4, UploaderSound, UploadedSound
  <1> QED
    BY <1>2, <1>3, <1>4

LEMMA FeedCalm ==
    ASSUME GInv, NEW c \in Conns, TlsUploadFeed(c)
    PROVE  Calm
  <1> DEFINE w == [web EXCEPT !.conns[c].idle = 0]
  <1>1. Sound(w) /\ StoreNames(store)
    BY FieldSound DEF GInv
  <1>2. Uploaded(c, w)
    BY DEF TlsUploadFeed
  <1> HIDE DEF w
  <1> QED
    BY <1>1, <1>2, UploadedSound

LEMMA PostRemoveCalm ==
    ASSUME GInv, NEW c \in Conns, NEW r, PostRemove(c, r)
    PROVE  Calm
  <1>1. Sound(Heard(c, r)) /\ StoreNames(store)
    BY HeardSound DEF GInv
  <1>2. CASE web' \in respond(Heard(c, r), c) /\ UNCHANGED <<store, kept>>
    BY <1>1, <1>2, RespondSound DEF Calm
  <1>3. CASE /\ \E one \in Erased(store, 0) : \E both \in Erased(one, 1) :
                   store' = [both EXCEPT !.slot = -1]
             /\ web' \in respond(Unloaded(Heard(c, r)), c)
    <2>1. StoreNames(store')
      BY <1>1, <1>3, ErasedNames, SlotNames
    <2>2. Sound(Unloaded(Heard(c, r)))
      BY <1>1, UnloadedSound
    <2> QED
      BY <1>3, <2>1, <2>2, RespondSound DEF Calm
  <1> QED
    BY <1>2, <1>3 DEF PostRemove

LEMMA PostHttpsCalm ==
    ASSUME GInv, NEW c \in Conns, NEW r, NEW on, PostHttps(c, r, on)
    PROVE  Calm
  <1>1. Sound(Heard(c, r)) /\ StoreNames(store)
    BY HeardSound DEF GInv
  <1>2. web' \in respond(Heard(c, r), c) \/ web' \in respond(http_tls_sync(Heard(c, r), on), c)
    BY DEF PostHttps
  <1>3. store' = store
    BY DEF PostHttps
  <1> QED
    BY <1>1, <1>2, <1>3, SyncSound, RespondSound DEF Calm

LEMMA RemoveCalm ==
    ASSUME GInv, Remove
    PROVE  Calm
  <1>1. Sound(web) /\ StoreNames(store)
    BY DEF GInv
  <1>2. CASE web' = web /\ store' = store
    BY <1>1, <1>2 DEF Calm
  <1>3. CASE remove \in 1..2 /\ store' \in Erased(store, remove - 1) /\ web' = web
    <2>1. remove - 1 \in 0..1
      BY <1>3
    <2> QED
      BY <1>1, <1>3, <2>1, ErasedNames DEF Calm
  <1>4. CASE store' = [store EXCEPT !.slot = -1] /\ web' = Unloaded(web)
    BY <1>1, <1>4, SlotNames, UnloadedSound DEF Calm
  <1> QED
    BY <1>2, <1>3, <1>4 DEF Remove

LEMMA ConsoleCalm ==
    ASSUME GInv, NEW on, Console(on)
    PROVE  Calm
BY SyncSound DEF Console, Calm, GInv

LEMMA RestartCalm ==
    ASSUME GInv, Restart
    PROVE  Calm
  <1>1. PICK on \in BOOLEAN :
          \/ Booted(store, on)
          \/ Booted([store EXCEPT !.copy[OtherCopy(store)] = Torn(store.seq + 1)], on)
    BY DEF Restart
  <1>2. StoreNames([store EXCEPT !.copy[OtherCopy(store)] = Torn(store.seq + 1)])
    BY OtherCopyIs, TornNames, CopyNames DEF GInv
  <1> QED
    BY <1>1, <1>2, BootedSound DEF GInv, Calm

------------------------------------------------------------------------------
(* The theorem *)

LEMMA StepSound == GInv /\ [WebNext]_web_vars => Calm
  <1> SUFFICES ASSUME GInv, [WebNext]_web_vars PROVE Calm
    OBVIOUS
  <1>1. CASE UNCHANGED web_vars
    BY <1>1 DEF web_vars, GInv, Calm
  <1>2. CASE Accept \/ Restart
    BY <1>2, AcceptCalm, RestartCalm
  <1>3. ASSUME NEW c \in Conns, Sent(c) \/ poll_cb(c) \/ Hangup(c) \/ RecvRest(c)
        PROVE  Calm
    <2>1. store' = store
      BY <1>3 DEF Sent, poll_cb, Hangup, RecvRest
    <2> QED
      BY <1>3, <2>1, ConnectionSound, RecvRestSound DEF Calm, GInv
  <1>4. ASSUME NEW c \in Conns, NEW r \in Requests,
               \/ Turned(c, r) \/ GetShort(c, r) \/ GetConsole(c, r) \/ PostConsole(c, r)
               \/ \E body \in Streams : GetStream(c, r, body)
        PROVE  Calm
    <2>1. store' = store
      BY <1>4 DEF Turned, GetShort, GetConsole, PostConsole, GetStream
    <2> QED
      BY <1>4, <2>1, ShortSound, GetConsoleSound, StreamSound DEF Calm, GInv
  <1>5. CASE RunBatch
    <2>1. store' = store
      BY <1>5 DEF RunBatch
    <2> QED
      BY <1>5, <2>1, RunBatchSound DEF Calm, GInv
  <1>6. CASE Remove \/ \E on \in BOOLEAN : Console(on)
    BY <1>6, RemoveCalm, ConsoleCalm
  <1>7. ASSUME NEW c \in Conns, TlsUploadFeed(c)
        PROVE  Calm
    BY <1>7, FeedCalm
  <1>8. ASSUME NEW c \in Conns, NEW r \in Requests,
               \/ PostTls(c, r) \/ PostRemove(c, r)
               \/ \E on \in BOOLEAN : PostHttps(c, r, on)
        PROVE  Calm
    BY <1>8, PostTlsCalm, PostRemoveCalm, PostHttpsCalm
  <1>9. Lwip => Calm
    BY <1>2, <1>3, <1>4, Zenon DEF Lwip
  <1>10. Pages => Calm
    BY <1>4, <1>5, Zenon DEF Pages
  <1>11. Certificates => Calm
    BY <1>6, <1>7, <1>8, Zenon DEF Certificates
  <1> QED
    BY <1>1, <1>9, <1>10, <1>11, Zenon DEF WebNext

\* Every configuration of a certificate counts its connections and is there as
\* long as it serves or is used, and no longer: a renewal finds a spare (gens[] in
\* https.c), whichever connections close, are reused or are cut off in between.
THEOREM ConfigurationsCounted == WebSpec => []CertificatesInUse
  <1>1. GInv => CertificatesInUse
    BY DEF GInv, Sound, Accounted, Held, Users, CertificatesInUse
  <1>2. GInv /\ [WebNext]_web_vars => GInv'
    BY StepKeeps, StepSound DEF GInv, Calm
  <1> QED
    BY InitSound, <1>1, <1>2, PTL DEF WebSpec

------------------------------------------------------------------------------
(* The certificate that is installed *)

\* From w to v the certificate that serves stays what it is, and so does its port.
Serving(w, v) ==
    /\ v.live = w.live /\ v.listener = w.listener
    /\ w.live \in Generations => v.gens[w.live].cert = w.gens[w.live].cert

\* The sequence numbers order the copies in flash.
Ordered(st) ==
    /\ st.seq \in Nat
    /\ \A i \in 0..1 : /\ st.copy[i].seq \in Nat
                       /\ tls_record_decode(st.copy[i]) => st.copy[i].seq <= st.seq

\* Certificate k is in the copy that is the newer one.
Found(st, k) ==
    /\ st.slot \in 0..1
    /\ tls_record_decode(st.copy[st.slot]) /\ st.copy[st.slot].cert = k
    /\ \A i \in 0..1 \ {st.slot} :
          tls_record_decode(st.copy[i]) => st.copy[i].seq < st.copy[st.slot].seq

\* Certificate k serves, at the HTTPS port if that is on.
Serves(w, k, on) ==
    w.live \in Generations /\ w.gens[w.live].cert = k /\ (on => w.listener)

KInv ==
    /\ Ordered(store)
    /\ kept # "none" => Found(store, kept) /\ Serves(web, kept, https)

LEMMA ServingTrans ==
    ASSUME NEW w, NEW v, NEW u, Serving(w, v), Serving(v, u)
    PROVE  Serving(w, u)
BY DEF Serving

\* The helpers touch no certificate that serves.
LEMMA ConnServing ==
    ASSUME NEW w, Sound(w), NEW c \in Conns, NEW k
    PROVE  Serving(w, [w EXCEPT !.conns[c] = k])
BY DEF Serving, Sound, Good, WebShape, WebFields

LEMMA FieldServing ==
    ASSUME NEW w, Sound(w), NEW c \in Conns, NEW x, NEW f
    PROVE  Serving(w, [w EXCEPT !.conns[c][f] = x])
BY DEF Serving, Sound, Good, WebShape, WebFields

LEMMA UploaderServing ==
    ASSUME NEW w, Sound(w), NEW c
    PROVE  Serving(w, [w EXCEPT !.uploader = c])
BY DEF Serving, Sound, Good, WebShape, WebFields

LEMMA FreeServing ==
    ASSUME NEW w, Sound(w), NEW c \in Conns
    PROVE  Serving(w, conn_free(w, c))
  <1> DEFINE g == w.conns[c].conf
             u == [w EXCEPT !.conns[c] = Closed, !.uploader = IF @ = c THEN NoConn ELSE @]
             less == [u EXCEPT !.gens[g].refs = @ - 1]
             gen == [w.gens[g] EXCEPT !.refs = @ - 1]
  <1>1. g \in 0..GENS /\ WebShape(w) /\ GensShape(w.gens)
    BY DEF Sound, Accounted, Good
  <1>2. u.gens = w.gens /\ u.live = w.live /\ u.listener = w.listener /\ WebShape(u)
    BY <1>1 DEF WebShape, WebFields
  <1>3. conn_free(w, c) =
          IF g = 0 THEN u
          ELSE IF less.gens[g].refs = 0 /\ g # less.live THEN gen_free(less, g) ELSE less
    BY DEF conn_free, https_conn_closed
  <1> HIDE DEF u
  <1>4. CASE g = 0
    BY <1>2, <1>3, <1>4 DEF Serving
  <1>5. CASE g # 0
    <2>1. g \in Generations
      BY <1>1, <1>5, WebAssumption DEF Generations
    <2>6. less = [u EXCEPT !.gens = [w.gens EXCEPT ![g] = [w.gens[g] EXCEPT !.refs = w.gens[g].refs - 1]]]
      <3>1. less = [u EXCEPT !.gens = [u.gens EXCEPT ![g] = [u.gens[g] EXCEPT !.refs = u.gens[g].refs - 1]]]
        OBVIOUS
      <3> QED
        BY <1>2, <3>1
    <2> HIDE DEF less
    <2>7. less.gens = [w.gens EXCEPT ![g] = [w.gens[g] EXCEPT !.refs = w.gens[g].refs - 1]]
      BY <1>2, <2>6 DEF WebShape, WebFields
    <2>2. less.live = w.live /\ less.listener = w.listener /\ WebShape(less)
      BY <1>2, <2>6 DEF WebShape, WebFields
    <2>3. \A h \in Generations : less.gens[h].cert = w.gens[h].cert
      <3>1. w.gens[g] = [f \in GenFields |-> w.gens[g][f]] /\ w.gens = [h \in Generations |-> w.gens[h]]
        BY <1>1, <2>1 DEF GensShape
      <3>2. less.gens[g].cert = w.gens[g].cert
        BY <2>1, <2>7, <3>1 DEF GenFields
      <3>3. \A h \in Generations \ {g} : less.gens[h] = w.gens[h]
        BY <2>7, <3>1
      <3> QED
        BY <3>2, <3>3
    <2>4. Serving(w, less)
      BY <2>2, <2>7, <2>3 DEF Serving
    <2>5. ASSUME g # less.live PROVE Serving(w, gen_free(less, g))
      <3>1. /\ gen_free(less, g).live = less.live /\ gen_free(less, g).listener = less.listener
            /\ gen_free(less, g).gens = [less.gens EXCEPT ![g] = [cert |-> "none", refs |-> 0]]
        BY <2>2, <2>7 DEF gen_free, WebShape, WebFields
      <3>2. \A h \in Generations \ {g} : gen_free(less, g).gens[h] = less.gens[h]
        BY <1>1, <2>2, <2>7, <3>1 DEF GensShape
      <3> QED
        BY <2>2, <2>7, <2>3, <2>5, <3>1, <3>2 DEF Serving
    <2> QED
      BY <1>3, <1>5, <2>4, <2>5
  <1> QED
    BY <1>4, <1>5

LEMMA SendServing ==
    ASSUME NEW w, Sound(w), NEW c \in Conns, NEW v \in send_more(w, c)
    PROVE  Serving(w, v)
  <1>1. v \in {w, conn_reset_request(w, c), [w EXCEPT !.conns[c].resp = FALSE], conn_free(w, c)}
    BY DEF send_more
  <1>2. Serving(w, w)
    BY DEF Serving
  <1>3. Serving(w, conn_reset_request(w, c))
    BY DEF conn_reset_request, Serving, Sound, Good, WebShape, WebFields
  <1>4. Serving(w, [w EXCEPT !.conns[c].resp = FALSE])
    BY FieldServing
  <1> QED
    BY <1>1, <1>2, <1>3, <1>4, FreeServing

LEMMA RespondServing ==
    ASSUME NEW w, Sound(w), NEW c \in Conns, NEW v \in respond(w, c)
    PROVE  Serving(w, v)
  <1> DEFINE u == [w EXCEPT !.conns[c].resp = TRUE]
  <1>1. Serving(w, u)
    BY FieldServing
  <1>2. Sound(u)
    BY FieldSound
  <1>3. v \in send_more(u, c)
    BY DEF respond
  <1> HIDE DEF u
  <1> QED
    BY <1>1, <1>2, <1>3, SendServing, ServingTrans

LEMMA StaticServing ==
    ASSUME NEW w, Sound(w), NEW c \in Conns, w.conns[c].pcb, NEW body,
           NEW v \in respond_static(w, c, body)
    PROVE  Serving(w, v)
  <1> DEFINE k == [w.conns[c] EXCEPT !.resp = TRUE, !.body = body, !.whole = TRUE]
             u == [w EXCEPT !.conns[c] = k]
  <1>1. v \in send_more(u, c)
    BY DEF respond_static
  <1>2. ConnGood(w.conns[c])
    BY DEF Sound, Good
  <1>3. k.conf = w.conns[c].conf /\ ConnGood(k)
    BY <1>2 DEF ConnGood, ConnShape, ConnFields
  <1> HIDE DEF k
  <1>4. Sound(u) /\ Serving(w, u)
    BY <1>3, OneSound, ConnServing
  <1> HIDE DEF u
  <1> QED
    BY <1>1, <1>4, SendServing, ServingTrans

LEMMA HeardServing ==
    ASSUME Sound(web), NEW c \in Conns, NEW r
    PROVE  Serving(web, Heard(c, r)) /\ Serving(web, Final(c))
BY DEF Heard, Final, Serving, Sound, Good, WebShape, WebFields

\* One certificate takes the place of another, and the port follows the setting.
LEMMA MadeLiveServes ==
    ASSUME NEW w, Sound(w), NEW g \in Spares(w), NEW cert, NEW on
    PROVE  Serves(http_tls_sync(make_live(w, g, cert), on), cert, on)
  <1> DEFINE old == w.live
             v == [w EXCEPT !.gens[g].cert = cert, !.live = g]
             m == make_live(w, g, cert)
  <1>1. /\ g \in Generations /\ g # 0 /\ old # g /\ WebShape(w) /\ GensShape(w.gens)
        /\ old \in 0..GENS
    BY SpareFree, WebAssumption DEF Sound, Good, Accounted, Generations
  <1>2. /\ WebShape(v) /\ v.live = g
        /\ v.gens = [w.gens EXCEPT ![g] = [w.gens[g] EXCEPT !.cert = cert]]
    BY <1>1 DEF WebShape, WebFields
  <1>3. m = IF old # 0 /\ w.gens[old].refs = 0 THEN gen_free(v, old) ELSE v
    BY DEF make_live
  <1> HIDE DEF v, m
  <1>4. v.gens[g].cert = cert
    BY <1>1, <1>2 DEF GensShape, GenFields
  <1>5. WebShape(m) /\ m.live = g /\ m.gens[g].cert = cert
    <2>1. /\ WebShape(gen_free(v, old)) /\ gen_free(v, old).live = g
          /\ gen_free(v, old).gens = [v.gens EXCEPT ![old] = [cert |-> "none", refs |-> 0]]
      BY <1>2 DEF gen_free, WebShape, WebFields
    <2>2. gen_free(v, old).gens[g] = v.gens[g]
      BY <1>1, <1>2, <2>1 DEF GensShape
    <2> QED
      BY <1>2, <1>3, <1>4, <2>1, <2>2
  <1>6. /\ http_tls_sync(m, on).live = g /\ http_tls_sync(m, on).gens = m.gens
        /\ http_tls_sync(m, on).listener = (on /\ m.live # 0)
    BY <1>5 DEF http_tls_sync, WebShape, WebFields
  <1> QED
    BY <1>1, <1>5, <1>6 DEF Serves, m

LEMMA SyncServes ==
    ASSUME NEW w, Sound(w), NEW k, w.live \in Generations, w.gens[w.live].cert = k, NEW on
    PROVE  Serves(http_tls_sync(w, on), k, on)
  <1>1. w.live # 0
    BY WebAssumption DEF Generations
  <1>2. /\ http_tls_sync(w, on).live = w.live /\ http_tls_sync(w, on).gens = w.gens
        /\ http_tls_sync(w, on).listener = (on /\ w.live # 0)
    BY DEF http_tls_sync, Sound, Good, WebShape, WebFields
  <1> QED
    BY <1>1, <1>2 DEF Serves

LEMMA ServesOn ==
    ASSUME NEW w, NEW v, Serving(w, v), NEW k, NEW on, Serves(w, k, on)
    PROVE  Serves(v, k, on)
BY DEF Serves, Serving

------------------------------------------------------------------------------
(* The order of the copies *)

LEMMA BlankOrder == Blank.seq = 0 /\ ~tls_record_decode(Blank)
BY DEF Blank, tls_record_decode

LEMMA TornOrder ==
    ASSUME NEW n \in Nat
    PROVE  Torn(n).seq = n /\ ~tls_record_decode(Torn(n))
BY DEF Torn, tls_record_decode

LEMMA CopySet ==
    ASSUME NEW st, StoreNames(st), NEW i \in 0..1, NEW rec
    PROVE  LET t == [st EXCEPT !.copy[i] = rec]
           IN  /\ t.slot = st.slot /\ t.seq = st.seq
               /\ \A j \in 0..1 : t.copy[j] = IF j = i THEN rec ELSE st.copy[j]
  <1> DEFINE t == [st EXCEPT !.copy[i] = rec]
  <1>1. t.slot = st.slot /\ t.seq = st.seq /\ t.copy = [st.copy EXCEPT ![i] = rec]
    BY DEF StoreNames
  <1> QED
    BY <1>1 DEF StoreNames

\* A copy that is erased, or whose write was cut short, keeps the order.
LEMMA CopyOrdered ==
    ASSUME NEW st, StoreNames(st), Ordered(st), NEW i \in 0..1, NEW rec, rec.seq \in Nat,
           ~tls_record_decode(rec)
    PROVE  Ordered([st EXCEPT !.copy[i] = rec])
BY CopySet DEF Ordered

LEMMA ErasedOrdered ==
    ASSUME NEW st, StoreNames(st), Ordered(st), NEW i \in 0..1, NEW next \in Erased(st, i)
    PROVE  Ordered(next) /\ StoreNames(next)
  <1>1. Blank.seq \in Nat /\ ~tls_record_decode(Blank)
    BY BlankOrder
  <1>2. Ordered([st EXCEPT !.copy[i] = Blank])
    BY <1>1, CopyOrdered
  <1>3. next = st \/ next = [st EXCEPT !.copy[i] = Blank]
    BY DEF Erased
  <1> QED
    BY <1>2, <1>3, ErasedNames

LEMMA SlotOrdered ==
    ASSUME NEW st, StoreNames(st), Ordered(st), NEW slot
    PROVE  Ordered([st EXCEPT !.slot = slot])
BY DEF StoreNames, Ordered

LEMMA OtherIsOther ==
    store.slot \in 0..1 => OtherCopy(store) # store.slot
BY DEF OtherCopy

LEMMA RecordOrder ==
    ASSUME store.seq \in Nat, NEW pem, NEW rec \in Records(pem)
    PROVE  rec.seq = store.seq + 1 /\ rec.seq \in Nat /\ tls_record_decode(rec)
  <1>1. PICK b : rec \in tls_record_encode(b, store.seq + 1)
    BY DEF Records
  <1>2. rec = [seq |-> store.seq + 1, cert |-> b.certs[1], crc |-> <<store.seq + 1, b.certs[1]>>]
    BY <1>1 DEF tls_record_encode
  <1> QED
    BY <1>2 DEF tls_record_decode

\* What is saved is the newer copy.
LEMMA StoredFound ==
    ASSUME StoreNames(store), Ordered(store), NEW pem, NEW rec \in Records(pem)
    PROVE  Ordered(Stored(store, rec)) /\ Found(Stored(store, rec), rec.cert)
  <1> DEFINE o == OtherCopy(store)
             t == Stored(store, rec)
  <1>1. o \in 0..1 /\ store.seq \in Nat
    BY OtherCopyIs DEF Ordered
  <1>2. rec.seq = store.seq + 1 /\ rec.seq \in Nat /\ tls_record_decode(rec)
    BY <1>1, RecordOrder
  <1>3. t.slot = o /\ t.seq = rec.seq /\ t.copy = [store.copy EXCEPT ![o] = rec]
    BY DEF Stored
  <1> HIDE DEF o, t
  <1>4. \A j \in 0..1 : t.copy[j] = IF j = o THEN rec ELSE store.copy[j]
    BY <1>1, <1>3 DEF StoreNames
  <1>5. \A j \in 0..1 \ {o} : tls_record_decode(t.copy[j]) => t.copy[j].seq < rec.seq
    BY <1>1, <1>2, <1>4 DEF Ordered
  <1>6. Ordered(t)
    <2>1. ASSUME NEW j \in 0..1
          PROVE  t.copy[j].seq \in Nat /\ (tls_record_decode(t.copy[j]) => t.copy[j].seq <= t.seq)
      BY <1>2, <1>3, <1>4, <1>5 DEF Ordered
    <2> QED
      BY <1>2, <1>3, <2>1 DEF Ordered
  <1>7. Found(t, rec.cert)
    BY <1>1, <1>2, <1>3, <1>4, <1>5 DEF Found
  <1> QED
    BY <1>6, <1>7 DEF t

\* Where the newer copy is known, a start finds that one.
LEMMA FoundIsNewest ==
    ASSUME NEW st, Ordered(st), NEW k, Found(st, k)
    PROVE  Newest(st) = {st.slot}
  <1>1. \A i \in 0..1 : st.copy[i].seq \in Nat
    BY DEF Ordered
  <1>2. st.slot \in Newest(st)
    BY <1>1 DEF Found, Newest
  <1>3. ASSUME NEW i \in Newest(st), i # st.slot PROVE FALSE
    <2>1. i \in 0..1 \ {st.slot} /\ tls_record_decode(st.copy[i])
          /\ st.copy[st.slot].seq <= st.copy[i].seq
      BY <1>3 DEF Newest, Found
    <2>2. st.copy[i].seq < st.copy[st.slot].seq
      BY <2>1 DEF Found
    <2> QED
      BY <1>1, <2>1, <2>2 DEF Found
  <1> QED
    BY <1>2, <1>3

\* Where no copy is the newest, none is whole.
LEMMA NoneNewest ==
    ASSUME NEW st, Ordered(st), Newest(st) = {}, NEW i \in 0..1
    PROVE  ~tls_record_decode(st.copy[i])
  <1> SUFFICES ASSUME tls_record_decode(st.copy[i]) PROVE FALSE
    OBVIOUS
  <1>1. PICK j \in 0..1 : j # i /\ \A h \in 0..1 : h = i \/ h = j
    <2>1. 0 \in 0..1 /\ 1 \in 0..1 /\ \A h \in 0..1 : h = 0 \/ h = 1
      OBVIOUS
    <2> QED
      BY <2>1
  <1>2. st.copy[i].seq \in Nat /\ st.copy[j].seq \in Nat
    BY DEF Ordered
  <1>3. CASE tls_record_decode(st.copy[j]) /\ st.copy[i].seq < st.copy[j].seq
    <2>1. j \in Newest(st)
      BY <1>1, <1>2, <1>3 DEF Newest
    <2> QED
      BY <2>1
  <1>4. CASE ~(tls_record_decode(st.copy[j]) /\ st.copy[i].seq < st.copy[j].seq)
    <2>1. i \in Newest(st)
      BY <1>1, <1>2, <1>4 DEF Newest
    <2> QED
      BY <2>1
  <1> QED
    BY <1>3, <1>4


------------------------------------------------------------------------------
(* The steps *)

\* A step that leaves the certificate that serves, the copies and the setting alone.
Leaves == Serving(web, web') /\ UNCHANGED <<store, kept, https>>

LEMMA LeavesKept == KInv /\ Leaves => KInv'
BY ServesOn DEF KInv, Leaves

LEMMA FreesKept == Ordered(store') /\ kept' = "none" => KInv'
BY DEF KInv

LEMMA AcceptLeaves == GInv /\ Accept => Leaves
  <1> SUFFICES ASSUME GInv, Accept PROVE Leaves
    OBVIOUS
  <1>1. PICK tls \in BOOLEAN : accept_cb(tls)
    BY DEF Accept
  <1>2. PICK c \in Conns :
          LET w == conn_free(web, c)
          IN  web' = IF tls /\ w.live = 0 THEN w
                     ELSE LET g == IF tls THEN w.live ELSE 0
                              k == [Closed EXCEPT !.pcb = TRUE, !.conf = g]
                          IN  https_conn_opened([w EXCEPT !.conns[c] = k], g)
    BY <1>1 DEF accept_cb, idle_slot, Idle
  <1> DEFINE w == conn_free(web, c)
             g == IF tls THEN w.live ELSE 0
             k == [Closed EXCEPT !.pcb = TRUE, !.conf = g]
             v == [w EXCEPT !.conns[c] = k]
             u == https_conn_opened(v, g)
  <1>3. web' = w \/ web' = u
    BY <1>2
  <1>4. Sound(w) /\ Serving(web, w)
    BY FreeSound, FreeServing DEF GInv
  <1>5. UNCHANGED <<store, kept, https>>
    BY DEF Accept
  <1> HIDE DEF w
  <1>6. Serving(w, v) /\ v.gens = w.gens /\ WebShape(v) /\ v.live = w.live /\ g \in 0..GENS
    <2>1. 0 \in 0..GENS /\ w.live \in 0..GENS
      BY <1>4, WebAssumption DEF Sound, Accounted
    <2>2. g \in 0..GENS
      BY <2>1
    <2> QED
      BY <1>4, <2>2, ConnServing DEF Sound, Good, WebShape, WebFields
  <1> HIDE DEF v, g
  <1>7. Serving(v, u)
    <2>1. CASE g = 0
      BY <2>1 DEF https_conn_opened, Serving
    <2>2. CASE g # 0
      <3>1. g \in Generations
        BY <1>6, <2>2, WebAssumption DEF Generations
      <3>2. /\ u.live = v.live /\ u.listener = v.listener
            /\ u.gens = [v.gens EXCEPT ![g] = [v.gens[g] EXCEPT !.refs = v.gens[g].refs + 1]]
        BY <1>6, <2>2 DEF https_conn_opened, WebShape, WebFields
      <3> HIDE DEF u
      <3>3. GensShape(v.gens)
        BY <1>4, <1>6 DEF Sound, Accounted
      <3>4. \A h \in Generations : u.gens[h].cert = v.gens[h].cert
        BY <3>1, <3>2, <3>3 DEF GensShape, GenFields
      <3> QED
        BY <3>2, <3>4 DEF Serving
    <2> QED
      BY <2>1, <2>2
  <1> HIDE DEF u
  <1>8. Serving(web, u)
    BY <1>4, <1>6, <1>7, ServingTrans
  <1> QED
    BY <1>3, <1>4, <1>5, <1>8 DEF Leaves

LEMMA RecvRestLeaves ==
    ASSUME GInv, NEW c \in Conns, RecvRest(c)
    PROVE  Leaves
  <1> DEFINE w == [web EXCEPT !.conns[c].idle = 0]
             done == [w EXCEPT !.conns[c].discard = FALSE]
  <1>1. \/ web' \in {w, done, conn_free(done, c)}
        \/ web' = [w EXCEPT !.conns[c].keep = FALSE]
        \/ web' = [w EXCEPT !.conns[c].req = TRUE]
    BY DEF RecvRest
  <1>2. Sound(w) /\ Serving(web, w)
    BY FieldSound, FieldServing DEF GInv
  <1> HIDE DEF w
  <1>3. Sound(done) /\ Serving(w, done)
    BY <1>2, FieldSound, FieldServing
  <1> HIDE DEF done
  <1>4. Serving(done, conn_free(done, c))
    BY <1>3, FreeServing
  <1>5. /\ Serving(w, [w EXCEPT !.conns[c].keep = FALSE])
        /\ Serving(w, [w EXCEPT !.conns[c].req = TRUE])
    BY <1>2, FieldServing
  <1>6. Serving(web, done) /\ Serving(web, conn_free(done, c))
    BY <1>2, <1>3, <1>4, ServingTrans
  <1>7. /\ Serving(web, [w EXCEPT !.conns[c].keep = FALSE])
        /\ Serving(web, [w EXCEPT !.conns[c].req = TRUE])
    BY <1>2, <1>5, ServingTrans
  <1>8. Serving(web, web')
    BY <1>1, <1>2, <1>6, <1>7
  <1> QED
    BY <1>8 DEF Leaves, RecvRest

LEMMA ConnectionLeaves ==
    ASSUME GInv, NEW c \in Conns, Sent(c) \/ poll_cb(c) \/ Hangup(c)
    PROVE  Leaves
  <1>1. Sound(web)
    BY DEF GInv
  <1>2. CASE Sent(c)
    BY <1>1, <1>2, SendServing DEF Sent, Leaves
  <1>3. CASE poll_cb(c)
    <2>1. web' = conn_free(web, c) \/ web' = [web EXCEPT !.conns[c].idle = web.conns[c].idle + 1]
      BY <1>3 DEF poll_cb
    <2>2. ASSUME NEW n PROVE Serving(web, [web EXCEPT !.conns[c].idle = n])
      BY <1>1, FieldServing
    <2>3. Serving(web, web')
      BY <1>1, <2>1, <2>2, FreeServing
    <2> QED
      BY <1>3, <2>3 DEF poll_cb, Leaves
  <1>4. CASE Hangup(c)
    BY <1>1, <1>4, FreeServing DEF Hangup, Leaves
  <1> QED
    BY <1>2, <1>3, <1>4

LEMMA ShortLeaves ==
    ASSUME GInv, NEW c \in Conns, NEW r,
           Turned(c, r) \/ GetShort(c, r) \/ PostConsole(c, r)
    PROVE  Leaves
  <1>1. web' \in respond(Heard(c, r), c) \/ web' \in respond(Final(c), c)
    BY DEF Turned, GetShort, PostConsole
  <1>2. UNCHANGED <<store, kept, https>>
    BY DEF Turned, GetShort, PostConsole
  <1>3. /\ Sound(Heard(c, r)) /\ Sound(Final(c))
        /\ Serving(web, Heard(c, r)) /\ Serving(web, Final(c))
    BY HeardSound, HeardServing DEF GInv
  <1>4. Serving(web, web')
    BY <1>1, <1>3, RespondServing, ServingTrans
  <1> QED
    BY <1>2, <1>4 DEF Leaves

LEMMA StreamLeaves ==
    ASSUME GInv, NEW c \in Conns, NEW r, NEW body \in Streams, GetStream(c, r, body)
    PROVE  Leaves
  <1> DEFINE w == Heard(c, r)
             v == Rebuilt(w, body)
  <1>1. body # "none"
    BY WebAssumption
  <1>2. web.conns[c].pcb
    BY DEF GetStream, Handled, Asks
  <1>3. Sound(w) /\ w.conns[c].pcb /\ Serving(web, w)
    BY <1>2, HeardSound, HeardTame, HeardServing DEF GInv, IInv
  <1>4. web' \in IF busy(w, body) THEN respond(w, c) ELSE respond_static(v, c, body)
    BY DEF GetStream
  <1>5. UNCHANGED <<store, kept, https>>
    BY DEF GetStream
  <1> HIDE DEF w
  <1>6. CASE busy(w, body)
    <2>1. Serving(web, web')
      BY <1>3, <1>4, <1>6, RespondServing, ServingTrans
    <2> QED
      BY <1>5, <2>1 DEF Leaves
  <1>7. CASE ~busy(w, body)
    <2>1. SameConns(w, v)
      BY <1>1, <1>3, <1>7, NotBusy, RebuiltSame DEF Sound
    <2>2. v.gens = w.gens /\ v.live = w.live /\ v.listener = w.listener
      BY <1>3 DEF Rebuilt, Sound, Good, WebShape, WebFields
    <2>3. web' \in respond_static(v, c, body)
      BY <1>4, <1>7
    <2> HIDE DEF v
    <2>4. Good(v)
      BY <1>3, <2>1, SameIsTame, TameGood DEF Sound
    <2>5. Sound(v) /\ v.conns[c].pcb /\ Serving(w, v)
      BY <1>3, <2>1, <2>2, <2>4 DEF Sound, SameConns, Serving
    <2>6. Serving(web, web')
      BY <1>3, <2>3, <2>5, StaticServing, ServingTrans
    <2> QED
      BY <1>5, <2>6 DEF Leaves
  <1> QED
    BY <1>6, <1>7

LEMMA GetConsoleLeaves ==
    ASSUME GInv, NEW c \in Conns, NEW r, GetConsole(c, r)
    PROVE  Leaves
  <1> DEFINE w == Heard(c, r)
  <1>1. web.conns[c].pcb
    BY DEF GetConsole, Handled, Asks
  <1>2. Sound(w) /\ w.conns[c].pcb /\ Serving(web, w)
    BY <1>1, HeardSound, HeardTame, HeardServing DEF GInv, IInv
  <1>3. web' \in respond_static(w, c, "console") \/ web' \in respond(w, c)
    BY DEF GetConsole
  <1> HIDE DEF w
  <1>4. Serving(web, web')
    BY <1>2, <1>3, StaticServing, RespondServing, ServingTrans
  <1> QED
    BY <1>4 DEF GetConsole, Leaves

LEMMA RunBatchLeaves ==
    ASSUME GInv, RunBatch
    PROVE  Leaves
  <1>1. web' = Rebuilt(web, "console") /\ Sound(web)
    BY DEF RunBatch, GInv
  <1>2. Serving(web, web')
    BY <1>1 DEF Rebuilt, Serving, Sound, Good, WebShape, WebFields
  <1> QED
    BY <1>2 DEF RunBatch, Leaves

------------------------------------------------------------------------------
(* Those that change certificates *)

LEMMA InstalledKept ==
    ASSUME GInv, KInv, https' = https, NEW c \in Conns, NEW w, Sound(w), Serving(web, w),
           Installed(c, w)
    PROVE  KInv'
  <1>1. CASE web' \in respond(w, c) /\ UNCHANGED <<store, kept>>
    <2>1. Serving(web, web')
      BY <1>1, RespondServing, ServingTrans
    <2> QED
      BY <1>1, <2>1, LeavesKept DEF Leaves
  <1>2. CASE \E g \in Spares(w), pem \in Uploads : \E rec \in Records(pem) :
               /\ store' = Stored(store, rec) /\ kept' = rec.cert
               /\ web' \in respond(http_tls_sync(make_live(w, g, rec.cert), https), c)
    <2>1. PICK g \in Spares(w), pem \in Uploads : \E rec \in Records(pem) :
               /\ store' = Stored(store, rec) /\ kept' = rec.cert
               /\ web' \in respond(http_tls_sync(make_live(w, g, rec.cert), https), c)
      BY <1>2
    <2>2. PICK rec \in Records(pem) :
               /\ store' = Stored(store, rec) /\ kept' = rec.cert
               /\ web' \in respond(http_tls_sync(make_live(w, g, rec.cert), https), c)
      BY <2>1
    <2> DEFINE v == http_tls_sync(make_live(w, g, rec.cert), https)
    <2>3. rec.cert # "none"
      BY RecordNames
    <2>4. Sound(v)
      BY <2>3, MakeLiveSound, SyncSound
    <2>5. Serves(v, rec.cert, https)
      BY MadeLiveServes
    <2>6. web' \in respond(v, c)
      BY <2>2
    <2> HIDE DEF v
    <2>7. Serves(web', rec.cert, https)
      BY <2>4, <2>5, <2>6, RespondServing, ServesOn
    <2>8. Ordered(store') /\ Found(store', rec.cert)
      BY <2>2, StoredFound DEF GInv, KInv
    <2> QED
      BY <2>2, <2>7, <2>8 DEF KInv
  <1> QED
    BY <1>1, <1>2 DEF Installed

LEMMA UploadedKept ==
    ASSUME GInv, KInv, https' = https, NEW c \in Conns, NEW w, Sound(w), Serving(web, w),
           Uploaded(c, w)
    PROVE  KInv'
  <1>1. CASE web' = [w EXCEPT !.conns[c].upload = TRUE] /\ UNCHANGED <<store, kept>>
    <2>1. Serving(web, web')
      BY <1>1, FieldServing, ServingTrans
    <2> QED
      BY <1>1, <2>1, LeavesKept DEF Leaves
  <1>2. CASE Installed(c, [w EXCEPT !.conns[c].upload = FALSE, !.uploader = NoConn])
    <2> DEFINE v == [w EXCEPT !.conns[c].upload = FALSE]
               u == [v EXCEPT !.uploader = NoConn]
    <2>1. Sound(v) /\ Serving(w, v)
      BY FieldSound, FieldServing
    <2>2. u = [w EXCEPT !.conns[c].upload = FALSE, !.uploader = NoConn]
      BY DEF Sound, Good, WebShape, WebFields
    <2> HIDE DEF v
    <2>3. Sound(u) /\ Serving(v, u)
      BY <2>1, UploaderSound, UploaderServing
    <2> HIDE DEF u
    <2>4. Installed(c, u)
      BY <1>2, <2>2
    <2>5. Serving(web, u)
      BY <2>1, <2>3, ServingTrans
    <2> QED
      BY <2>3, <2>4, <2>5, InstalledKept
  <1> QED
    BY <1>1, <1>2 DEF Uploaded

LEMMA PostTlsKept ==
    ASSUME GInv, KInv, NEW c \in Conns, NEW r, PostTls(c, r)
    PROVE  KInv'
  <1> DEFINE w == Final(c)
  <1>1. Sound(w) /\ Serving(web, w) /\ https' = https
    BY HeardSound, HeardServing DEF GInv, PostTls
  <1>2. \/ /\ \E rest : web' \in respond([w EXCEPT !.conns[c].discard = rest], c)
           /\ UNCHANGED <<store, kept>>
        \/ Uploaded(c, [w EXCEPT !.uploader = c])
    BY DEF PostTls
  <1> HIDE DEF w
  <1>3. CASE /\ \E rest : web' \in respond([w EXCEPT !.conns[c].discard = rest], c)
             /\ UNCHANGED <<store, kept>>
    <2>1. PICK rest : web' \in respond([w EXCEPT !.conns[c].discard = rest], c)
      BY <1>3
    <2> DEFINE v == [w EXCEPT !.conns[c].discard = rest]
    <2>2. Sound(v) /\ Serving(w, v)
      BY <1>1, FieldSound, FieldServing
    <2> HIDE DEF v
    <2>3. Serving(web, web')
      BY <1>1, <2>1, <2>2, RespondServing, ServingTrans DEF v
    <2> QED
      BY <1>1, <1>3, <2>3, LeavesKept DEF Leaves
  <1>4. CASE Uploaded(c, [w EXCEPT !.uploader = c])
    <2> DEFINE v == [w EXCEPT !.uploader = c]
    <2>1. Sound(v) /\ Serving(w, v)
      BY <1>1, UploaderSound, UploaderServing
    <2>2. Uploaded(c, v)
      BY <1>4
    <2> HIDE DEF v
    <2>3. Serving(web, v)
      BY <1>1, <2>1, ServingTrans
    <2> QED
      BY <1>1, <2>1, <2>2, <2>3, UploadedKept
  <1> QED
    BY <1>2, <1>3, <1>4

LEMMA FeedKept ==
    ASSUME GInv, KInv, NEW c \in Conns, TlsUploadFeed(c)
    PROVE  KInv'
  <1> DEFINE w == [web EXCEPT !.conns[c].idle = 0]
  <1>1. Sound(w) /\ Serving(web, w) /\ https' = https
    BY FieldSound, FieldServing DEF GInv, TlsUploadFeed
  <1>2. Uploaded(c, w)
    BY DEF TlsUploadFeed
  <1> HIDE DEF w
  <1> QED
    BY <1>1, <1>2, UploadedKept

LEMMA PostRemoveKept ==
    ASSUME GInv, KInv, NEW c \in Conns, NEW r, PostRemove(c, r)
    PROVE  KInv'
  <1>1. Sound(Heard(c, r)) /\ Serving(web, Heard(c, r)) /\ StoreNames(store) /\ https' = https
    BY HeardSound, HeardServing DEF GInv, PostRemove
  <1>2. CASE web' \in respond(Heard(c, r), c) /\ UNCHANGED <<store, kept>>
    <2>1. Serving(web, web')
      BY <1>1, <1>2, RespondServing, ServingTrans
    <2> QED
      BY <1>1, <1>2, <2>1, LeavesKept DEF Leaves
  <1>3. CASE /\ \E one \in Erased(store, 0) : \E both \in Erased(one, 1) :
                   store' = [both EXCEPT !.slot = -1]
             /\ kept' = "none"
    <2>1. PICK one \in Erased(store, 0) : \E both \in Erased(one, 1) :
                   store' = [both EXCEPT !.slot = -1]
      BY <1>3
    <2>2. Ordered(one) /\ StoreNames(one)
      BY <1>1, ErasedOrdered DEF KInv
    <2>3. Ordered(store')
      BY <2>1, <2>2, ErasedOrdered, SlotOrdered
    <2> QED
      BY <1>3, <2>3, FreesKept
  <1> QED
    BY <1>2, <1>3 DEF PostRemove

LEMMA RemoveKept ==
    ASSUME GInv, KInv, Remove
    PROVE  KInv'
  <1>1. StoreNames(store) /\ Ordered(store) /\ kept' = "none"
    BY DEF GInv, KInv, Remove
  <1>2. CASE store' = store
    BY <1>1, <1>2, FreesKept
  <1>3. CASE remove \in 1..2 /\ store' \in Erased(store, remove - 1)
    <2>1. remove - 1 \in 0..1
      BY <1>3
    <2> QED
      BY <1>1, <1>3, <2>1, ErasedOrdered, FreesKept
  <1>4. CASE store' = [store EXCEPT !.slot = -1]
    BY <1>1, <1>4, SlotOrdered, FreesKept
  <1> QED
    BY <1>2, <1>3, <1>4 DEF Remove

LEMMA ConsoleKept ==
    ASSUME GInv, KInv, NEW on, Console(on)
    PROVE  KInv'
  <1>1. /\ https' = on /\ web' = http_tls_sync(web, on) /\ UNCHANGED <<store, kept>>
        /\ Sound(web)
    BY DEF Console, GInv
  <1>2. CASE kept = "none"
    BY <1>1, <1>2 DEF KInv
  <1>3. CASE kept # "none"
    BY <1>1, <1>3, SyncServes DEF KInv, Serves
  <1> QED
    BY <1>2, <1>3

LEMMA PostHttpsKept ==
    ASSUME GInv, KInv, NEW c \in Conns, NEW r, NEW on, PostHttps(c, r, on)
    PROVE  KInv'
  <1> DEFINE w == Heard(c, r)
             v == http_tls_sync(w, on)
  <1>1. Sound(w) /\ Serving(web, w)
    BY HeardSound, HeardServing DEF GInv
  <1>2. UNCHANGED <<store, kept>>
    BY DEF PostHttps
  <1>3. \/ web' \in respond(w, c) /\ https' = https
        \/ https' = on /\ web' \in respond(v, c)
    BY DEF PostHttps
  <1> HIDE DEF w
  <1>4. CASE web' \in respond(w, c) /\ https' = https
    <2>1. Serving(web, web')
      BY <1>1, <1>4, RespondServing, ServingTrans
    <2> QED
      BY <1>2, <1>4, <2>1, LeavesKept DEF Leaves
  <1>5. CASE https' = on /\ web' \in respond(v, c)
    <2>1. CASE kept = "none"
      BY <1>2, <2>1 DEF KInv
    <2>2. CASE kept # "none"
      <3>1. w.live \in Generations /\ w.gens[w.live].cert = kept
        BY <1>1, <2>2 DEF KInv, Serves, Serving
      <3>2. Sound(v) /\ Serves(v, kept, on)
        BY <1>1, <3>1, SyncSound, SyncServes
      <3> HIDE DEF v
      <3>3. Serves(web', kept, on)
        BY <1>5, <3>2, RespondServing, ServesOn
      <3> QED
        BY <1>2, <1>5, <3>3 DEF KInv
    <2> QED
      BY <2>1, <2>2
  <1> QED
    BY <1>3, <1>4, <1>5

\* A start takes the newest copy.
LEMMA BootedKept ==
    ASSUME NEW st, StoreNames(st), Ordered(st), NEW on, Booted(st, on)
    PROVE  /\ Ordered(store')
           /\ \A k : Found(st, k) => Found(store', k) /\ Serves(web', k, on)
  <1> DEFINE w == [conns |-> [c \in Conns |-> Closed],
                   gens |-> [g \in Generations |-> [cert |-> "none", refs |-> 0]],
                   live |-> 0, uploader |-> NoConn, listener |-> FALSE]
  <1>1. \/ Newest(st) = {} /\ store' = [st EXCEPT !.slot = -1, !.seq = 0]
        \/ \E i \in Newest(st) :
              /\ web' = http_tls_sync(make_live(w, 1, st.copy[i].cert), on)
              /\ store' = [st EXCEPT !.slot = i, !.seq = st.copy[i].seq]
    BY DEF Booted
  <1>2. /\ WebShape(w) /\ w.conns = [c \in Conns |-> Closed] /\ w.live = 0
        /\ w.gens = [g \in Generations |-> [cert |-> "none", refs |-> 0]]
    BY DEF WebShape, WebFields
  <1> HIDE DEF w
  <1>3. Good(w)
    BY <1>2, ClosedGood DEF Good
  <1>4. Sound(w)
    BY <1>2, <1>3, NothingInUse
  <1>5. 1 \in Spares(w)
    BY <1>2, WebAssumption DEF Spares, Generations
  <1>6. CASE Newest(st) = {} /\ store' = [st EXCEPT !.slot = -1, !.seq = 0]
    <2>1. store'.copy = st.copy /\ store'.seq = 0
      BY <1>6 DEF StoreNames
    <2>2. \A i \in 0..1 : ~tls_record_decode(st.copy[i])
      BY <1>6, NoneNewest
    <2>3. Ordered(store')
      BY <2>1, <2>2 DEF Ordered
    <2>4. \A k : ~Found(st, k)
      BY <2>2 DEF Found
    <2> QED
      BY <2>3, <2>4
  <1>7. CASE \E i \in Newest(st) :
                /\ web' = http_tls_sync(make_live(w, 1, st.copy[i].cert), on)
                /\ store' = [st EXCEPT !.slot = i, !.seq = st.copy[i].seq]
    <2>1. PICK i \in Newest(st) :
                /\ web' = http_tls_sync(make_live(w, 1, st.copy[i].cert), on)
                /\ store' = [st EXCEPT !.slot = i, !.seq = st.copy[i].seq]
      BY <1>7
    <2>2. store'.copy = st.copy /\ store'.seq = st.copy[i].seq /\ store'.slot = i
      BY <2>1 DEF StoreNames
    <2>3. i \in 0..1 /\ \A j \in 0..1 : tls_record_decode(st.copy[j]) => st.copy[j].seq <= st.copy[i].seq
      BY DEF Newest
    <2>4. Ordered(store')
      BY <2>2, <2>3 DEF Ordered
    <2>5. Serves(web', st.copy[i].cert, on)
      BY <1>4, <1>5, <2>1, MadeLiveServes
    <2>6. ASSUME NEW k, Found(st, k) PROVE Found(store', k) /\ Serves(web', k, on)
      <3>1. i = st.slot
        BY <2>6, FoundIsNewest
      <3> QED
        BY <2>2, <2>5, <2>6, <3>1 DEF Found
    <2> QED
      BY <2>4, <2>6
  <1> QED
    BY <1>1, <1>6, <1>7

\* The power goes, perhaps in the write of the other copy.
LEMMA RestartKept ==
    ASSUME GInv, KInv, Restart
    PROVE  KInv'
  <1> DEFINE torn == [store EXCEPT !.copy[OtherCopy(store)] = Torn(store.seq + 1)]
  <1>1. PICK on \in BOOLEAN : https' = on /\ (Booted(store, on) \/ Booted(torn, on))
    BY DEF Restart
  <1>2. kept' = kept /\ StoreNames(store) /\ Ordered(store)
    BY DEF Restart, GInv, KInv
  <1>3. store.seq + 1 \in Nat
    BY <1>2 DEF Ordered
  <1>4. Torn(store.seq + 1).seq \in Nat /\ ~tls_record_decode(Torn(store.seq + 1))
    BY <1>3, TornOrder
  <1>5. StoreNames(torn) /\ Ordered(torn)
    BY <1>2, <1>4, OtherCopyIs, TornNames, CopyNames, CopyOrdered
  <1>6. ASSUME NEW k, Found(store, k) PROVE Found(torn, k)
    <2>1. OtherCopy(store) \in 0..1 /\ OtherCopy(store) # store.slot
      BY <1>6, OtherCopyIs, OtherIsOther DEF Found
    <2>2. /\ torn.slot = store.slot
          /\ \A j \in 0..1 : torn.copy[j] = IF j = OtherCopy(store) THEN Torn(store.seq + 1)
                                            ELSE store.copy[j]
      BY <1>2, <2>1, CopySet
    <2> HIDE DEF torn
    <2> QED
      BY <1>4, <1>6, <2>1, <2>2 DEF Found
  <1> HIDE DEF torn
  <1>7. PICK st : /\ StoreNames(st) /\ Ordered(st) /\ Booted(st, on)
                  /\ \A k : Found(store, k) => Found(st, k)
    BY <1>1, <1>2, <1>5, <1>6
  <1>8. /\ Ordered(store')
        /\ \A k : Found(st, k) => Found(store', k) /\ Serves(web', k, on)
    BY <1>7, BootedKept
  <1> QED
    BY <1>1, <1>2, <1>7, <1>8 DEF KInv

LEMMA InitKept == WebInit => KInv
  <1> SUFFICES ASSUME WebInit PROVE KInv
    OBVIOUS
  <1>1. store = [copy |-> [i \in 0..1 |-> Blank], slot |-> -1, seq |-> 0] /\ kept = "none"
    BY DEF WebInit
  <1> QED
    BY <1>1, BlankOrder DEF KInv, Ordered

LEMMA StepKept == GInv /\ KInv /\ [WebNext]_web_vars => KInv'
  <1> SUFFICES ASSUME GInv, KInv, [WebNext]_web_vars PROVE KInv'
    OBVIOUS
  <1>1. CASE UNCHANGED web_vars
    BY <1>1 DEF web_vars, KInv
  <1>2. CASE Accept \/ Restart
    BY <1>2, AcceptLeaves, LeavesKept, RestartKept
  <1>3. ASSUME NEW c \in Conns, Sent(c) \/ poll_cb(c) \/ Hangup(c) \/ RecvRest(c)
        PROVE  KInv'
    BY <1>3, ConnectionLeaves, RecvRestLeaves, LeavesKept
  <1>4. ASSUME NEW c \in Conns, NEW r \in Requests,
               \/ Turned(c, r) \/ GetShort(c, r) \/ GetConsole(c, r) \/ PostConsole(c, r)
               \/ \E body \in Streams : GetStream(c, r, body)
        PROVE  KInv'
    BY <1>4, ShortLeaves, GetConsoleLeaves, StreamLeaves, LeavesKept
  <1>5. CASE RunBatch
    BY <1>5, RunBatchLeaves, LeavesKept
  <1>6. CASE Remove \/ \E on \in BOOLEAN : Console(on)
    BY <1>6, RemoveKept, ConsoleKept
  <1>7. ASSUME NEW c \in Conns, TlsUploadFeed(c)
        PROVE  KInv'
    BY <1>7, FeedKept
  <1>8. ASSUME NEW c \in Conns, NEW r \in Requests,
               \/ PostTls(c, r) \/ PostRemove(c, r)
               \/ \E on \in BOOLEAN : PostHttps(c, r, on)
        PROVE  KInv'
    BY <1>8, PostTlsKept, PostRemoveKept, PostHttpsKept
  <1>9. Lwip => KInv'
    BY <1>2, <1>3, <1>4, Zenon DEF Lwip
  <1>10. Pages => KInv'
    BY <1>4, <1>5, Zenon DEF Pages
  <1>11. Certificates => KInv'
    BY <1>6, <1>7, <1>8, Zenon DEF Certificates
  <1> QED
    BY <1>1, <1>9, <1>10, <1>11, Zenon DEF WebNext

\* A certificate that was installed (https_install()) serves, its port is open where
\* HTTPS is on, and it is the one a start finds, until it is removed or replaced,
\* whichever connections come and go and wherever the power goes in a write.
THEOREM InstalledStays == WebSpec => []InstalledIsFound
  <1>1. GInv /\ KInv => InstalledIsFound
    <2> SUFFICES ASSUME KInv, kept # "none"
                 PROVE  /\ \A i \in Newest(store) : store.copy[i].cert = kept
                        /\ Newest(store) # {}
                        /\ web.live # 0 /\ web.gens[web.live].cert = kept
                        /\ https_enforced(web, https) => web.listener
      BY DEF InstalledIsFound
    <2>1. Newest(store) = {store.slot} /\ store.copy[store.slot].cert = kept
      BY FoundIsNewest DEF KInv, Found
    <2>2. web.live # 0 /\ web.gens[web.live].cert = kept /\ (https => web.listener)
      BY WebAssumption DEF KInv, Serves, Generations
    <2> QED
      BY <2>1, <2>2 DEF https_enforced
  <1>2. GInv /\ [WebNext]_web_vars => GInv'
    BY StepKeeps, StepSound DEF GInv, Calm
  <1> QED
    BY InitSound, InitKept, StepKept, <1>1, <1>2, PTL DEF WebSpec

------------------------------------------------------------------------------
(* The receiving side of the W6100 *)

\* The fields of the records, which no step changes.
WiredShape ==
    /\ chip = [wr |-> chip.wr, rd |-> chip.rd, rsr |-> chip.rsr, head |-> chip.head,
               recv |-> chip.recv, unsent |-> chip.unsent, sendok |-> chip.sendok,
               phy |-> chip.phy]
    /\ rx = [at |-> rx.at, irq |-> rx.irq, due |-> rx.due, rsr |-> rx.rsr, total |-> rx.total]

\* The worker is at work, pending or waits for the line.
WorkerCalled == rx.at = "idle" /\ ~rx.due => rx.irq

\* Where the line is armed, or will be with nothing in between, what is in the
\* chip holds it low: after the last look the chip was empty, and so was it when
\* it was initialised.
LineTells ==
    (rx.at = "idle" /\ ~rx.due) \/ rx.at = "opened" => (chip.rsr # 0 => chip.recv)

WiredInv == WiredShape /\ WorkerCalled /\ LineTells

\* The chip's own steps.
ChipStep == Arrives \/ Transmits \/ Plug

\* The driver on the receiving side.
DriverStep ==
    \/ gpio_irq \/ rx_work \/ w6100_irq_ack \/ RxSize \/ w6100_rx_begin \/ w6100_rx_end
    \/ w6100_rx_pending

\* What sends, looks at the link, or starts.
OtherStep == linkoutput \/ w6100_tx_end \/ link_work \/ w6100_init \/ eth_init \/ StartAgain

\* The invariant holds before eth_init() and after it.
LEMMA WiredStart == WiredInit => WiredInv
  <1> SUFFICES ASSUME WiredInit PROVE WiredInv
    OBVIOUS
  <1>1. PICK phy \in BOOLEAN : chip = Empty(phy)
    BY DEF WiredInit
  <1>2. \/ rx = [at |-> "off", irq |-> FALSE, due |-> FALSE, rsr |-> 0, total |-> 0]
        \/ rx = [at |-> "idle", irq |-> TRUE, due |-> FALSE, rsr |-> 0, total |-> 0]
    BY DEF WiredInit, Off
  <1>3. WiredShape /\ chip.rsr = 0
    BY <1>1, <1>2 DEF WiredShape, Empty
  <1>4. WorkerCalled
    BY <1>2 DEF WorkerCalled
  <1> QED
    BY <1>3, <1>4 DEF WiredInv, LineTells

\* A frame that arrives raises the line; nothing else in the chip touches it.
LEMMA ChipKeeps == WiredInv /\ ChipStep => WiredInv'
  <1> SUFFICES ASSUME WiredInv, ChipStep PROVE WiredInv'
    OBVIOUS
  <1>1. CASE Arrives
    <2>1. rx' = rx
      BY <1>1 DEF Arrives
    <2>2. PICK n \in Frames :
             chip' = [chip EXCEPT !.head[chip.wr] = n, !.wr = Past(@, n), !.rsr = @ + n,
                                  !.recv = TRUE]
      BY <1>1 DEF Arrives
    <2>3. WiredShape'
      BY <2>1, <2>2 DEF WiredInv, WiredShape
    <2>4. chip'.recv
      BY <2>2 DEF WiredInv, WiredShape
    <2> QED
      BY <2>1, <2>3, <2>4 DEF WiredInv, WorkerCalled, LineTells
  <1>2. CASE Transmits
    BY <1>2 DEF Transmits, WiredInv, WiredShape, WorkerCalled, LineTells
  <1>3. CASE Plug
    BY <1>3 DEF Plug, WiredInv, WiredShape, WorkerCalled, LineTells
  <1> QED
    BY <1>1, <1>2, <1>3 DEF ChipStep

\* The handler masks the line and makes the worker pending; the worker leaves
\* "idle" before it acknowledges and comes back only with the chip empty.
LEMMA DriverKeeps == WiredInv /\ DriverStep => WiredInv'
  <1> SUFFICES ASSUME WiredInv, DriverStep PROVE WiredInv'
    OBVIOUS
  <1>1. CASE gpio_irq
    BY <1>1 DEF gpio_irq, WiredInv, WiredShape, WorkerCalled, LineTells
  <1>2. CASE rx_work
    BY <1>2 DEF rx_work, WiredInv, WiredShape, WorkerCalled, LineTells
  <1>3. CASE w6100_irq_ack
    BY <1>3 DEF w6100_irq_ack, Step, WiredInv, WiredShape, WorkerCalled, LineTells
  <1>4. CASE RxSize
    BY <1>4 DEF RxSize, WiredInv, WiredShape, WorkerCalled, LineTells
  <1>5. CASE w6100_rx_begin
    <2>1. rx'.at \in {"check", "end"} /\ WiredShape'
      BY <1>5 DEF w6100_rx_begin, Received, WiredInv, WiredShape
    <2> QED
      BY <2>1 DEF WiredInv, WorkerCalled, LineTells
  <1>6. CASE w6100_rx_end
    <2>1. rx'.at = "begin" /\ WiredShape'
      BY <1>6 DEF w6100_rx_end, Step, Received, WiredInv, WiredShape
    <2> QED
      BY <2>1 DEF WiredInv, WorkerCalled, LineTells
  <1>7. CASE w6100_rx_pending
    BY <1>7 DEF w6100_rx_pending, WiredInv, WiredShape, WorkerCalled, LineTells
  <1> QED
    BY <1>1, <1>2, <1>3, <1>4, <1>5, <1>6, <1>7 DEF DriverStep

\* Sending leaves the receiving side alone; a start empties the chip before the
\* line is armed.
LEMMA OthersKeep == WiredInv /\ OtherStep => WiredInv'
  <1> SUFFICES ASSUME WiredInv, OtherStep PROVE WiredInv'
    OBVIOUS
  <1>1. CASE linkoutput
    BY <1>1 DEF linkoutput, WiredInv, WiredShape, WorkerCalled, LineTells
  <1>2. CASE w6100_tx_end
    BY <1>2 DEF w6100_tx_end, WiredInv, WiredShape, WorkerCalled, LineTells
  <1>3. CASE link_work
    BY <1>3 DEF link_work, WiredInv, WiredShape, WorkerCalled, LineTells
  <1>4. CASE w6100_init
    BY <1>4 DEF w6100_init, Empty, WiredInv, WiredShape, WorkerCalled, LineTells
  <1>5. CASE eth_init
    BY <1>5 DEF eth_init, WiredInv, WiredShape, WorkerCalled, LineTells
  <1>6. CASE StartAgain
    BY <1>6 DEF StartAgain, Off, WiredInv, WiredShape, WorkerCalled, LineTells
  <1> QED
    BY <1>1, <1>2, <1>3, <1>4, <1>5, <1>6 DEF OtherStep

LEMMA WiredStep == WiredInv /\ [WiredNext]_wired_vars => WiredInv'
  <1> SUFFICES ASSUME WiredInv, [WiredNext]_wired_vars PROVE WiredInv'
    OBVIOUS
  <1>1. CASE ChipStep
    BY <1>1, ChipKeeps
  <1>2. CASE DriverStep
    BY <1>2, DriverKeeps
  <1>3. CASE OtherStep
    BY <1>3, OthersKeep
  <1>4. CASE UNCHANGED wired_vars
    BY <1>4 DEF wired_vars, WiredInv, WiredShape, WorkerCalled, LineTells
  <1> QED
    BY <1>1, <1>2, <1>3, <1>4 DEF WiredNext, ChipStep, DriverStep, OtherStep

\* With the worker neither at work nor pending, a frame in the chip holds the
\* line low and the line is armed: the driver (eth.c) never sleeps on a frame,
\* for every ring and every frame size.
THEOREM FramesAreSeen == WiredSpec => []NoFrameForgotten
  <1>1. WiredInv => NoFrameForgotten
    BY DEF WiredInv, WorkerCalled, LineTells, NoFrameForgotten
  <1> QED
    BY WiredStart, WiredStep, <1>1, PTL DEF WiredSpec

------------------------------------------------------------------------------
(* The frames in the ring *)

Bytes == 0..RING - 1

\* A frame starts o bytes past the read pointer of chip c, or the data ends there.
StartAt(c, o) == o < c.rsr => c.head[Past(c.rd, o)] > 0

\* The data is a row of frames: one starts at the read pointer, and where one
\* ends the next one starts or the data ends.
Row(c) ==
    /\ c.rd \in Bytes /\ c.rsr \in 0..RING /\ c.wr = Past(c.rd, c.rsr)
    /\ c.head \in [Bytes -> Nat]
    /\ StartAt(c, 0)
    /\ \A o \in 0..c.rsr - 1 :
          LET n == c.head[Past(c.rd, o)]
          IN  n > 0 => o + n <= c.rsr /\ StartAt(c, o + n)
    /\ \A o \in c.rsr..RING - 1 : c.head[Past(c.rd, o)] = 0

\* What the driver is about to free ends where a frame does, whatever has arrived
\* since it was counted.
FreesFrames ==
    /\ rx.at = "header" => rx.rsr \in 1..chip.rsr /\ StartAt(chip, rx.rsr)
    /\ rx.at = "end" => rx.total \in 1..chip.rsr /\ StartAt(chip, rx.total)

RowInv == WiredShape /\ Row(chip) /\ FreesFrames

\* Walking round the ring.
LEMMA PastIn ==
    ASSUME NEW x \in Bytes, NEW o \in 0..RING
    PROVE  Past(x, o) \in Bytes /\ Past(x, o) = (IF x + o < RING THEN x + o ELSE x + o - RING)
  <1>1. RING \in Nat \ {0}
    BY RingAssumption
  <1>2. x \in Nat /\ x < RING /\ o \in Nat /\ o <= RING
    BY <1>1 DEF Bytes
  <1>3. CASE x + o < RING
    <2>1. (x + o) % RING = x + o
      BY <1>1, <1>2, <1>3
    <2> QED
      BY <1>1, <1>2, <1>3, <2>1 DEF Past, Bytes
  <1>4. CASE x + o >= RING
    <2>1. (x + o) % RING = x + o - RING
      BY <1>1, <1>2, <1>4
    <2> QED
      BY <1>1, <1>2, <1>4, <2>1 DEF Past, Bytes
  <1> QED
    BY <1>1, <1>2, <1>3, <1>4

LEMMA PastNone == ASSUME NEW x \in Bytes PROVE Past(x, 0) = x
  <1>1. RING \in Nat \ {0} /\ 0 \in 0..RING /\ x \in Nat /\ x < RING
    BY RingAssumption DEF Bytes
  <1> QED
    BY <1>1, PastIn

LEMMA PastPast ==
    ASSUME NEW x \in Bytes, NEW o \in 0..RING, NEW n \in 0..RING, o + n <= RING
    PROVE  Past(Past(x, n), o) = Past(x, o + n)
  <1>1. RING \in Nat \ {0} /\ o + n \in 0..RING /\ x \in Nat /\ x < RING
    BY RingAssumption DEF Bytes
  <1>2. Past(x, n) \in Bytes /\ Past(x, n) = (IF x + n < RING THEN x + n ELSE x + n - RING)
    BY PastIn
  <1>3. Past(x, o + n) = (IF x + (o + n) < RING THEN x + (o + n) ELSE x + (o + n) - RING)
    BY <1>1, PastIn
  <1>4. Past(Past(x, n), o)
          = (IF Past(x, n) + o < RING THEN Past(x, n) + o ELSE Past(x, n) + o - RING)
    BY <1>2, PastIn
  <1> QED
    BY <1>1, <1>2, <1>3, <1>4 DEF Bytes

LEMMA PastBack ==
    ASSUME NEW x \in Bytes, NEW o \in Bytes
    PROVE  (Past(x, o) - x) % RING = o
  <1>1. RING \in Nat \ {0} /\ x \in Nat /\ x < RING /\ o \in Nat /\ o < RING
    BY RingAssumption DEF Bytes
  <1>2. Past(x, o) = (IF x + o < RING THEN x + o ELSE x + o - RING)
    BY <1>1, PastIn
  <1>3. CASE x + o < RING
    <2>1. Past(x, o) - x = o /\ o % RING = o
      BY <1>1, <1>2, <1>3
    <2> QED
      BY <2>1
  <1>4. CASE x + o >= RING
    <2>1. Past(x, o) - x = o - RING
      BY <1>1, <1>2, <1>4
    <2>2. (o - RING) % RING = o
      BY <1>1
    <2> QED
      BY <2>1, <2>2
  <1> QED
    BY <1>1, <1>3, <1>4

LEMMA PastApart ==
    ASSUME NEW x \in Bytes, NEW o \in Bytes, NEW n \in Bytes, Past(x, o) = Past(x, n)
    PROVE  o = n
  BY PastBack

\* A frame that arrives joins the end of the row and leaves what starts where.
LEMMA RowGrows ==
    ASSUME NEW c, Row(c), NEW n \in Frames, c.rsr + n <= RING,
           NEW d, d.rd = c.rd, d.rsr = c.rsr + n, d.wr = Past(c.wr, n),
           d.head = [c.head EXCEPT ![c.wr] = n]
    PROVE  Row(d) /\ \A o \in 0..c.rsr : StartAt(c, o) => StartAt(d, o)
  <1>1. RING \in Nat \ {0} /\ n \in Nat /\ n > 0
    BY RingAssumption
  <1>2. c.rd \in Bytes /\ c.rsr \in 0..RING /\ c.wr = Past(c.rd, c.rsr) /\ c.head \in [Bytes -> Nat]
    BY DEF Row
  <1>3. c.rsr \in Bytes /\ c.rsr \in Nat /\ n \in 0..RING /\ d.rsr \in 0..RING
    BY <1>1, <1>2 DEF Bytes
  <1>4. c.wr \in Bytes /\ d.head \in [Bytes -> Nat] /\ d.head[c.wr] = n
    BY <1>1, <1>2, PastIn
  <1>5. d.wr = Past(d.rd, d.rsr)
    BY <1>1, <1>2, <1>3, PastPast
  <1>13. ASSUME NEW o \in Bytes, o # c.rsr PROVE Past(c.rd, o) # c.wr
    <2>1. c.rd \in Bytes /\ c.rsr \in Bytes
      BY <1>2, <1>3
    <2>2. (Past(c.rd, o) - c.rd) % RING = o
      BY <2>1, PastBack
    <2>3. (c.wr - c.rd) % RING = c.rsr
      BY <1>2, <2>1, PastBack
    <2> QED
      BY <1>13, <2>2, <2>3
  <1>6. ASSUME NEW o \in 0..c.rsr - 1
        PROVE  Past(c.rd, o) \in Bytes /\ d.head[Past(c.rd, o)] = c.head[Past(c.rd, o)]
    <2>1. o \in Bytes /\ o \in 0..RING /\ o # c.rsr
      BY <1>1, <1>3, <1>6 DEF Bytes
    <2>2. Past(c.rd, o) \in Bytes
      BY <1>2, <2>1, PastIn
    <2>3. Past(c.rd, o) # c.wr
      BY <1>13, <2>1
    <2> QED
      BY <1>2, <2>2, <2>3
  <1>7. ASSUME NEW o \in 0..c.rsr, StartAt(c, o) PROVE StartAt(d, o)
    <2>1. CASE o = c.rsr
      BY <1>1, <1>2, <1>4, <2>1 DEF StartAt
    <2>2. CASE o < c.rsr
      <3>1. o \in 0..c.rsr - 1
        BY <1>3, <2>2
      <3> QED
        BY <1>6, <1>7, <2>2, <3>1 DEF StartAt
    <2> QED
      BY <1>3, <2>1, <2>2
  <1>9. ASSUME NEW o \in c.rsr..RING - 1, o # c.rsr PROVE d.head[Past(d.rd, o)] = 0
    <2>1. o \in Bytes /\ o \in 0..RING
      BY <1>1, <1>3 DEF Bytes
    <2>2. Past(c.rd, o) \in Bytes /\ Past(c.rd, o) # c.wr
      BY <1>2, <1>9, <1>13, <2>1, PastIn
    <2>3. c.head[Past(c.rd, o)] = 0
      BY DEF Row
    <2> QED
      BY <1>2, <2>2, <2>3
  <1>8. ASSUME NEW o \in 0..d.rsr - 1, d.head[Past(d.rd, o)] > 0
        PROVE  LET m == d.head[Past(d.rd, o)] IN o + m <= d.rsr /\ StartAt(d, o + m)
    <2>1. CASE o < c.rsr
      <3>1. o \in 0..c.rsr - 1
        BY <1>1, <1>3, <2>1
      <3> DEFINE m == c.head[Past(c.rd, o)]
      <3>2. d.head[Past(d.rd, o)] = m /\ m \in Nat /\ m > 0
        BY <1>2, <1>6, <1>8, <3>1
      <3>3. o + m <= c.rsr /\ StartAt(c, o + m)
        BY <3>1, <3>2 DEF Row
      <3>4. o + m \in 0..c.rsr
        BY <1>3, <3>1, <3>2, <3>3
      <3>5. StartAt(d, o + m) /\ o + m <= d.rsr
        BY <1>1, <1>3, <1>7, <3>3, <3>4
      <3> QED
        BY <3>2, <3>5
    <2>2. CASE o = c.rsr
      <3>1. d.head[Past(d.rd, o)] = n
        BY <1>2, <1>4, <2>2
      <3>2. o + n = d.rsr
        BY <2>2
      <3> QED
        BY <1>1, <1>3, <3>1, <3>2 DEF StartAt
    <2>3. CASE o > c.rsr
      <3>1. o \in c.rsr..RING - 1 /\ o \in Bytes
        BY <1>1, <1>3, <1>8, <2>3 DEF Bytes
      <3> QED
        BY <1>8, <1>9, <2>3, <3>1
    <2> QED
      BY <1>1, <1>3, <2>1, <2>2, <2>3
  <1>10. StartAt(d, 0)
    BY <1>2, <1>3, <1>7 DEF Row
  <1>11. \A o \in d.rsr..RING - 1 : d.head[Past(d.rd, o)] = 0
    BY <1>1, <1>3, <1>9
  <1>12. d.rd \in Bytes /\ d.rsr \in 0..RING /\ d.wr = Past(d.rd, d.rsr)
    BY <1>2, <1>3, <1>5
  <1> QED
    BY <1>4, <1>7, <1>8, <1>10, <1>11, <1>12 DEF Row

LEMMA PastRound ==
    ASSUME NEW x \in Bytes, NEW o \in Bytes, NEW n \in 0..RING, o + n >= RING
    PROVE  /\ o + n - RING \in Bytes /\ o + n - RING < n
           /\ Past(Past(x, n), o) = Past(x, o + n - RING)
  <1>1. RING \in Nat \ {0} /\ o \in 0..RING /\ x \in Nat /\ x < RING /\ o < RING
    BY RingAssumption DEF Bytes
  <1>2. o + n - RING \in 0..RING /\ o + n - RING \in Bytes
    BY <1>1 DEF Bytes
  <1>3. Past(x, n) \in Bytes /\ Past(x, n) = (IF x + n < RING THEN x + n ELSE x + n - RING)
    BY PastIn
  <1>4. Past(x, o + n - RING)
          = (IF x + (o + n - RING) < RING THEN x + (o + n - RING) ELSE x + (o + n - RING) - RING)
    BY <1>2, PastIn
  <1>5. Past(Past(x, n), o)
          = (IF Past(x, n) + o < RING THEN Past(x, n) + o ELSE Past(x, n) + o - RING)
    BY <1>1, <1>3, PastIn
  <1> QED
    BY <1>1, <1>2, <1>3, <1>4, <1>5 DEF Bytes

\* The frames once n bytes are free.
Freed(c, n) == [x \in DOMAIN c.head |-> IF (x - c.rd) % RING < n THEN 0 ELSE c.head[x]]

LEMMA FreedHeads ==
    ASSUME NEW c, c.rd \in Bytes, c.head \in [Bytes -> Nat], NEW n \in Nat
    PROVE  /\ Freed(c, n) \in [Bytes -> Nat]
           /\ \A o \in Bytes : Freed(c, n)[Past(c.rd, o)]
                               = (IF o < n THEN 0 ELSE c.head[Past(c.rd, o)])
  <1>1. Freed(c, n) \in [Bytes -> Nat]
    BY DEF Freed
  <1>2. ASSUME NEW o \in Bytes
        PROVE  Freed(c, n)[Past(c.rd, o)] = (IF o < n THEN 0 ELSE c.head[Past(c.rd, o)])
    <2>1. (Past(c.rd, o) - c.rd) % RING = o
      BY PastBack
    <2>2. o \in 0..RING
      BY RingAssumption DEF Bytes
    <2>3. Past(c.rd, o) \in Bytes
      BY <2>2, PastIn
    <2> QED
      BY <2>1, <2>3 DEF Freed
  <1> QED
    BY <1>1, <1>2

\* Freeing whole frames leaves a row of frames.
LEMMA RowShrinks ==
    ASSUME NEW c, Row(c), NEW n \in 0..c.rsr, StartAt(c, n),
           NEW d, d.rd = Past(c.rd, n), d.rsr = c.rsr - n, d.wr = c.wr,
           d.head = Freed(c, n)
    PROVE  Row(d)
  <1>1. RING \in Nat \ {0}
    BY RingAssumption
  <1>2. c.rd \in Bytes /\ c.rsr \in 0..RING /\ c.wr = Past(c.rd, c.rsr) /\ c.head \in [Bytes -> Nat]
    BY DEF Row
  <1>3. c.rsr \in Nat /\ n \in 0..RING /\ d.rsr \in 0..RING /\ n \in Nat
    BY <1>1, <1>2
  <1>4. d.rd \in Bytes
    BY <1>2, <1>3, PastIn
  <1>5. d.head \in [Bytes -> Nat]
    BY <1>2, <1>3, FreedHeads
  <1>6. d.wr = Past(d.rd, d.rsr)
    BY <1>1, <1>2, <1>3, PastPast
  <1>7. ASSUME NEW o \in Bytes, o + n < RING
        PROVE  o + n \in Bytes /\ Past(d.rd, o) = Past(c.rd, o + n)
               /\ d.head[Past(d.rd, o)] = c.head[Past(c.rd, o + n)]
    <2>1. o + n \in Bytes /\ o \in 0..RING /\ o + n \in 0..RING
      BY <1>1, <1>3, <1>7 DEF Bytes
    <2>2. Past(d.rd, o) = Past(c.rd, o + n)
      <3>1. o + n <= RING /\ c.rd \in Bytes /\ n \in 0..RING
        BY <1>1, <1>2, <1>3, <2>1
      <3>2. Past(Past(c.rd, n), o) = Past(c.rd, o + n)
        BY <2>1, <3>1, PastPast
      <3> QED
        BY <3>2
    <2>3. ~(o + n < n)
      BY <1>3 DEF Bytes
    <2>4. d.head[Past(c.rd, o + n)] = c.head[Past(c.rd, o + n)]
      BY <1>2, <1>3, <2>1, <2>3, FreedHeads
    <2> QED
      BY <2>1, <2>2, <2>4
  <1>8. ASSUME NEW o \in 0..d.rsr, StartAt(c, o + n) PROVE StartAt(d, o)
    <2>1. CASE o < d.rsr
      <3>1. o \in Bytes /\ o + n < RING /\ o + n < c.rsr
        BY <1>1, <1>2, <1>3, <2>1 DEF Bytes
      <3> QED
        BY <1>7, <1>8, <3>1 DEF StartAt
    <2>2. CASE ~(o < d.rsr)
      BY <2>2 DEF StartAt
    <2> QED
      BY <2>1, <2>2
  <1>9. StartAt(d, 0)
    <2>1. 0 \in 0..d.rsr /\ 0 + n = n
      BY <1>3
    <2> QED
      BY <1>8, <2>1
  <1>10. ASSUME NEW o \in 0..d.rsr - 1, d.head[Past(d.rd, o)] > 0
         PROVE  LET m == d.head[Past(d.rd, o)] IN o + m <= d.rsr /\ StartAt(d, o + m)
    <2>1. o \in Bytes /\ o \in Nat /\ o + n < RING /\ o + n \in 0..c.rsr - 1
      <3>1. o \in Nat /\ o + n < c.rsr
        BY <1>2, <1>3
      <3>2. o + n < RING /\ o < RING
        BY <1>1, <1>2, <1>3, <3>1
      <3> QED
        BY <1>1, <1>2, <1>3, <3>1, <3>2 DEF Bytes
    <2> DEFINE m == c.head[Past(c.rd, o + n)]
    <2>2. d.head[Past(d.rd, o)] = m /\ m > 0
      BY <1>7, <1>10, <2>1
    <2>3. m \in Nat
      <3>1. o + n \in 0..RING /\ c.rd \in Bytes
        BY <1>1, <1>2, <1>3, <2>1
      <3>2. Past(c.rd, o + n) \in Bytes
        BY <3>1, PastIn
      <3> QED
        BY <1>2, <3>2
    <2>4. (o + n) + m <= c.rsr /\ StartAt(c, (o + n) + m)
      BY <2>1, <2>2 DEF Row
    <2> HIDE DEF m
    <2>5. o + m \in 0..d.rsr /\ (o + n) + m = (o + m) + n /\ o + m <= d.rsr
      BY <1>3, <2>1, <2>3, <2>4
    <2>6. StartAt(d, o + m)
      BY <1>8, <2>4, <2>5
    <2> QED
      BY <2>2, <2>5, <2>6
  <1>11. ASSUME NEW o \in d.rsr..RING - 1 PROVE d.head[Past(d.rd, o)] = 0
    <2>1. o \in Bytes /\ o \in Nat
      BY <1>1, <1>3 DEF Bytes
    <2>2. CASE o + n < RING
      <3>1. o + n \in c.rsr..RING - 1
        BY <1>1, <1>3, <2>1, <2>2
      <3> QED
        BY <1>7, <2>1, <2>2, <3>1 DEF Row
    <2>3. CASE o + n >= RING
      <3>1. /\ o + n - RING \in Bytes /\ o + n - RING < n
            /\ Past(d.rd, o) = Past(c.rd, o + n - RING)
        <4>1. c.rd \in Bytes /\ n \in 0..RING
          BY <1>2, <1>3
        <4>2. /\ o + n - RING \in Bytes /\ o + n - RING < n
              /\ Past(Past(c.rd, n), o) = Past(c.rd, o + n - RING)
          BY <2>1, <2>3, <4>1, PastRound
        <4> QED
          BY <4>2
      <3> QED
        BY <1>2, <1>3, <3>1, FreedHeads
    <2> QED
      BY <1>1, <1>3, <2>1, <2>2, <2>3
  <1> QED
    BY <1>3, <1>4, <1>5, <1>6, <1>9, <1>10, <1>11 DEF Row

LEMMA RowSame ==
    ASSUME NEW c, NEW d, d.rd = c.rd, d.rsr = c.rsr, d.wr = c.wr, d.head = c.head
    PROVE  /\ Row(c) => Row(d)
           /\ \A o : StartAt(c, o) => StartAt(d, o)
  <1>1. \A o : StartAt(c, o) <=> StartAt(d, o)
    BY DEF StartAt
  <1> QED
    BY <1>1 DEF Row

LEMMA EmptyRow == \A phy : Row(Empty(phy))
  <1> SUFFICES ASSUME NEW phy PROVE Row(Empty(phy))
    OBVIOUS
  <1> DEFINE c == Empty(phy)
  <1>1. RING \in Nat \ {0} /\ 0 \in Bytes /\ 0 \in 0..RING
    BY RingAssumption DEF Bytes
  <1>2. c.rd = 0 /\ c.rsr = 0 /\ c.wr = 0 /\ c.head = [x \in Bytes |-> 0]
    BY DEF Empty, Bytes
  <1> HIDE DEF c
  <1>3. Past(0, 0) = 0
    BY <1>1, PastIn
  <1>4. \A o \in 0..RING - 1 : c.head[Past(0, o)] = 0
    <2> SUFFICES ASSUME NEW o \in Bytes PROVE Past(0, o) \in Bytes
      BY <1>2 DEF Bytes
    <2>1. o \in 0..RING
      BY <1>1 DEF Bytes
    <2> QED
      BY <1>1, <2>1, PastIn
  <1>5. c.head \in [Bytes -> Nat]
    BY <1>2
  <1> QED
    BY <1>1, <1>2, <1>3, <1>4, <1>5 DEF Row, StartAt, c

\* The chip is empty and the driver has counted nothing.
LEMMA RowStart == WiredInit => RowInv
  <1> SUFFICES ASSUME WiredInit PROVE RowInv
    OBVIOUS
  <1>1. PICK phy \in BOOLEAN : chip = Empty(phy)
    BY DEF WiredInit
  <1>2. \/ rx = [at |-> "off", irq |-> FALSE, due |-> FALSE, rsr |-> 0, total |-> 0]
        \/ rx = [at |-> "idle", irq |-> TRUE, due |-> FALSE, rsr |-> 0, total |-> 0]
    BY DEF WiredInit, Off
  <1>3. Row(chip)
    BY <1>1, EmptyRow
  <1>4. WiredShape
    BY WiredStart DEF WiredInv
  <1> QED
    BY <1>2, <1>3, <1>4 DEF RowInv, FreesFrames

LEMMA ChipKeepsRow == RowInv /\ WiredShape' /\ ChipStep => RowInv'
  <1> SUFFICES ASSUME RowInv, WiredShape', ChipStep PROVE RowInv'
    OBVIOUS
  <1>1. CASE Arrives
    <2>1. rx' = rx
      BY <1>1 DEF Arrives
    <2>2. PICK n \in Frames :
             /\ chip.rsr + n <= RING
             /\ chip' = [chip EXCEPT !.head[chip.wr] = n, !.wr = Past(@, n), !.rsr = @ + n,
                                     !.recv = TRUE]
      BY <1>1 DEF Arrives
    <2>3. /\ chip'.rd = chip.rd /\ chip'.rsr = chip.rsr + n /\ chip'.wr = Past(chip.wr, n)
          /\ chip'.head = [chip.head EXCEPT ![chip.wr] = n]
      BY <2>2 DEF RowInv, WiredShape
    <2>4. Row(chip') /\ \A o \in 0..chip.rsr : StartAt(chip, o) => StartAt(chip', o)
      <3>1. Row(chip) /\ chip.rsr + n <= RING
        BY <2>2 DEF RowInv
      <3> QED
        BY <2>3, <3>1, RowGrows
    <2>5. n \in Nat /\ chip.rsr \in Nat
      BY RingAssumption DEF RowInv, Row
    <2>6. FreesFrames'
      <3>1. ASSUME NEW m \in 1..chip.rsr, StartAt(chip, m)
            PROVE  m \in 1..chip'.rsr /\ StartAt(chip', m)
        BY <2>3, <2>4, <2>5, <3>1
      <3> QED
        BY <2>1, <3>1 DEF RowInv, FreesFrames
    <2> QED
      BY <2>4, <2>6 DEF RowInv
  <1>2. CASE Transmits \/ Plug
    <2>1. rx' = rx
      BY <1>2 DEF Transmits, Plug
    <2>2. /\ chip'.rd = chip.rd /\ chip'.rsr = chip.rsr /\ chip'.wr = chip.wr
          /\ chip'.head = chip.head
      BY <1>2 DEF Transmits, Plug, RowInv, WiredShape
    <2> QED
      BY <2>1, <2>2, RowSame DEF RowInv, FreesFrames
  <1> QED
    BY <1>1, <1>2 DEF ChipStep

\* Freeing n bytes that end with a frame, which leaves nothing counted.
LEMMA ReceivedKeepsRow ==
    ASSUME RowInv, WiredShape', NEW n \in 0..chip.rsr, StartAt(chip, n), Received(n),
           rx'.at \notin {"header", "end"}
    PROVE  RowInv'
  <1>1. /\ chip'.rd = Past(chip.rd, n) /\ chip'.rsr = chip.rsr - n /\ chip'.wr = chip.wr
        /\ chip'.head = Freed(chip, n)
    BY DEF Received, RowInv, WiredShape, Freed
  <1>2. Row(chip')
    BY <1>1, RowShrinks DEF RowInv
  <1> QED
    BY <1>2 DEF RowInv, FreesFrames

LEMMA DriverKeepsRow == RowInv /\ WiredShape' /\ DriverStep => RowInv'
  <1> SUFFICES ASSUME RowInv, WiredShape', DriverStep PROVE RowInv'
    OBVIOUS
  <1>1. chip.rsr \in Nat /\ chip.rd \in Bytes /\ chip.head \in [Bytes -> Nat]
    BY RingAssumption DEF RowInv, Row
  <1>2. CASE gpio_irq
    BY <1>2 DEF gpio_irq, RowInv, WiredShape, FreesFrames
  <1>3. CASE rx_work
    BY <1>3 DEF rx_work, RowInv, WiredShape, FreesFrames
  <1>4. CASE w6100_irq_ack
    <2>1. rx'.at = "begin"
      BY <1>4 DEF w6100_irq_ack, Step, RowInv, WiredShape
    <2>2. /\ chip'.rd = chip.rd /\ chip'.rsr = chip.rsr /\ chip'.wr = chip.wr
          /\ chip'.head = chip.head
      BY <1>4 DEF w6100_irq_ack, RowInv, WiredShape
    <2> QED
      BY <2>1, <2>2, RowSame DEF RowInv, FreesFrames
  <1>5. CASE RxSize
    <2>1. chip' = chip /\ rx'.rsr = chip.rsr /\ rx'.at \in {"check", "header"}
          /\ (rx'.at = "header" => ~(chip.rsr < HEADER))
      BY <1>5 DEF RxSize, RowInv, WiredShape
    <2>2. rx'.at = "header" => rx'.rsr \in 1..chip.rsr /\ StartAt(chip, rx'.rsr)
      BY <1>1, <2>1 DEF HEADER, StartAt
    <2> QED
      BY <2>1, <2>2 DEF RowInv, FreesFrames
  <1>6. CASE w6100_rx_begin
    <2> DEFINE total == chip.head[chip.rd]
    <2>1. rx.at = "header" /\ rx.rsr \in 1..chip.rsr /\ StartAt(chip, rx.rsr)
      BY <1>6 DEF w6100_rx_begin, RowInv, FreesFrames
    <2>2. chip.rsr > 0 /\ 0 \in 0..chip.rsr - 1 /\ Past(chip.rd, 0) = chip.rd
      BY <1>1, <2>1, PastNone
    <2>3. total \in Nat /\ total > 0 /\ 0 + total <= chip.rsr /\ StartAt(chip, 0 + total)
      BY <1>1, <2>2 DEF RowInv, Row, StartAt
    <2>4. total \in 1..chip.rsr /\ StartAt(chip, total)
      BY <1>1, <2>3
    <2>5. \/ rx'.at = "check" /\ Received(rx.rsr)
          \/ rx'.at = "end" /\ rx'.total = total /\ chip' = chip
      BY <1>6 DEF w6100_rx_begin, RowInv, WiredShape
    <2>6. CASE rx'.at = "check" /\ Received(rx.rsr)
      <3>1. rx.rsr \in 0..chip.rsr
        BY <1>1, <2>1
      <3> QED
        BY <2>1, <2>6, <3>1, ReceivedKeepsRow
    <2>7. CASE rx'.at = "end" /\ rx'.total = total /\ chip' = chip
      BY <2>4, <2>7 DEF RowInv, FreesFrames
    <2> QED
      BY <2>5, <2>6, <2>7
  <1>7. CASE w6100_rx_end
    <2>1. rx'.at = "begin" /\ Received(rx.total) /\ rx.at = "end"
      BY <1>7 DEF w6100_rx_end, Step, RowInv, WiredShape
    <2>2. rx.total \in 0..chip.rsr /\ StartAt(chip, rx.total)
      BY <1>1, <2>1 DEF RowInv, FreesFrames
    <2> QED
      BY <2>1, <2>2, ReceivedKeepsRow
  <1>8. CASE w6100_rx_pending
    BY <1>8 DEF w6100_rx_pending, RowInv, WiredShape, FreesFrames
  <1> QED
    BY <1>2, <1>3, <1>4, <1>5, <1>6, <1>7, <1>8 DEF DriverStep

LEMMA OthersKeepRow == RowInv /\ WiredShape' /\ OtherStep => RowInv'
  <1> SUFFICES ASSUME RowInv, WiredShape', OtherStep PROVE RowInv'
    OBVIOUS
  <1>1. CASE linkoutput
    <2>1. /\ chip'.rd = chip.rd /\ chip'.rsr = chip.rsr /\ chip'.wr = chip.wr
          /\ chip'.head = chip.head /\ rx' = rx
      BY <1>1 DEF linkoutput, RowInv, WiredShape
    <2> QED
      BY <2>1, RowSame DEF RowInv, FreesFrames
  <1>2. CASE w6100_tx_end
    <2>1. /\ chip'.rd = chip.rd /\ chip'.rsr = chip.rsr /\ chip'.wr = chip.wr
          /\ chip'.head = chip.head /\ rx' = rx
      BY <1>2 DEF w6100_tx_end, RowInv, WiredShape
    <2> QED
      BY <2>1, RowSame DEF RowInv, FreesFrames
  <1>3. CASE link_work
    BY <1>3 DEF link_work, RowInv, FreesFrames
  <1>4. CASE w6100_init
    <2>1. chip' = Empty(chip.phy) /\ rx'.at \in {"opened", "absent"}
      BY <1>4 DEF w6100_init, RowInv, WiredShape
    <2>2. Row(chip')
      BY <2>1, EmptyRow
    <2> QED
      BY <2>1, <2>2 DEF RowInv, FreesFrames
  <1>5. CASE eth_init
    BY <1>5 DEF eth_init, RowInv, WiredShape, FreesFrames
  <1>6. CASE StartAgain
    BY <1>6 DEF StartAgain, Off, RowInv, FreesFrames
  <1> QED
    BY <1>1, <1>2, <1>3, <1>4, <1>5, <1>6 DEF OtherStep

LEMMA RowStep == WiredInv /\ RowInv /\ [WiredNext]_wired_vars => RowInv'
  <1> SUFFICES ASSUME WiredInv, RowInv, [WiredNext]_wired_vars PROVE RowInv'
    OBVIOUS
  <1>1. WiredShape'
    BY WiredStep DEF WiredInv
  <1>2. CASE UNCHANGED wired_vars
    BY <1>2 DEF wired_vars, RowInv, WiredShape, FreesFrames
  <1>3. CASE ChipStep
    BY <1>1, <1>3, ChipKeepsRow
  <1>4. CASE DriverStep
    BY <1>1, <1>4, DriverKeepsRow
  <1>5. CASE OtherStep
    BY <1>1, <1>5, OthersKeepRow
  <1> QED
    BY <1>2, <1>3, <1>4, <1>5 DEF WiredNext, ChipStep, DriverStep, OtherStep

\* The read pointer of the W6100 is at the start of a frame as long as there is
\* one: the driver (w6100.c, eth.c) frees whole frames only, whatever arrives while
\* it drains the ring, for every size of the ring and of the frames.
THEOREM ReadsStayInStep == WiredSpec => []InStep
  <1>1. RowInv => InStep
    <2> SUFFICES ASSUME RowInv, chip.rsr > 0 PROVE chip.head[chip.rd] > 0
      BY DEF InStep
    <2>1. chip.rd \in Bytes /\ StartAt(chip, 0)
      BY DEF RowInv, Row
    <2>2. Past(chip.rd, 0) = chip.rd
      BY <2>1, PastNone
    <2> QED
      BY <2>1, <2>2 DEF StartAt
  <1> QED
    BY WiredStart, WiredStep, RowStart, RowStep, <1>1, PTL DEF WiredSpec

------------------------------------------------------------------------------
(* First-time setup *)

ImpFields ==
    {"open", "reason", "inhibit", "state", "error", "req", "attempt", "left", "prev", "closing",
     "owe"}
RadioFields == {"on", "want", "refused"}

\* What improv.c (i) may take for joined, with the radio r and the credentials
\* net: while a join is tried the radio is still where it was and wants nothing
\* else, or it is after those credentials, and once it was seen to be nowhere it can be
\* up only with them.  A join that has succeeded stays the last one asked for.
Joins(i, r, net) ==
    /\ i = [f \in ImpFields |-> i[f]] /\ r = [f \in RadioFields |-> r[f]]
    /\ ~(i.attempt /\ i.closing)
    /\ i.attempt \/ i.closing => i.req = "none"
    /\ i.attempt => \/ r.want = net /\ (i.left => r.on \in {"none", net})
                    \/ ~i.left /\ r.on # "none" /\ r.on = r.want
    /\ i.closing => r.want = net /\ r.on \in {"none", net}

SetupInv == Joins(imp, radio, creds)

LEMMA JoinsKept ==
    ASSUME NEW i, NEW r, NEW net, Joins(i, r, net), NEW j, j = [f \in ImpFields |-> j[f]],
           j.attempt = i.attempt, j.left = i.left, j.req = i.req,
           j.closing = i.closing \/ j.closing = FALSE
    PROVE  Joins(j, r, net)
  BY DEF Joins

\* The parts of improv_poll().
LEMMA WindowsJoin == ASSUME SetupInv, NEW i \in Windows PROVE Joins(i, radio, creds)
  <1>1. /\ imp = [f \in ImpFields |-> imp[f]]
        /\ \/ i = imp \/ i = close_locked(imp)
           \/ \E reason : i = open_locked(imp, reason)
    BY DEF Windows, SetupInv, Joins
  <1>2. CASE i = imp
    BY <1>2 DEF SetupInv
  <1>3. CASE i = close_locked(imp)
    <2>1. /\ i = [f \in ImpFields |-> i[f]] /\ i.attempt = imp.attempt /\ i.left = imp.left
          /\ i.req = imp.req /\ i.closing = FALSE
      BY <1>1, <1>3 DEF close_locked, ImpFields
    <2> QED
      BY <2>1, JoinsKept DEF SetupInv
  <1>4. ASSUME NEW reason, i = open_locked(imp, reason) PROVE Joins(i, radio, creds)
    <2>1. /\ i = [f \in ImpFields |-> i[f]] /\ i.attempt = imp.attempt /\ i.left = imp.left
          /\ i.req = imp.req /\ i.closing = FALSE
      BY <1>1, <1>4 DEF open_locked, ImpFields
    <2> QED
      BY <2>1, JoinsKept DEF SetupInv
  <1> QED
    BY <1>1, <1>2, <1>3, <1>4

\* The radio after net_reconnect(): it is after the network, or where it was.
LEMMA ReconnectIs ==
    ASSUME NEW r, r = [f \in RadioFields |-> r[f]], NEW net, NEW x \in net_reconnect(r, net)
    PROVE  /\ x = [f \in RadioFields |-> x[f]]
           /\ net # "none" => x.want = net \/ (x.on # "none" /\ x.on = x.want)
  BY DEF net_reconnect, start_connect, RadioFields

OutcomeFields == {"i", "b", "r", "net", "opens"}
Outcome(s) == s = [f \in OutcomeFields |-> s[f]] /\ Joins(s.i, s.r, s.net)

LEMMA BegunJoins ==
    ASSUME NEW i, NEW b, Joins(i, radio, creds), NEW s \in Begun(i, b)
    PROVE  Outcome(s)
  <1>1. CASE i.req = "none"
    <2>1. s = [i |-> i, b |-> b, r |-> radio, net |-> creds, opens |-> FALSE]
      BY <1>1 DEF Begun
    <2> QED
      BY <2>1 DEF Outcome, OutcomeFields
  <1>2. CASE i.req # "none"
    <2> DEFINE j == [i EXCEPT !.req = "none", !.prev = creds, !.attempt = TRUE, !.left = FALSE,
                              !.state = "provisioning"]
    <2>1. PICK r \in net_reconnect(radio, i.req) :
             s = [i |-> j, b |-> queue_notify(b, StateBits(i, "provisioning")), r |-> r,
                  net |-> i.req, opens |-> FALSE]
      BY <1>2 DEF Begun
    <2>2. /\ j = [f \in ImpFields |-> j[f]] /\ j.attempt = TRUE /\ j.left = FALSE
          /\ j.req = "none" /\ j.closing = i.closing
      BY DEF Joins, ImpFields
    <2>3. ~i.closing
      BY <1>2 DEF Joins
    <2>4. /\ r = [f \in RadioFields |-> r[f]]
          /\ r.want = i.req \/ (r.on # "none" /\ r.on = r.want)
      BY <1>2, <2>1, ReconnectIs DEF Joins
    <2> HIDE DEF j
    <2>5. Joins(j, r, i.req)
      BY <2>2, <2>3, <2>4 DEF Joins
    <2> QED
      BY <2>1, <2>5 DEF Outcome, OutcomeFields
  <1> QED
    BY <1>1, <1>2

LEMMA TriedJoins == ASSUME NEW s, Outcome(s), NEW t \in Tried(s) PROVE Outcome(t)
  <1> DEFINE on == s.r.on # "none"
             left == s.i.left \/ ~on
  <1>1. s = [f \in OutcomeFields |-> s[f]] /\ s.i = [f \in ImpFields |-> s.i[f]] /\ Joins(s.i, s.r, s.net)
    BY DEF Outcome, Joins
  <1>2. CASE ~s.i.attempt
    BY <1>2 DEF Tried
  <1>3. CASE s.i.attempt /\ on /\ left
    <2> DEFINE j == [Over(s.i) EXCEPT !.state = "provisioned", !.error = FALSE,
                                      !.closing = TRUE, !.owe = TRUE]
    <2>1. t = Joined(s)
      BY <1>3 DEF Tried
    <2>2. /\ j = [f \in ImpFields |-> j[f]] /\ j.attempt = FALSE /\ j.req = s.i.req
          /\ j.closing = TRUE
      BY <1>1 DEF Over, ImpFields
    <2>3. t.i = j /\ t.r = s.r /\ t.net = s.net /\ t = [f \in OutcomeFields |-> t[f]]
      BY <1>1, <2>1 DEF Joined, OutcomeFields
    <2>4. s.i.req = "none" /\ s.r.want = s.net /\ s.r.on \in {"none", s.net}
          /\ s.r = [f \in RadioFields |-> s.r[f]]
      BY <1>1, <1>3 DEF Joins
    <2> HIDE DEF j
    <2> QED
      BY <2>2, <2>3, <2>4 DEF Outcome, Joins
  <1>4. CASE t \in Failed(s) /\ s.i.attempt
    <2> DEFINE j == [Over(s.i) EXCEPT !.state = "authorized", !.error = TRUE]
    <2>1. PICK r \in net_reconnect(s.r, s.i.prev) :
             /\ t.i = j /\ t.r = r /\ t.net = s.i.prev /\ t = [f \in OutcomeFields |-> t[f]]
      BY <1>1, <1>4 DEF Failed, OutcomeFields
    <2>2. /\ j = [f \in ImpFields |-> j[f]] /\ j.attempt = FALSE /\ j.closing = s.i.closing
      BY <1>1 DEF Over, ImpFields
    <2>3. r = [f \in RadioFields |-> r[f]]
      BY <1>1, <2>1, ReconnectIs DEF Joins
    <2>4. ~s.i.closing
      BY <1>1, <1>4 DEF Joins
    <2> HIDE DEF j
    <2> QED
      BY <2>1, <2>2, <2>3, <2>4 DEF Outcome, Joins
  <1>5. CASE s.i.attempt /\ ~(on /\ left) /\ t \notin Failed(s)
    <2>1. t = [s EXCEPT !.i.left = left]
      BY <1>5 DEF Tried
    <2> DEFINE j == [s.i EXCEPT !.left = left]
    <2>2. t.i = j /\ t.r = s.r /\ t.net = s.net /\ t = [f \in OutcomeFields |-> t[f]]
      BY <1>1, <2>1 DEF OutcomeFields
    <2>3. /\ j = [f \in ImpFields |-> j[f]] /\ j.attempt = s.i.attempt /\ j.req = s.i.req
          /\ j.left = left /\ j.closing = s.i.closing
      BY <1>1 DEF ImpFields
    <2> HIDE DEF j
    <2> QED
      BY <1>1, <1>5, <2>2, <2>3 DEF Outcome, Joins
  <1> QED
    BY <1>2, <1>3, <1>4, <1>5 DEF Tried

LEMMA ClosesJoin == ASSUME NEW s, Outcome(s), NEW t \in Closes(s) PROVE Joins(t.i, t.r, t.net)
  <1>1. CASE t = s
    BY <1>1 DEF Outcome
  <1>2. CASE t # s
    <2>1. t = [s EXCEPT !.i = close_locked(@), !.b = NoClient]
      BY <1>2 DEF Closes
    <2>2. t.i = close_locked(s.i) /\ t.r = s.r /\ t.net = s.net
      BY <2>1 DEF Outcome, OutcomeFields
    <2>3. LET j == close_locked(s.i)
          IN  /\ j = [f \in ImpFields |-> j[f]] /\ j.attempt = s.i.attempt /\ j.left = s.i.left
              /\ j.req = s.i.req /\ j.closing = FALSE
      BY DEF close_locked, Outcome, Joins, ImpFields
    <2> QED
      BY <2>2, <2>3, JoinsKept DEF Outcome
  <1> QED
    BY <1>1, <1>2

LEMMA PollJoins == ASSUME SetupInv, improv_poll PROVE SetupInv'
  <1>1. PICK i \in Windows :
          \E b : \E s0 \in Begun(i, b) : \E s1 \in Tried(s0) : \E s2 \in Closes(s1) :
             imp' = s2.i /\ radio' = s2.r /\ creds' = s2.net
    BY DEF improv_poll
  <1>2. PICK b : \E s0 \in Begun(i, b) : \E s1 \in Tried(s0) : \E s2 \in Closes(s1) :
             imp' = s2.i /\ radio' = s2.r /\ creds' = s2.net
    BY <1>1
  <1>3. PICK s0 \in Begun(i, b) : \E s1 \in Tried(s0) : \E s2 \in Closes(s1) :
             imp' = s2.i /\ radio' = s2.r /\ creds' = s2.net
    BY <1>2
  <1>4. PICK s1 \in Tried(s0) : \E s2 \in Closes(s1) :
             imp' = s2.i /\ radio' = s2.r /\ creds' = s2.net
    BY <1>3
  <1>5. PICK s2 \in Closes(s1) : imp' = s2.i /\ radio' = s2.r /\ creds' = s2.net
    BY <1>4
  <1>6. Outcome(s1)
    BY WindowsJoin, BegunJoins, TriedJoins
  <1> QED
    BY <1>5, <1>6, ClosesJoin DEF SetupInv

LEMMA RadioJoins == ASSUME SetupInv, Driver \/ net_poll PROVE SetupInv'
  <1>1. UNCHANGED <<imp, creds>> /\ radio = [f \in RadioFields |-> radio[f]]
    BY DEF Driver, net_poll, SetupInv, Joins
  <1>2. CASE net_poll
    <2>1. /\ radio' = [radio EXCEPT !.want = creds, !.refused = FALSE] /\ radio.on = "none"
      BY <1>2 DEF net_poll, start_connect
    <2>2. radio' = [f \in RadioFields |-> radio'[f]] /\ radio'.on = "none" /\ radio'.want = creds
      BY <1>1, <2>1 DEF RadioFields
    <2> QED
      BY <1>1, <2>2 DEF SetupInv, Joins
  <1>3. CASE Driver
    <2>1. /\ radio' = [f \in RadioFields |-> radio'[f]] /\ radio'.want = radio.want
          /\ \/ radio.on = "none" /\ radio'.on \in {"none", radio.want}
             \/ (radio.on # radio.want \/ ~imp.attempt) /\ radio'.on = "none"
      BY <1>1, <1>3 DEF Driver, RadioFields
    <2> QED
      BY <1>1, <2>1 DEF SetupInv, Joins
  <1> QED
    BY <1>2, <1>3

LEMMA ImprovJoins ==
    ASSUME SetupInv, process_rpc \/ improv_open \/ improv_close \/ Save PROVE SetupInv'
  <1>1. UNCHANGED <<radio, creds>> /\ imp = [f \in ImpFields |-> imp[f]]
    BY DEF process_rpc, improv_open, improv_close, Save, SetupInv, Joins
  <1>2. ASSUME imp' = [f \in ImpFields |-> imp'[f]], imp'.attempt = imp.attempt, imp'.left = imp.left,
               imp'.req = imp.req, imp'.closing = imp.closing \/ imp'.closing = FALSE
        PROVE  SetupInv'
    BY <1>1, <1>2 DEF SetupInv, Joins
  <1>3. CASE process_rpc
    <2>1. ASSUME NEW error, imp' = [imp EXCEPT !.error = error] PROVE SetupInv'
      BY <1>1, <1>2, <2>1 DEF ImpFields
    <2>2. ASSUME NEW net, ~(imp.attempt \/ imp.closing), imp' = [imp EXCEPT !.req = net, !.error = FALSE]
          PROVE  SetupInv'
      <3>1. imp' = [f \in ImpFields |-> imp'[f]] /\ imp'.attempt = imp.attempt /\ imp'.closing = imp.closing
        BY <1>1, <2>2 DEF ImpFields
      <3> QED
        BY <1>1, <2>2, <3>1 DEF SetupInv, Joins
    <2>3. CASE UNCHANGED imp
      BY <1>1, <1>2, <2>3
    <2> QED
      BY <1>3, <2>1, <2>2, <2>3 DEF process_rpc
  <1>4. CASE improv_open \/ improv_close
    BY <1>1, <1>2, <1>4 DEF improv_open, improv_close, open_locked, close_locked, ImpFields
  <1>5. CASE Save
    BY <1>1, <1>2, <1>5 DEF Save, ImpFields
  <1> QED
    BY <1>3, <1>4, <1>5

LEMMA FreshJoins ==
    ASSUME NEW net
    PROVE  Joins(FreshStart, RadioOff(net), net)
  BY DEF Joins, FreshStart, RadioOff, ImpFields, RadioFields

LEMMA PostJoins == ASSUME ~Meddles, SetupInv, settings_post PROVE SetupInv'
  <1>1. PICK wired \in BOOLEAN, body \in Bodies :
          /\ body.net = "absent" \/ ~(imp.attempt \/ imp.closing)
          /\ \E t \in settings_json_apply(body, [net |-> creds, token |-> door.token], ViaSetup(wired)) :
                creds' = t.net
    BY DEF settings_post
  <1>2. UNCHANGED <<imp, radio>>
    BY DEF settings_post
  <1>3. body.net = "absent" => creds' = creds
    BY <1>1 DEF settings_json_apply
  <1> QED
    BY <1>1, <1>2, <1>3 DEF SetupInv, Joins

LEMMA SetupHolds == ~Meddles /\ SetupInv /\ [SetupNext]_setup_vars => SetupInv'
  <1> SUFFICES ASSUME ~Meddles, SetupInv, [SetupNext]_setup_vars PROVE SetupInv'
    OBVIOUS
  <1>1. CASE UNCHANGED <<imp, radio, creds>>
    BY <1>1 DEF SetupInv
  <1>2. CASE SetupRestart
    <2>1. imp' = FreshStart /\ creds' = saved /\ radio' = RadioOff(saved)
      BY <1>2 DEF SetupRestart
    <2> QED
      BY <2>1, FreshJoins DEF SetupInv
  <1> QED
    BY <1>1, <1>2, PollJoins, RadioJoins, ImprovJoins, PostJoins
       DEF SetupNext, setup_vars, Callbacks, MainPass, Surroundings, send_pending, Connected,
           Disconnected, Subscribe, Cable, Pressed, Token, Expires, SaveLater

\* If the web page sets no credentials while a join is tried or has just been
\* reported: what improv.c reports as provisioned is the network that was asked
\* for, for every set of networks.
THEOREM ReportedIsJoined == ASSUME ~Meddles PROVE SetupSpec => []ProvisionedIsJoined
  <1>1. SetupInit => SetupInv
    <2> SUFFICES ASSUME SetupInit PROVE SetupInv
      OBVIOUS
    <2>1. imp = FreshStart /\ radio = RadioOff(creds)
      BY DEF SetupInit
    <2> QED
      BY <2>1, FreshJoins DEF SetupInv
  <1>2. SetupInv => ProvisionedIsJoined
    BY DEF SetupInv, Joins, ProvisionedIsJoined
  <1> QED
    BY <1>1, <1>2, SetupHolds, PTL DEF SetupSpec

================================================================================
