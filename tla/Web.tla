------------------------------------ MODULE Web ------------------------------------
(***************************************************************************)
(* The web server (http.c) with the certificates it serves (https.c) and   *)
(* the command lines it hands to the console (cli.c).  lwIP's callbacks    *)
(* interrupt the main loop and run one at a time, so each is one action;   *)
(* what the main loop does in several flash writes takes several steps.    *)
(* The configurations of a certificate (gens) live as long as a connection *)
(* uses them, the bodies too large for a connection are built in buffers   *)
(* that all share, and a certificate is kept in two copies in flash.       *)
(*                                                                         *)
(* The update's upload is in Update, the setup doors are in Setup and what *)
(* a request tells the engine is in MainLoop: here those are answered.     *)
(***************************************************************************)
EXTENDS FiniteSets, Integers, Sequences

CONSTANTS
    Conns,            \* the slots for connections
    GENS,             \* configurations that exist at once
    IDLE_POLLS, PRECONNECT_POLLS,
    Uploads,          \* what is uploaded as a certificate: sequences of PEM blocks
    Current,          \* certificates that name a host and are in date
    TLS_CERTS_MAX, RECORD_CERTS, \* certificates of a bundle, and those 8 KB hold
    Requests,         \* the heads of requests
    Streams,          \* shared buffers that are asked for, of {"metrics", "log", "settings"}
    MaxSeq            \* bound on the certificates stored

ASSUME WebAssumption ==
    /\ Conns # {} /\ IsFiniteSet(Conns) /\ GENS \in Nat \ {0} /\ MaxSeq \in Nat
    /\ PRECONNECT_POLLS \in Nat /\ IDLE_POLLS \in Nat /\ PRECONNECT_POLLS < IDLE_POLLS
    /\ Streams \subseteq {"metrics", "log", "settings"}
    /\ "none" \notin Current

VARIABLES
    web,      \* conns; gens and live; uploader: tls_upload_conn; listener: tls_listener
    web_state,\* of the console's batch
    https,    \* the setting
    store,    \* copy: the two copies, each a record; slot, seq
    remove,   \* how far the console's https_remove() is: 0 is not begun
    kept      \* the certificate installed and not removed since

web_vars == <<web, web_state, https, store, remove, kept>>

Generations == 1..GENS
NoConn == "nobody"

------------------------------------------------------------------------------
(* Certificates: a block is a kind and the certificate it is or has the key of. *)

\* tls_bundle_parse(): the bundle, or none.  Blocks of other kinds are left out.
tls_bundle_parse(pem) ==
    LET keys == SelectSeq(pem, LAMBDA x : x.kind = "key")
        certs == SelectSeq(pem, LAMBDA x : x.kind = "cert")
        good == /\ Len(keys) = 1 /\ Len(certs) \in 1..TLS_CERTS_MAX
                /\ \A i \in DOMAIN pem : pem[i].kind \notin {"encrypted", "rsa", "open", "not DER"}
    IN  IF good THEN {[key |-> keys[1].of, certs |-> [i \in DOMAIN certs |-> certs[i].of]]} ELSE {}

\* gen_build(): the key is of the first certificate.
gen_build(b) == b.key = b.certs[1]

\* A record in flash.  The CRC stands for what it was computed over.
Blank == [seq |-> 0, cert |-> "none", crc |-> <<>>]
tls_record_encode(b, seq) ==
    IF Len(b.certs) > RECORD_CERTS THEN {}
    ELSE {[seq |-> seq, cert |-> b.certs[1], crc |-> <<seq, b.certs[1]>>]}
tls_record_decode(rec) == rec.seq > 0 /\ rec.crc = <<rec.seq, rec.cert>>

\* The power goes in a write: the header is there and some of the rest.
Torn(seq) == [seq |-> seq, cert |-> "torn", crc |-> <<seq, "whole">>]

\* gen_free()
gen_free(w, g) == [w EXCEPT !.gens[g] = [cert |-> "none", refs |-> 0]]

\* gen_spare(): the first
Spares(w) ==
    LET free == {g \in Generations : w.gens[g].cert = "none"}
    IN  {g \in free : \A h \in free : g <= h}

make_live(w, g, cert) ==
    LET built == [w EXCEPT !.gens[g].cert = cert, !.live = g]
    IN  IF w.live # 0 /\ w.gens[w.live].refs = 0 THEN gen_free(built, w.live) ELSE built

https_conn_opened(w, g) == IF g = 0 THEN w ELSE [w EXCEPT !.gens[g].refs = @ + 1]

https_conn_closed(w, g) ==
    IF g = 0 THEN w
    ELSE LET less == [w EXCEPT !.gens[g].refs = @ - 1]
         IN  IF less.gens[g].refs = 0 /\ g # w.live THEN gen_free(less, g) ELSE less

\* https_remove(), once the copies are erased.
Unloaded(w) ==
    IF w.live = 0 THEN w
    ELSE LET off == [w EXCEPT !.live = 0]
         IN  IF w.gens[w.live].refs = 0 THEN gen_free(off, w.live) ELSE off

https_enforced(w, on) == on /\ w.live # 0

\* http_tls_sync(): a port that cannot be opened is not modelled.
http_tls_sync(w, on) == [w EXCEPT !.listener = on /\ w.live # 0]

------------------------------------------------------------------------------
(* Connections *)

Closed ==
    [pcb |-> FALSE, conf |-> 0, req |-> FALSE, resp |-> FALSE, body |-> "none", keep |-> FALSE,
     discard |-> FALSE, upload |-> FALSE, served |-> FALSE, idle |-> 0, whole |-> TRUE]

\* conn_free(): the slot is free, and with it what the connection held.
conn_free_leaks(w, c) ==
    [w EXCEPT !.conns[c] = Closed, !.uploader = IF @ = c THEN NoConn ELSE @]
conn_free(w, c) ==
    https_conn_closed([w EXCEPT !.conns[c] = Closed, !.uploader = IF @ = c THEN NoConn ELSE @],
                      w.conns[c].conf)

conn_reset_request(w, c) ==
    [w EXCEPT !.conns[c] = [@ EXCEPT !.served = TRUE, !.req = FALSE, !.resp = FALSE,
                                     !.body = "none", !.upload = FALSE, !.discard = FALSE,
                                     !.idle = 0]]

\* send_more(): the send buffer takes some of the response or all of it.  A TLS
\* connection may have to wait for its last record.
send_more(w, c) ==
    LET k == w.conns[c]
    IN  {w} \cup IF k.keep THEN {conn_reset_request(w, c)}
                 ELSE IF k.discard THEN {[w EXCEPT !.conns[c].resp = FALSE]}
                 ELSE {conn_free(w, c)}

respond(w, c) == send_more([w EXCEPT !.conns[c].resp = TRUE], c)

respond_static(w, c, body) ==
    send_more([w EXCEPT !.conns[c].resp = TRUE, !.conns[c].body = body, !.conns[c].whole = TRUE], c)

\* A buffer is built again under whoever is still sending it.
Rebuilt(w, body) ==
    [w EXCEPT !.conns = [c \in Conns |-> IF @[c].body = body THEN [@[c] EXCEPT !.whole = FALSE]
                                         ELSE @[c]]]

\* metrics_busy(), log_busy(), settings_busy(), console_busy()
busy(w, body) == \E c \in Conns : w.conns[c].pcb /\ w.conns[c].body = body

\* idle_slot(): the quietest of those that wait for a request.
Idle(w) == {c \in Conns : LET k == w.conns[c]
                          IN  /\ ~k.req /\ ~k.resp /\ ~k.upload
                              /\ k.served \/ k.idle >= PRECONNECT_POLLS}
idle_slot(w) == {c \in Idle(w) : \A d \in Idle(w) : w.conns[d].idle <= w.conns[c].idle}

\* accept_cb()
accept_cb(tls) ==
    LET free == {c \in Conns : ~web.conns[c].pcb}
    IN  \E c \in IF free # {} THEN free ELSE idle_slot(web) :
            LET w == conn_free(web, c)
            IN  web' = IF tls /\ w.live = 0 THEN w
                       ELSE LET g == IF tls THEN w.live ELSE 0
                                k == [Closed EXCEPT !.pcb = TRUE, !.conf = g]
                            IN  https_conn_opened([w EXCEPT !.conns[c] = k], g)

Accept ==
    /\ accept_cb(FALSE) \/ (web.listener /\ accept_cb(TRUE))
    /\ UNCHANGED <<web_state, https, store, remove, kept>>

\* sent_cb(), and poll_cb() with a response to send.
Sent(c) ==
    /\ web.conns[c].resp /\ web' \in send_more(web, c)
    /\ UNCHANGED <<web_state, https, store, remove, kept>>

\* poll_cb() without one
poll_cb(c) ==
    /\ web.conns[c].pcb /\ ~web.conns[c].resp
    /\ web' = IF web.conns[c].idle + 1 >= IDLE_POLLS THEN conn_free(web, c)
              ELSE [web EXCEPT !.conns[c].idle = @ + 1]
    /\ UNCHANGED <<web_state, https, store, remove, kept>>

\* The client closes or resets: recv_cb() with nothing, err_cb().
Hangup(c) ==
    /\ web.conns[c].pcb /\ web' = conn_free(web, c)
    /\ UNCHANGED <<web_state, https, store, remove, kept>>

\* recv_cb() with bytes that are no request of their own: of a body nobody
\* wants, early or too few.
RecvRest(c) ==
    /\ web.conns[c].pcb
    /\ LET w == [web EXCEPT !.conns[c].idle = 0]
           k == web.conns[c]
       IN  web' \in IF k.discard
                    THEN {w, LET done == [w EXCEPT !.conns[c].discard = FALSE]
                             IN  IF k.resp THEN done ELSE conn_free(done, c)}
                    ELSE IF k.resp THEN {[w EXCEPT !.conns[c].keep = FALSE]}
                    ELSE IF k.upload THEN {}
                    ELSE {[w EXCEPT !.conns[c].req = TRUE]}
    /\ UNCHANGED <<web_state, https, store, remove, kept>>

\* http_req_keep_alive()
http_req_keep_alive(r) ==
    IF r.version = "1.1" THEN "close" \notin r.connection
    ELSE r.version = "1.0" /\ "keep-alive" \in r.connection

\* host_allowed(): the address, the device's name, a name the owner listed, or
\* one of the certificate's.
host_allowed(r) ==
    /\ r.port \in {"none", "right"}
    /\ r.host \in {"address", "device", "listed"}
                 \cup IF web.live # 0 THEN {"certificate"} ELSE {}

\* recv_cb() with the end of a request
Asks(c) == LET k == web.conns[c] IN k.pcb /\ ~k.resp /\ ~k.discard /\ ~k.upload
Heard(c, r) ==
    [web EXCEPT !.conns[c] = [@ EXCEPT !.req = TRUE, !.idle = 0, !.keep = http_req_keep_alive(r)]]
Final(c) == [web EXCEPT !.conns[c] = [@ EXCEPT !.req = TRUE, !.idle = 0, !.keep = FALSE]]

\* A request under a name of somebody else, or for plain HTTP once HTTPS is on,
\* is the last of its connection; others are handled.
Redirected(c) == https_enforced(web, https) /\ web.conns[c].conf = 0
Turned(c, r) ==
    /\ Asks(c) /\ (~host_allowed(r) \/ Redirected(c)) /\ web' \in respond(Final(c), c)
    /\ UNCHANGED <<web_state, https, store, remove, kept>>

Handled(c, r) == Asks(c) /\ host_allowed(r) /\ ~Redirected(c)

\* handle_request(): a short answer, or the page, which stays as it is in flash
GetShort(c, r) ==
    /\ Handled(c, r)
    /\ web' \in respond(Heard(c, r), c)
    /\ UNCHANGED <<web_state, https, store, remove, kept>>

\* handle_request(): the metrics, the log, the settings or their export
GetStream(c, r, body) ==
    /\ Handled(c, r)
    /\ web' \in LET w == Heard(c, r)
                IN  IF busy(w, body) THEN respond(w, c)
                    ELSE respond_static(Rebuilt(w, body), c, body)
    /\ UNCHANGED <<web_state, https, store, remove, kept>>

------------------------------------------------------------------------------
(* The console *)

GetConsole(c, r) ==
    /\ Handled(c, r)
    /\ web' \in IF web_state = "done" THEN respond_static(Heard(c, r), c, "console")
                ELSE respond(Heard(c, r), c)
    /\ UNCHANGED <<web_state, https, store, remove, kept>>

cli_web_submit(st) == st \notin {"queued", "running"}

PostConsole_always(c, r) ==
    /\ Handled(c, r) /\ web' \in respond(Heard(c, r), c)
    /\ web_state' = IF cli_web_submit(web_state) THEN "queued" ELSE web_state
    /\ UNCHANGED <<https, store, remove, kept>>
PostConsole(c, r) ==
    /\ Handled(c, r) /\ web' \in respond(Heard(c, r), c)
    /\ web_state' = IF ~busy(web, "console") /\ cli_web_submit(web_state) THEN "queued"
                    ELSE web_state
    /\ UNCHANGED <<https, store, remove, kept>>

\* run_web_batch(): its lines are printed into the transcript.
RunBatch ==
    /\ \/ web_state = "queued" /\ web_state' = "running"
       \/ web_state = "running" /\ web_state' \in {"running", "done"}
    /\ web' = Rebuilt(web, "console")
    /\ UNCHANGED <<https, store, remove, kept>>

------------------------------------------------------------------------------
(* Installing and removing a certificate *)

\* The copy a save goes to: not the one with the newest record.
OtherCopy_first(st) == 0
OtherCopy(st) == IF st.slot = 1 THEN 0 ELSE IF st.slot = 0 THEN 1 ELSE 0

Stored(st, rec) ==
    [copy |-> [st.copy EXCEPT ![OtherCopy(st)] = rec], slot |-> OtherCopy(st), seq |-> rec.seq]

\* What would be installed of an upload.
Records(pem) ==
    UNION {tls_record_encode(b, store.seq + 1) :
              b \in {b \in tls_bundle_parse(pem) : gen_build(b) /\ b.certs[1] \in Current}}

\* https_install() and its answer: the upload is no good, no configuration is
\* spare, memory or the flash fails; or the certificate serves from here on.
Installed(c, w) ==
    \/ web' \in respond(w, c) /\ UNCHANGED <<store, kept>>
    \/ \E g \in Spares(w), pem \in Uploads : \E rec \in Records(pem) :
          /\ store.seq < MaxSeq /\ store' = Stored(store, rec) /\ kept' = rec.cert
          /\ web' \in respond(http_tls_sync(make_live(w, g, rec.cert), https), c)

\* tls_upload_bytes(): some of the upload is left, or none.
Uploaded(c, w) ==
    \/ web' = [w EXCEPT !.conns[c].upload = TRUE] /\ UNCHANGED <<store, kept>>
    \/ Installed(c, [w EXCEPT !.conns[c].upload = FALSE, !.uploader = NoConn])

\* tls_post_start(): refused, for what it asks or for another upload, or begun
\* with what came with the headers.
PostTls(c, r) ==
    /\ Handled(c, r)
    /\ LET w == Final(c)
       IN  \/ /\ \E rest \in BOOLEAN : web' \in respond([w EXCEPT !.conns[c].discard = rest], c)
              /\ UNCHANGED <<store, kept>>
           \/ w.uploader \in {NoConn, c} /\ Uploaded(c, [w EXCEPT !.uploader = c])
    /\ UNCHANGED <<web_state, https, remove>>

TlsUploadFeed(c) ==
    /\ web.conns[c].upload /\ Uploaded(c, [web EXCEPT !.conns[c].idle = 0])
    /\ UNCHANGED <<web_state, https, remove>>

\* One of the copies is erased, or the flash fails.
Erased(st, i) == {st, [st EXCEPT !.copy[i] = Blank]}

\* POST /api/v1/tls/remove: https_remove() in a callback
PostRemove(c, r) ==
    /\ Handled(c, r)
    /\ IF https \/ store.slot = -1
       THEN web' \in respond(Heard(c, r), c) /\ UNCHANGED <<store, kept>>
       ELSE /\ \E one \in Erased(store, 0) : \E both \in Erased(one, 1) :
                  store' = [both EXCEPT !.slot = -1]
            /\ kept' = "none" /\ web' \in respond(Unloaded(Heard(c, r)), c)
    /\ UNCHANGED <<web_state, https, remove>>

\* 'https remove' at the console: https_remove() in the main loop.
Remove ==
    /\ \/ /\ remove = 0 /\ ~https /\ store.slot # -1
          /\ remove' = 1 /\ kept' = "none" /\ UNCHANGED <<web, store>>
       \/ /\ remove \in 1..2 /\ store' \in Erased(store, remove - 1)
          /\ remove' = remove + 1 /\ kept' = "none" /\ UNCHANGED web
       \/ /\ remove = 3 /\ store' = [store EXCEPT !.slot = -1] /\ web' = Unloaded(web)
          /\ remove' = 0 /\ kept' = "none"
    /\ UNCHANGED <<web_state, https>>

\* 'https on' and 'https off' at the console, with no callback between the
\* setting and the port.
Console(on) ==
    /\ remove = 0 /\ on => web.live # 0
    /\ https' = on /\ web' = http_tls_sync(web, on)
    /\ UNCHANGED <<web_state, store, remove, kept>>

\* settings_post(), as far as it changes the setting
PostHttps(c, r, on) ==
    /\ Handled(c, r)
    /\ IF on /\ web.live = 0 THEN web' \in respond(Heard(c, r), c) /\ UNCHANGED https
       ELSE https' = on /\ web' \in respond(http_tls_sync(Heard(c, r), on), c)
    /\ UNCHANGED <<web_state, store, remove, kept>>

------------------------------------------------------------------------------
(* Restarts *)

Newest(st) ==
    LET valid == {i \in 0..1 : tls_record_decode(st.copy[i])}
    IN  {i \in valid : \A j \in valid : st.copy[j].seq <= st.copy[i].seq}

\* https_init() and http_init(), with the memory that one certificate takes
Booted(st, on) ==
    LET w == [conns |-> [c \in Conns |-> Closed],
              gens |-> [g \in Generations |-> [cert |-> "none", refs |-> 0]],
              live |-> 0, uploader |-> NoConn, listener |-> FALSE]
    IN  IF Newest(st) = {}
        THEN web' = w /\ store' = [st EXCEPT !.slot = -1, !.seq = 0]
        ELSE \E i \in Newest(st) :
                /\ web' = http_tls_sync(make_live(w, 1, st.copy[i].cert), on)
                /\ store' = [st EXCEPT !.slot = i, !.seq = st.copy[i].seq]

\* Power is lost, perhaps in the flash write of an upload or of a removal.  The
\* setting may have been saved or not.
Restart ==
    /\ \E on \in BOOLEAN :
          /\ https' = on
          /\ \/ Booted(store, on)
             \/ /\ \E c \in Conns : web.conns[c].upload
                /\ store.seq < MaxSeq
                /\ Booted([store EXCEPT !.copy[OtherCopy(store)] = Torn(store.seq + 1)], on)
    /\ web_state' = "idle" /\ remove' = 0 /\ UNCHANGED kept

WebInit ==
    /\ \E on \in BOOLEAN :
          /\ https = on
          /\ web = [conns |-> [c \in Conns |-> Closed],
                    gens |-> [g \in Generations |-> [cert |-> "none", refs |-> 0]],
                    live |-> 0, uploader |-> NoConn, listener |-> FALSE]
    /\ store = [copy |-> [i \in 0..1 |-> Blank], slot |-> -1, seq |-> 0]
    /\ web_state = "idle" /\ remove = 0 /\ kept = "none"

\* What any client does, what it asks of the console and the shared buffers, and
\* what it does to the certificates
Lwip ==
    \/ Accept \/ Restart
    \/ \E c \in Conns : Sent(c) \/ poll_cb(c) \/ Hangup(c) \/ RecvRest(c)
    \/ \E c \in Conns, r \in Requests : Turned(c, r) \/ GetShort(c, r)
Pages ==
    \/ RunBatch
    \/ \E c \in Conns, r \in Requests :
          \/ \E body \in Streams : GetStream(c, r, body)
          \/ GetConsole(c, r) \/ PostConsole(c, r)
Certificates ==
    \/ Remove \/ \E on \in BOOLEAN : Console(on)
    \/ \E c \in Conns : TlsUploadFeed(c)
    \/ \E c \in Conns, r \in Requests :
          PostTls(c, r) \/ PostRemove(c, r) \/ \E on \in BOOLEAN : PostHttps(c, r, on)

WebNext == Lwip \/ Pages \/ Certificates

WebSpec == WebInit /\ [][WebNext]_web_vars

------------------------------------------------------------------------------
(* Properties *)

\* No buffer is built again while a connection still sends what it was built
\* for: the answers are never a mixture (http.c's *_busy(), cli_web_submit()).
StreamsAreWhole == \A c \in Conns : web.conns[c].whole

\* A configuration has as many references as connections that use it and is
\* there for each; it goes when the last closes, unless it is the live one, so
\* that a renewal always finds a spare (gens[] in https.c).
CertificatesInUse ==
    \A g \in Generations :
        /\ web.gens[g].refs = Cardinality({c \in Conns : web.conns[c].conf = g})
        /\ web.gens[g].refs > 0 \/ web.live = g <=> web.gens[g].cert # "none"

\* A certificate that was installed serves, where port 80 redirects to, and is
\* the one a start finds, until it is removed or another takes its place: also
\* when the power goes in the write of that other one (the two copies in flash).
InstalledIsFound ==
    kept # "none" => /\ \A i \in Newest(store) : store.copy[i].cert = kept
                     /\ Newest(store) # {}
                     /\ web.live # 0 /\ web.gens[web.live].cert = kept
                     /\ https_enforced(web, https) => web.listener

================================================================================
