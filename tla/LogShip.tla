------------------------------- MODULE LogShip --------------------------------
(***************************************************************************)
(* What is printed goes into a ring (log_ring.c), which the log sink       *)
(* (log_sink.c) empties line by line to a syslog host it looks up by name. *)
(* Printing is faster than the network: the ring drops its oldest bytes.   *)
(***************************************************************************)
EXTENDS Integers, Sequences, FiniteSets

CONSTANTS
    LOG_RING_SIZE, LOG_LINE_MAX, LINES_PER_POLL,
    Writes,       \* what is printed at once: sequences of "c" and "n", a newline
    Hosts,        \* the names the settings may hold
    LateAnswers,  \* a lookup's answer may come when the host has changed
    MaxWrites     \* bound: lines

ASSUME LogShipAssumption ==
    /\ LOG_RING_SIZE \in Nat \ {0} /\ LOG_LINE_MAX \in 1..LOG_RING_SIZE
    /\ LINES_PER_POLL \in 1..2 /\ LateAnswers \in BOOLEAN /\ MaxWrites \in Nat
    /\ \A w \in Writes : w \in Seq({"c", "n"}) /\ Len(w) \in 1..LOG_RING_SIZE

VARIABLES
    reader,    \* the bytes not yet taken, resync, dropped; history: whether the
               \* bytes start a line or go on with a split one, the lines taken
    host,      \* g_settings.syslog_host
    name,      \* resolved_name
    address,   \* host_ip: {} or {the host it is the address of}
    resolved, resolving,
    asked,     \* the lookups that have not been answered
    due,       \* next_resolve_ms has passed
    sent,      \* history: the last datagram, its host and whether it is a whole line
    ended, told \* history: the lines printed, the lost ones reported or written off

ship_vars == <<reader, host, name, address, resolved, resolving, asked, due, sent, ended, told>>

Newlines(s) == Cardinality({p \in DOMAIN s : s[p] = "n"})
First(s) == CHOOSE p \in 1..Len(s) : s[p] = "n" /\ \A q \in 1..(p - 1) : s[q] # "n"
From(s, p) == SubSeq(s, p, Len(s))

------------------------------------------------------------------------------
(* The ring *)

\* log_ring_write(): the reader is moved past what is overwritten, whose
\* lines it loses; in mid-line it has to skip the rest of that line.
Written(r, w) ==
    LET all == r.text \o w
        over == Len(all) - LOG_RING_SIZE
    IN  IF over <= 0 THEN [r EXCEPT !.text = all]
        ELSE [r EXCEPT !.text = From(all, over + 1), !.resync = all[over] # "n",
                       !.dropped = @ + Newlines(SubSeq(all, 1, over)), !.start = all[over] = "n"]

\* Mutant: it does not count.
Resynced_uncounted(r) ==
    IF ~r.resync THEN r
    ELSE IF Newlines(r.text) = 0 THEN [r EXCEPT !.text = <<>>]
    ELSE [r EXCEPT !.text = From(@, First(@) + 1), !.resync = FALSE, !.start = TRUE]

\* The rest of the line that was cut is thrown away, and counts as lost.
Resynced(r) ==
    IF ~r.resync THEN r
    ELSE IF Newlines(r.text) = 0 THEN [r EXCEPT !.text = <<>>]
    ELSE [r EXCEPT !.text = From(@, First(@) + 1), !.resync = FALSE, !.dropped = @ + 1,
                   !.start = TRUE]

\* Empty lines are passed over.
Unpadded(r) ==
    LET n == CHOOSE m \in 0..Len(r.text) :
               /\ \A p \in 1..m : r.text[p] = "n"
               /\ m = Len(r.text) \/ r.text[m + 1] # "n"
    IN  [r EXCEPT !.text = From(r.text, n + 1), !.start = @ \/ n > 0, !.taken = @ + n]

\* log_ring_next_line(): a line that has ended, or the first part of one too
\* long to wait for.
NextLine(r) ==
    LET s == Resynced(r)
        u == Unpadded(s)
        quiet == s.resync \/ u.text = <<>>
        done == Newlines(u.text) > 0
    IN  IF ~quiet /\ done
        THEN [to |-> [u EXCEPT !.text = From(@, First(@) + 1), !.start = TRUE, !.taken = @ + 1],
              line |-> {u.start}]
        ELSE IF ~quiet /\ Len(u.text) >= LOG_LINE_MAX
        THEN [to |-> [u EXCEPT !.text = From(@, LOG_LINE_MAX + 1)], line |-> {u.start}]
        ELSE [to |-> IF s.resync THEN s ELSE u, line |-> {}]

------------------------------------------------------------------------------
(* The sink *)

Printed(w) ==
    /\ ended < MaxWrites
    /\ reader' = Written(reader, w) /\ ended' = ended + Newlines(w)
    /\ UNCHANGED <<host, name, address, resolved, resolving, asked, due, sent, told>>

\* ensure_address(): a changed host starts over, the count of lost lines
\* with it.
NewHost == name # host
Looks == (NewHost \/ ~resolving) /\ (NewHost \/ due)

Answer(found) ==
    /\ address' = (IF found = "now" THEN {host} ELSE address)
    /\ resolved' = (IF found = "now" THEN TRUE
                    ELSE IF found = "later" THEN resolved /\ ~NewHost ELSE FALSE)
    /\ resolving' = (found = "later")
    /\ asked' = (IF found = "later" THEN asked \cup {host} ELSE asked)

ensure_address ==
    /\ name' = host
    /\ IF Looks
       THEN due' = FALSE /\ \E found \in {"now", "later", "never"} : Answer(found)
       ELSE UNCHANGED <<address, resolved, resolving, asked, due>>

\* log_sink_poll(): with an address and the next hop known a few lines go
\* out, after a word on those that were lost.
Drained(r, left) ==
    LET one == NextLine([r EXCEPT !.dropped = 0])
        two == NextLine([one.to EXCEPT !.dropped = 0])
    IN  IF one.line = {} \/ left = 1 THEN [to |-> one.to, line |-> one.line, lost |-> r.dropped]
        ELSE [to |-> two.to, line |-> one.line \cup two.line, lost |-> r.dropped + one.to.dropped]

log_sink_poll ==
    /\ ensure_address
    /\ LET fresh == IF NewHost THEN [reader EXCEPT !.dropped = 0] ELSE reader
       IN  \E hop \in BOOLEAN :
             IF resolved' /\ hop
             THEN LET d == Drained(fresh, LINES_PER_POLL)
                  IN  /\ reader' = d.to
                      /\ told' = told + d.lost + reader.dropped - fresh.dropped
                      /\ sent' = IF d.line = {} THEN sent
                                 ELSE [to |-> address', as |-> host, whole |-> d.line = {TRUE}]
             ELSE /\ reader' = fresh /\ told' = told + reader.dropped - fresh.dropped
                  /\ UNCHANGED sent
    /\ UNCHANGED <<host, ended>>

\* dns_cb(): the answer to a lookup, of whichever host.
sink_dns_cb(h) ==
    /\ h \in asked /\ asked' = asked \ {h} /\ (LateAnswers \/ h = host)
    /\ resolving' = FALSE
    /\ \/ address' = {h} /\ resolved' = TRUE /\ UNCHANGED due
       \/ UNCHANGED address /\ resolved' = FALSE /\ due' = FALSE
    /\ UNCHANGED <<reader, host, name, sent, ended, told>>

ResolveDue == ~due /\ due' = TRUE
    /\ UNCHANGED <<reader, host, name, address, resolved, resolving, asked, sent, ended, told>>

SetHost(h) ==
    /\ host # h /\ host' = h /\ (LateAnswers \/ asked = {})
    /\ UNCHANGED <<reader, name, address, resolved, resolving, asked, due, sent, ended, told>>

------------------------------------------------------------------------------

ShipInit ==
    /\ reader = [text |-> <<>>, resync |-> FALSE, dropped |-> 0, start |-> TRUE, taken |-> 0]
    /\ host \in Hosts /\ name = "" /\ address = {} /\ resolved = FALSE /\ resolving = FALSE
    /\ asked = {} /\ due = TRUE /\ sent = [to |-> {}, as |-> "", whole |-> TRUE]
    /\ ended = 0 /\ told = 0

ShipNext ==
    \/ \E w \in Writes : Printed(w)
    \/ log_sink_poll \/ ResolveDue
    \/ \E h \in Hosts : sink_dns_cb(h) \/ SetHost(h)

ShipSpec == ShipInit /\ [][ShipNext]_ship_vars

------------------------------------------------------------------------------
(* What the sink owes *)

ShipTypeOK ==
    /\ reader.text \in Seq({"c", "n"}) /\ Len(reader.text) <= LOG_RING_SIZE
    /\ reader.dropped \in Nat /\ {reader.resync, reader.start} \subseteq BOOLEAN
    /\ host \in Hosts /\ address \subseteq Hosts /\ asked \subseteq Hosts
    /\ {resolved, resolving, due} \subseteq BOOLEAN /\ ended \in Nat /\ told \in Nat

\* Every line that was printed is waiting, was shipped (or empty), or is in
\* the count of lines lost, exactly once, however often the ring came round;
\* and no datagram starts in the middle of a line whose beginning was lost.
LinesAccounted ==
    ended = Newlines(reader.text) + reader.taken + reader.dropped + told /\ sent.whole

\* A line goes to an address of the host the settings name when it is sent.
RightHost == sent.to \subseteq {sent.as}

================================================================================
