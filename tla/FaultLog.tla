------------------------------- MODULE FaultLog -------------------------------
(***************************************************************************)
(* The fault log (fault_log.c): a ring of flash pages, one record a page,  *)
(* found by the number each carries.  The sector the ring comes round to   *)
(* is erased when the ring enters it.  The main loop appends; an API call  *)
(* clears the log; the power goes at any moment.                           *)
(***************************************************************************)
EXTENDS Integers, FiniteSets

CONSTANTS
    Ports,     \* those with a record of their own to show
    Sectors, PPS, \* FL_SECTORS, FL_PPS
    ClearAt,   \* where in an append the API's clear may come
    LogFailing,   \* the operations that may fail: "append", "clear"
    MaxRecords \* bound: records

ASSUME FaultLogAssumption ==
    /\ Sectors \in Nat \ {0, 1} /\ PPS \in Nat \ {0} /\ MaxRecords \in Nat
    /\ ClearAt \subseteq {"idle", "erase", "program"} /\ LogFailing \subseteq {"append", "clear"}
    /\ "chassis" \notin Ports

VARIABLES
    page,       \* the flash
    page_seq,   \* its numbers, mirrored in RAM
    seq_max, next_page, valid_count,
    last,       \* the newest fault of a port: its number, Live, or 0
    limited,    \* FL_MIN_GAP_MS have not passed since the last append
    op,         \* the append under way: its next step, page and record
    kept,       \* history: the numbers of the records that were appended
    lost        \* history: the numbers whose append failed

log_vars == <<page, page_seq, seq_max, next_page, valid_count, last, limited, op, kept, lost>>

Pages == 0..(Sectors * PPS - 1)
Chassis == "chassis"
FL_EMPTY == 0
BlankPage == [seq |-> FL_EMPTY, port |-> Chassis]
Live == MaxRecords + 1 \* seen since the boot

SectorOf(p) == {q \in Pages : q \div PPS = p \div PPS}
LogIdle == [pc |-> "idle", page |-> 0, rec |-> BlankPage]
Newest(S) == CHOOSE m \in S : \A x \in S : x <= m

------------------------------------------------------------------------------
(* Reading *)

\* fault_log_get(): the nth newest is the page that carries the number n
\* below the newest.
Get(n) ==
    LET at == {p \in Pages : page_seq[p] = seq_max - n /\ page_seq[p] # FL_EMPTY}
    IN  IF n < valid_count /\ at # {} THEN {page[CHOOSE p \in at : \A q \in at : p <= q]} ELSE {}

\* What a reader who starts at the newest comes to before a number is missing.
Listed == UNION {Get(n) : n \in {m \in 0..MaxRecords : \A k \in 0..m : Get(k) # {}}}

\* Mutant: the ring starts over at its first page.
Booted_over(flash) ==
    LET used == {p \in Pages : flash[p] # BlankPage}
        newest == IF used = {} THEN 0 ELSE Newest({flash[p].seq : p \in used})
    IN  /\ page_seq' = [p \in Pages |-> flash[p].seq] /\ seq_max' = newest
        /\ valid_count' = Cardinality(used) /\ next_page' = 0 /\ last' = [i \in Ports |-> newest]
\* fault_log_init(): the newest number gives the next page, and the listing
\* each port's last fault.
Booted(flash) ==
    LET used == {p \in Pages : flash[p] # BlankPage}
        newest == IF used = {} THEN 0 ELSE Newest({flash[p].seq : p \in used})
        found(s) == \E p \in used : flash[p].seq = s
        listed == {s \in 1..newest : \A t \in s..newest : found(t)}
    IN  /\ page_seq' = [p \in Pages |-> flash[p].seq]
        /\ seq_max' = newest /\ valid_count' = Cardinality(used)
        /\ next_page' = IF used = {} THEN 0
                        ELSE ((CHOOSE p \in used : flash[p].seq = newest) + 1) % (Sectors * PPS)
        /\ last' = [i \in Ports |->
                      LET of == {s \in listed : \E p \in used : flash[p] = [seq |-> s, port |-> i]}
                      IN  IF of = {} THEN 0 ELSE Newest(of)]

------------------------------------------------------------------------------
(* Appending *)

\* A page in mid-sector that is not blank is left for the next sector.
TargetPage ==
    IF next_page % PPS # 0 /\ page_seq[next_page] # FL_EMPTY
    THEN ((next_page \div PPS + 1) * PPS) % (Sectors * PPS) ELSE next_page

Dirty(p) == p % PPS = 0 /\ \E q \in SectorOf(p) : page_seq[q] # FL_EMPTY

BeginAppend(port) ==
    LET t == TargetPage
    IN  /\ seq_max < MaxRecords /\ seq_max' = seq_max + 1 /\ next_page' = t
        /\ op' = [pc |-> IF Dirty(t) THEN "erase" ELSE "program", page |-> t,
                  rec |-> [seq |-> seq_max + 1, port |-> port]]

\* fault_log_event(): every fault is remembered, and appended unless the
\* last append was just now.
fault_log_event(port) ==
    /\ op = LogIdle
    /\ last' = [last EXCEPT ![port] = Live]
    /\ IF limited THEN UNCHANGED <<seq_max, next_page, limited, op>>
                  ELSE BeginAppend(port) /\ limited' = TRUE
    /\ UNCHANGED <<page, page_seq, valid_count, kept, lost>>

\* fault_log_boot(), and an event of the whole chassis.
fault_log_boot ==
    /\ op = LogIdle /\ BeginAppend(Chassis)
    /\ UNCHANGED <<page, page_seq, valid_count, last, limited, kept, lost>>

\* An operation that could not be done leaves the number used up.
Fail ==
    /\ op # LogIdle /\ "append" \in LogFailing /\ op' = LogIdle /\ lost' = lost \cup {op.rec.seq}
    /\ UNCHANGED <<page, page_seq, seq_max, next_page, valid_count, last, limited, kept>>

EraseSector ==
    /\ op.pc = "erase" /\ op' = [op EXCEPT !.pc = "program"]
    /\ page' = [p \in Pages |-> IF p \in SectorOf(op.page) THEN BlankPage ELSE page[p]]
    /\ page_seq' = [p \in Pages |-> IF p \in SectorOf(op.page) THEN FL_EMPTY ELSE page_seq[p]]
    /\ valid_count' = valid_count - Cardinality({p \in SectorOf(op.page) : page_seq[p] # FL_EMPTY})
    /\ UNCHANGED <<seq_max, next_page, last, limited, kept, lost>>

ProgramPage ==
    /\ op.pc = "program" /\ op' = LogIdle
    /\ page' = [page EXCEPT ![op.page] = op.rec]
    /\ page_seq' = [page_seq EXCEPT ![next_page] = op.rec.seq]
    /\ valid_count' = valid_count + 1 /\ next_page' = (next_page + 1) % (Sectors * PPS)
    /\ kept' = kept \cup {op.rec.seq}
    /\ UNCHANGED <<seq_max, last, limited, lost>>

\* FL_MIN_GAP_MS have passed.
GapOver ==
    /\ limited /\ limited' = FALSE
    /\ UNCHANGED <<page, page_seq, seq_max, next_page, valid_count, last, op, kept, lost>>

\* fault_log_clear(): sector after sector; the first that fails ends it with
\* the mirror as it was.
fault_log_clear ==
    /\ op.pc \in ClearAt
    /\ \E n \in (IF "clear" \in LogFailing THEN 0..Sectors ELSE {Sectors}) :
         /\ page' = [p \in Pages |-> IF p \div PPS < n THEN BlankPage ELSE page[p]]
         /\ IF n = Sectors
            THEN /\ page_seq' = [p \in Pages |-> FL_EMPTY] /\ valid_count' = 0 /\ next_page' = 0
                 /\ seq_max' = 0 /\ lost' = {}
            ELSE UNCHANGED <<page_seq, valid_count, next_page, seq_max, lost>>
    /\ kept' = {}
    /\ UNCHANGED <<last, limited, op>>

\* The power goes: an erase may have come part of the way, and a program not
\* at all.
LogPowerLoss ==
    /\ \E gone \in (IF op.pc = "erase" THEN SUBSET SectorOf(op.page) ELSE {{}}) :
         page' = [p \in Pages |-> IF p \in gone THEN BlankPage ELSE page[p]]
    /\ Booted(page') /\ op' = LogIdle /\ limited' = FALSE /\ UNCHANGED kept
    /\ lost' = {s \in lost : s < seq_max'}

------------------------------------------------------------------------------

LogInit ==
    /\ page = [p \in Pages |-> BlankPage] /\ page_seq = [p \in Pages |-> FL_EMPTY]
    /\ seq_max = 0 /\ next_page = 0 /\ valid_count = 0 /\ last = [i \in Ports |-> 0]
    /\ limited = FALSE /\ op = LogIdle /\ kept = {} /\ lost = {}

LogNext ==
    \/ \E i \in Ports : fault_log_event(i)
    \/ fault_log_boot \/ fault_log_clear
    \/ EraseSector \/ ProgramPage \/ Fail \/ GapOver \/ LogPowerLoss

LogSpec == LogInit /\ [][LogNext]_log_vars

------------------------------------------------------------------------------
(* What the log owes *)

LogTypeOK ==
    /\ page \in [Pages -> [seq : 0..MaxRecords, port : Ports \cup {Chassis}]]
    /\ page_seq \in [Pages -> 0..MaxRecords] /\ seq_max \in 0..MaxRecords /\ next_page \in Pages
    /\ valid_count \in 0..Cardinality(Pages) /\ last \in [Ports -> 0..Live]

Recent(s) == s > seq_max - (Sectors - 1) * PPS /\ \A n \in lost : s > n

\* The listing shows the newest records, as many as the sectors hold that no
\* append is about to erase, down to the last that failed: neither a restart
\* nor an erase that the power cut short hides them; and a port shows the
\* newest of its own.
RecentListed ==
    op = LogIdle => \A s \in kept : Recent(s) =>
        /\ \E r \in Listed : r.seq = s
        /\ \A i \in Ports, p \in Pages : page[p] = [seq |-> s, port |-> i] => last[i] >= s

================================================================================
