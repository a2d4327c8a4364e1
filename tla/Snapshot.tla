--------------------------------- MODULE Snapshot ---------------------------------
(***************************************************************************)
(* The telemetry snapshot (ipc.c): core 1 writes it between two counts,    *)
(* core 0 copies it and looks at the count before and after.  A copy of    *)
(* the structure is not one step on either core.                           *)
(***************************************************************************)
EXTENDS Integers

CONSTANTS
    Publishes, \* bound: snapshots
    Garbage    \* what the uninitialised s2 may hold

VARIABLES
    snap_seq, \* volatile uint32_t
    snap,     \* its two halves, each the number of the snapshot it is of
    writer,   \* core 1: the statement of ipc_snapshot_publish() that is next
    reader,   \* core 0: the statement of ipc_snapshot_read() that is next, s1, s2
    copy      \* *t

snapshot_vars == <<snap_seq, snap, writer, reader, copy>>

------------------------------------------------------------------------------
(* ipc_snapshot_publish() *)

Odd == /\ writer = "odd" /\ snap_seq < 2 * Publishes
       /\ snap_seq' = snap_seq + 1 /\ writer' = "first" /\ UNCHANGED <<snap, reader, copy>>

\* The halves are written one after the other.
Write(half, next) ==
    /\ writer = half /\ writer' = next
    /\ snap' = [snap EXCEPT ![half] = (snap_seq + 1) \div 2]
    /\ UNCHANGED <<snap_seq, reader, copy>>

Even == /\ writer = "even" /\ snap_seq' = snap_seq + 1 /\ writer' = "odd"
        /\ UNCHANGED <<snap, reader, copy>>

ipc_snapshot_publish == Odd \/ Write("first", "second") \/ Write("second", "even") \/ Even

------------------------------------------------------------------------------
(* ipc_snapshot_read() *)

Goes(next) == reader' = [reader EXCEPT !.at = next] /\ UNCHANGED copy

Call == /\ reader.at = "idle" /\ UNCHANGED copy
        /\ \E s \in Garbage : reader' = [at |-> "s1", s1 |-> 0, s2 |-> s]

\* An odd count goes straight to the loop's condition.
ReadS1 == /\ reader.at = "s1" /\ UNCHANGED copy
          /\ reader' = [reader EXCEPT !.s1 = snap_seq,
                                      !.at = IF snap_seq % 2 = 1 THEN "while" ELSE "first"]

Copy(half, next) == /\ reader.at = half /\ copy' = [copy EXCEPT ![half] = snap[half]]
                    /\ reader' = [reader EXCEPT !.at = next]

ReadS2 == /\ reader.at = "s2" /\ UNCHANGED copy
          /\ reader' = [reader EXCEPT !.s2 = snap_seq, !.at = "while"]

While == reader.at = "while" /\ Goes(IF reader.s1 # reader.s2 THEN "s1" ELSE "done")

Return == reader.at = "done" /\ Goes("idle")

ipc_snapshot_read ==
    /\ \/ Call \/ ReadS1 \/ ReadS2 \/ While \/ Return
       \/ Copy("first", "second") \/ Copy("second", "s2")
    /\ UNCHANGED <<snap_seq, snap, writer>>

SnapshotInit ==
    /\ snap_seq = 0 /\ writer = "odd" /\ reader = [at |-> "idle", s1 |-> 0, s2 |-> 0]
    /\ snap = [half \in {"first", "second"} |-> 0] /\ copy = snap

SnapshotNext == ipc_snapshot_publish \/ ipc_snapshot_read

SnapshotSpec == SnapshotInit /\ [][SnapshotNext]_snapshot_vars

------------------------------------------------------------------------------
(* Properties *)

\* What a read returns is one snapshot, not halves of two ("a seqlock telemetry
\* snapshot").
WholeCopies == reader.at = "done" => copy["first"] = copy["second"]
================================================================================
