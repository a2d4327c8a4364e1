---------------------------- MODULE Blades_proofs ----------------------------
(***************************************************************************)
(* Proofs about the blades from both sides: the trip that writes a blade's *)
(* image, the bus that leads to the blades, and the firmware that runs on  *)
(* one; for any number of slots, pages, chunks and commands, any           *)
(* configurations and cables and any counts of retries.                    *)
(*                                                                         *)
(* A trip writes the header's page last, so what the header stands for is  *)
(* whole and checked before the blade is started.  The bus driver never    *)
(* takes the wrong channel for selected, and no enable line goes high by   *)
(* itself.  On a blade a clear brings a dark port back, and its power path *)
(* keeps its threshold over the output, closes its switch only onto 5 V    *)
(* and carries nothing while it is off, whichever transfer fails; and what *)
(* is agreed with a sink is within the limit of the moment.                *)
(***************************************************************************)
EXTENDS BladeLoader, Blade, Backplane, FiniteSetTheorems, TLAPS

------------------------------------------------------------------------------
(* The image of a blade *)

\* The fields of the trip, and what a chunk of the flash holds.
Fields == {"step", "tries", "waits", "mode", "no_stretch", "has_crc", "wrote", "rewritten",
           "crc_differed", "chunk"}
Shape(t) ==
    /\ t = [f \in Fields |-> t[f]]
    /\ t.chunk \in Nat /\ t.mode \in Modes
FlashHolds == flash \in [Positions -> {"blank", "old", "new", "junk"}]

\* What has been done to the flash f after n of its pages are erased, n chunks written in
\* their order, and n read back.
Erased(f, n) == \A i \in Positions : i \div PerPage < n => f[i] = "blank"
Laid(f, n) ==
    /\ \A i \in Positions : f[i] # "old"
    /\ \A j \in Positions : j < n => f[write_offset(j)] # "blank"
ReadBack(f, n) == \A i \in Positions : i < n => f[i] = "new"

\* What the blade's flash holds at every step of the trip.
Progress ==
    /\ p.step \in {"version", "id", "inspect"} => ~p.wrote /\ p.chunk = 0
    /\ p.step \in {"erase", "erase_wait"} => p.chunk < Pages /\ Erased(flash, p.chunk)
    /\ p.step = "erase_settle" => p.chunk < Pages /\ Erased(flash, p.chunk + 1)
    /\ p.step \in {"write", "write_wait"} => Laid(flash, p.chunk)
    /\ p.step = "write_wait" => p.chunk < Chunks
    /\ p.step = "readback" => ReadBack(flash, p.chunk)

\* The chunks that do not hold what was written hold junk.
BadIsJunk == bad = {i \in Positions : flash[i] = "junk"}

\* The inductive invariant of a trip.
LInv == Shape(p) /\ FlashHolds /\ BadIsJunk /\ Progress /\ HeaderMeansWhole /\ StartsWhatWasChecked

------------------------------------------------------------------------------
(* The order of writing *)

LEMMA ChunkCount ==
    /\ Chunks \in Nat /\ Chunks >= PerPage /\ Chunks >= Pages /\ 0 \in Positions
  <1>1. Pages \in Nat /\ Pages >= 1 /\ PerPage \in Nat /\ PerPage >= 1
    BY LoaderAssumption
  <1>2. /\ Pages * PerPage \in Nat /\ Pages * PerPage >= PerPage /\ Pages * PerPage >= Pages
    BY <1>1
  <1> QED
    BY <1>1, <1>2 DEF Chunks, Positions

LEMMA PagesCover ==
    ASSUME NEW i \in Positions
    PROVE  i \div PerPage \in Nat /\ i \div PerPage < Pages
  <1>1. Pages \in Nat /\ Pages >= 1 /\ PerPage \in Nat /\ PerPage >= 1
    BY LoaderAssumption
  <1>2. i \in Nat /\ i < Pages * PerPage
    BY ChunkCount DEF Positions, Chunks
  <1>3. i \div PerPage \in Nat /\ (i \div PerPage) * PerPage <= i
    BY <1>1, <1>2
  <1>4. (i \div PerPage) * PerPage < Pages * PerPage
    BY <1>1, <1>2, <1>3
  <1>5. i \div PerPage < Pages
    BY <1>1, <1>3, <1>4
  <1> QED
    BY <1>3, <1>5

LEMMA FirstPage == 0 \div PerPage = 0
  BY LoaderAssumption

LEMMA OffsetIn ==
    ASSUME NEW j \in Positions
    PROVE  write_offset(j) \in Positions /\ (write_offset(j) = 0 => j = Chunks - 1)
  BY ChunkCount, LoaderAssumption DEF write_offset, Positions

LEMMA OffsetOnto ==
    ASSUME NEW i \in Positions
    PROVE  \E j \in Positions : write_offset(j) = i /\ (j = Chunks - 1 => i = 0)
  <1> USE ChunkCount, LoaderAssumption DEF Positions
  <1>1. CASE i >= PerPage
    <2>1. i - PerPage \in Positions /\ i - PerPage < Chunks - PerPage
      BY <1>1
    <2>2. write_offset(i - PerPage) = i
      BY <2>1 DEF write_offset
    <2> QED
      BY <2>1, <2>2
  <1>2. CASE i < PerPage
    <2>1. Chunks - 1 - i \in Positions /\ ~(Chunks - 1 - i < Chunks - PerPage)
      BY <1>2
    <2>2. write_offset(Chunks - 1 - i) = i
      BY <2>1 DEF write_offset
    <2>3. Chunks - 1 - i = Chunks - 1 => i = 0
      OBVIOUS
    <2> QED
      BY <2>1, <2>2, <2>3
  <1> QED
    BY <1>1, <1>2

------------------------------------------------------------------------------
(* The steps of the trip *)

\* Everything but the step and the counts of tries and waits.
LoaderSame(t, u) == Shape(u) /\ u.chunk = t.chunk /\ u.wrote = t.wrote /\ u.mode = t.mode

LEMMA NoTripShape == Shape(NoTrip)
  BY DEF NoTrip, Shape, Fields, Modes

LEMMA NextSame ==
    ASSUME NEW t, Shape(t), NEW s
    PROVE  next(t, s).step = s /\ LoaderSame(t, next(t, s))
  BY DEF next, LoaderSame, Shape, Fields

LEMMA FailSame ==
    ASSUME NEW t, Shape(t)
    PROVE  fail(t).step = "failed" /\ LoaderSame(t, fail(t))
  BY DEF fail, LoaderSame, Shape, Fields

LEMMA RetrySame ==
    ASSUME NEW t, Shape(t)
    PROVE  retry(t).step \in {t.step, "failed"} /\ LoaderSame(t, retry(t))
  BY DEF retry, fail, LoaderSame, Shape, Fields

LEMMA WaitSame ==
    ASSUME NEW t, Shape(t)
    PROVE  wait_more(t).step \in {t.step, "failed"} /\ LoaderSame(t, wait_more(t))
  BY DEF wait_more, fail, LoaderSame, Shape, Fields

LEMMA OneMore ==
    ASSUME NEW t, Shape(t)
    PROVE  LET u == [t EXCEPT !.chunk = @ + 1]
           IN  /\ Shape(u) /\ u.step = t.step /\ u.chunk = t.chunk + 1
               /\ u.wrote = t.wrote /\ u.mode = t.mode
  <1>1. t.chunk + 1 \in Nat
    BY DEF Shape
  <1> QED
    BY <1>1 DEF Shape, Fields

LEMMA DoneSame ==
    ASSUME Shape(p)
    PROVE  /\ Shape(ChunkDone) /\ ChunkDone.step = p.step /\ ChunkDone.chunk = p.chunk + 1
           /\ ChunkDone.wrote = p.wrote /\ ChunkDone.mode = p.mode
  <1>1. p.chunk + 1 \in Nat
    BY DEF Shape
  <1>2. \A f \in Fields : ChunkDone[f] = IF f = "chunk" THEN p.chunk + 1
                                        ELSE IF f = "tries" THEN 0 ELSE p[f]
    BY DEF ChunkDone, Shape, Fields
  <1>3. ChunkDone = [f \in Fields |-> ChunkDone[f]]
    BY DEF ChunkDone, Shape, Fields
  <1> QED
    BY <1>1, <1>2, <1>3 DEF Shape, Fields

\* The check starts from the first chunk.
LEMMA ReadbackStarts ==
    ASSUME NEW t, Shape(t)
    PROVE  LET u == start_readback(t)
           IN  /\ Shape(u) /\ u.step = "readback" /\ u.chunk = 0
               /\ u.wrote = t.wrote /\ u.mode = t.mode
  BY DEF start_readback, next, Shape, Fields

LEMMA VerifyStarts ==
    ASSUME NEW t, Shape(t)
    PROVE  LET u == start_verify(t)
           IN  /\ Shape(u) /\ u.wrote = t.wrote /\ u.mode = t.mode
               /\ u.step = "crc" \/ (u.step = "readback" /\ u.chunk = 0)
  <1>1. ASSUME NEW u, u = [t EXCEPT !.crc_differed = FALSE]
        PROVE  Shape(u) /\ u.wrote = t.wrote /\ u.mode = t.mode
    BY <1>1 DEF Shape, Fields
  <1>2. CASE t.has_crc /\ ~crc_unusable
    BY <1>1, <1>2, NextSame DEF start_verify, LoaderSame
  <1>3. CASE ~(t.has_crc /\ ~crc_unusable)
    BY <1>1, <1>3, ReadbackStarts DEF start_verify
  <1> QED
    BY <1>2, <1>3

\* Between two commands the flash keeps what it holds.
LoaderHeld == UNCHANGED <<flash, bad>>

LEMMA HeldHolds ==
    ASSUME LInv, LoaderHeld
    PROVE  /\ FlashHolds' /\ BadIsJunk' /\ HeaderMeansWhole' /\ (IsBundle => IsBundle')
           /\ \A n : /\ Erased(flash, n) => Erased(flash', n)
                     /\ Laid(flash, n) => Laid(flash', n)
                     /\ ReadBack(flash, n) => ReadBack(flash', n)
  BY DEF LInv, FlashHolds, BadIsJunk, HeaderMeansWhole, HaveValid, LoaderHeld, IsBundle, Erased, Laid,
         ReadBack

LEMMA InitLoads == LoaderInit => LInv
  <1> SUFFICES ASSUME LoaderInit PROVE LInv
    OBVIOUS
  <1> USE ChunkCount DEF LoaderInit
  <1>1. Shape(p)
    BY NoTripShape
  <1>2. FlashHolds
    BY DEF FlashHolds, Contents
  <1>3. BadIsJunk /\ Progress /\ StartsWhatWasChecked
    BY DEF BadIsJunk, Progress, StartsWhatWasChecked, NoTrip
  <1>4. HeaderMeansWhole
    BY DEF HeaderMeansWhole, HaveValid, Contents
  <1> QED
    BY <1>1, <1>2, <1>3, <1>4 DEF LInv

LEMMA StartKeeps ==
    LInv /\ (Begin \/ Version \/ Id \/ LosePower \/ EngineStart) => LInv'
  <1> SUFFICES ASSUME LInv, Begin \/ Version \/ Id \/ LosePower \/ EngineStart PROVE LInv'
    OBVIOUS
  <1>1. LoaderHeld
    BY DEF Begin, Version, Id, LosePower, EngineStart, Keeps, LoaderHeld
  <1>2. Shape(p) /\ (p.step \in {"version", "id"} => ~p.wrote /\ p.chunk = 0)
    BY DEF LInv, Progress
  <1>3. /\ Shape(p') /\ p'.step \in {"version", "id", "inspect", "failed"}
        /\ p'.step # "failed" => ~p'.wrote /\ p'.chunk = 0
    <2>1. CASE Begin
      <3>1. PICK m \in Modes : p' = [NoTrip EXCEPT !.step = "version", !.mode = m]
        BY <2>1 DEF Begin
      <3>2. NoTrip.wrote = FALSE /\ NoTrip.chunk = 0
        BY DEF NoTrip
      <3> QED
        BY <3>1, <3>2, NoTripShape DEF Shape, Fields
    <2>2. CASE Version
      <3> DEFINE Asked(ns, crc) == next([p EXCEPT !.no_stretch = ns, !.has_crc = crc], "id")
      <3>1. ASSUME NEW ns, NEW crc
            PROVE  LET u == Asked(ns, crc)
                   IN  Shape(u) /\ u.step = "id" /\ u.wrote = p.wrote /\ u.chunk = p.chunk
        BY <1>2 DEF next, Shape, Fields
      <3>2. p.step = "version" /\ (\/ \E ns \in NoStretch, crc \in HasCrc : p' = Asked(ns, crc)
                                  \/ p' \in {retry(p), fail(p)})
        BY <2>2 DEF Version, Goes
      <3> HIDE DEF Asked
      <3> QED
        BY <1>2, <3>1, <3>2, RetrySame, FailSame DEF LoaderSame
    <2>3. CASE Id
      BY <1>2, <2>3, NextSame, RetrySame, FailSame DEF Id, Goes, LoaderSame
    <2>4. CASE LosePower \/ EngineStart
      <3>1. p' = NoTrip
        BY <2>4 DEF LosePower, EngineStart
      <3> QED
        BY <3>1, NoTripShape DEF NoTrip
    <2> QED
      BY <2>1, <2>2, <2>3, <2>4
  <1> QED
    BY <1>1, <1>3, HeldHolds DEF LInv, Progress, StartsWhatWasChecked

LEMMA InspectKeeps == LInv /\ Inspect => LInv'
  <1> SUFFICES ASSUME LInv, Inspect PROVE LInv'
    OBVIOUS
  <1>1. LoaderHeld /\ p.step = "inspect" /\ Shape(p) /\ ~p.wrote /\ p.chunk = 0 /\ p.mode \in Modes
    BY DEF Inspect, Keeps, LoaderHeld, Goes, LInv, Progress, Shape, Fields
  <1>2. /\ Shape(p') /\ p'.step \in {"inspect", "erase", "crc", "readback", "go", "failed"}
        /\ ~p'.wrote /\ p'.mode = p.mode
        /\ p'.step \in {"inspect", "erase", "readback"} => p'.chunk = 0
        /\ p'.step = "go" => p.mode = "keep" \/ ~Bundled
    BY <1>1, NextSame, FailSame, RetrySame, VerifyStarts
       DEF Inspect, Goes, LoaderSame, Program, Modes
  <1>3. 0 < Pages /\ Erased(flash, 0) /\ ReadBack(flash, 0)
    BY LoaderAssumption, PagesCover DEF Erased, ReadBack, Positions
  <1> QED
    BY <1>1, <1>2, <1>3, HeldHolds DEF LInv, Progress, StartsWhatWasChecked

\* The flash after a page is erased: the pages below stay blank.
LEMMA PageErased ==
    ASSUME LInv, p.step \in {"erase", "erase_wait"}, ErasePage(p.chunk)
    PROVE  /\ FlashHolds' /\ BadIsJunk' /\ HeaderMeansWhole'
           /\ Erased(flash', p.chunk) /\ Erased(flash', p.chunk + 1)
  <1>1. FlashHolds /\ BadIsJunk /\ p.chunk \in Nat /\ Erased(flash, p.chunk)
    BY DEF LInv, Progress, Shape
  <1>2. ASSUME NEW i \in Positions
        PROVE  /\ i \div PerPage \in Nat
               /\ flash'[i] = IF i \div PerPage = p.chunk THEN "blank" ELSE flash[i]
    BY <1>2, PagesCover DEF ErasePage, PageOf
  <1>3. FlashHolds'
    BY <1>1 DEF FlashHolds, ErasePage
  <1>4. BadIsJunk'
    BY <1>1, <1>2 DEF BadIsJunk, ErasePage, PageOf
  <1>5. Erased(flash', p.chunk) /\ Erased(flash', p.chunk + 1)
    <2> SUFFICES ASSUME NEW i \in Positions, i \div PerPage < p.chunk + 1
                 PROVE  flash'[i] = "blank"
      BY <1>1, <1>2 DEF Erased
    <2> QED
      BY <1>1, <1>2 DEF Erased
  <1>6. HeaderMeansWhole'
    <2>1. flash'[0] = "blank"
      BY <1>1, <1>2, ChunkCount, FirstPage DEF Erased
    <2> QED
      BY <2>1 DEF HeaderMeansWhole, HaveValid
  <1> QED
    BY <1>3, <1>4, <1>5, <1>6

LEMMA EraseKeeps == LInv /\ (Erase \/ EraseWait \/ EraseSettle) => LInv'
  <1> SUFFICES ASSUME LInv, Erase \/ EraseWait \/ EraseSettle PROVE LInv'
    OBVIOUS
  <1>1. Shape(p) /\ p.chunk < Pages
    BY DEF LInv, Progress, Erase, EraseWait, EraseSettle, Goes
  <1>2. CASE Erase \/ EraseWait
    <2>1. p.step \in {"erase", "erase_wait"} /\ (LoaderHeld \/ ErasePage(p.chunk))
      BY <1>2 DEF Erase, EraseWait, Goes, Heard, Nothing, LoaderHeld
    <2>2. /\ FlashHolds' /\ BadIsJunk' /\ HeaderMeansWhole' /\ Erased(flash', p.chunk)
      BY <2>1, PageErased, HeldHolds DEF LInv, Progress
    <2>3. \/ p' \in {next(p, "erase_wait"), wait_more(p), retry(p), fail(p)}
          \/ p' = next(p, "erase_settle") /\ ErasePage(p.chunk)
      BY <1>2 DEF Erase, EraseWait, Goes, Heard
    <2>4. /\ Shape(p') /\ p'.chunk = p.chunk
          /\ p'.step \in {"erase", "erase_wait", "erase_settle", "failed"}
          /\ p'.step = "erase_settle" => ErasePage(p.chunk)
      BY <1>1, <2>1, <2>3, NextSame, WaitSame, RetrySame, FailSame DEF LoaderSame
    <2>5. p'.step = "erase_settle" => Erased(flash', p.chunk + 1)
      BY <2>1, <2>4, PageErased
    <2> QED
      BY <1>1, <2>2, <2>4, <2>5 DEF LInv, Progress, StartsWhatWasChecked, Erased
  <1>3. CASE EraseSettle
    <2>1. LoaderHeld /\ p.step = "erase_settle" /\ Erased(flash, p.chunk + 1)
      BY <1>3 DEF EraseSettle, Goes, Keeps, LoaderHeld, LInv, Progress
    <2>2. CASE p.chunk + 1 < Pages
      <3>1. p' = next([p EXCEPT !.chunk = @ + 1], "erase")
        BY <1>3, <2>2 DEF EraseSettle, Goes
      <3>2. Shape(p') /\ p'.step = "erase" /\ p'.chunk = p.chunk + 1
        <4>1. ASSUME NEW u, u = [p EXCEPT !.chunk = @ + 1]
              PROVE  Shape(u) /\ u.chunk = p.chunk + 1
          BY <1>1, <4>1, OneMore
        <4> QED
          BY <3>1, <4>1, NextSame DEF LoaderSame
      <3> QED
        BY <2>1, <2>2, <3>2, HeldHolds DEF LInv, Progress, StartsWhatWasChecked
    <2>3. CASE ~(p.chunk + 1 < Pages)
      <3>1. p' = next([p EXCEPT !.chunk = 0], "write")
        BY <1>3, <2>3 DEF EraseSettle, Goes
      <3>2. Shape(p') /\ p'.step = "write" /\ p'.chunk = 0
        BY <1>1, <3>1 DEF next, Shape, Fields
      <3>3. Laid(flash, 0)
        <4>1. p.chunk + 1 = Pages
          BY <1>1, <2>3, LoaderAssumption DEF Shape
        <4> QED
          BY <2>1, <4>1, PagesCover DEF Laid, Erased, Positions
      <3> QED
        BY <2>1, <3>2, <3>3, HeldHolds DEF LInv, Progress, StartsWhatWasChecked
    <2> QED
      BY <2>2, <2>3
  <1> QED
    BY <1>2, <1>3

\* The flash after a chunk is programmed: in the order of writing the header
\* comes after all the others.
LEMMA ChunkProgrammed ==
    ASSUME LInv, p.step \in {"write", "write_wait"}, p.chunk < Chunks,
           ProgramChunk(write_offset(p.chunk))
    PROVE  FlashHolds' /\ BadIsJunk' /\ HeaderMeansWhole' /\ Laid(flash', p.chunk) /\ Laid(flash', p.chunk + 1)
  <1> DEFINE at == write_offset(p.chunk)
  <1>1. FlashHolds /\ BadIsJunk /\ HeaderMeansWhole /\ p.chunk \in Positions /\ Laid(flash, p.chunk)
    BY ChunkCount DEF LInv, Progress, Shape, Positions
  <1>2. at \in Positions /\ (at = 0 => p.chunk = Chunks - 1)
    BY <1>1, OffsetIn
  <1> HIDE DEF at
  <1>3. PICK v \in {"new", "junk"} :
           /\ flash' = [flash EXCEPT ![at] = v]
           /\ bad' = IF v = "junk" THEN bad \cup {at} ELSE bad
    BY DEF ProgramChunk, at
  <1>4. flash[at] = "blank"
    BY DEF ProgramChunk, at
  <1>5. ASSUME NEW i \in Positions
        PROVE  flash'[i] = IF i = at THEN v ELSE flash[i]
    BY <1>1, <1>3 DEF FlashHolds
  <1>6. FlashHolds'
    BY <1>1, <1>3 DEF FlashHolds
  <1>7. BadIsJunk'
    BY <1>1, <1>2, <1>3, <1>4, <1>5 DEF BadIsJunk
  <1>8. Laid(flash', p.chunk) /\ Laid(flash', p.chunk + 1)
    <2>1. \A i \in Positions : flash'[i] # "old"
      BY <1>1, <1>5 DEF Laid
    <2>2. ASSUME NEW j \in Positions, j < p.chunk + 1
          PROVE  flash'[write_offset(j)] # "blank"
      <3>1. write_offset(j) \in Positions
        BY OffsetIn
      <3>2. j < p.chunk \/ j = p.chunk
        BY <2>2, <1>1 DEF Positions
      <3> QED
        BY <1>1, <1>5, <3>1, <3>2 DEF Laid, at
    <2> QED
      BY <1>1, <2>1, <2>2 DEF Laid, Positions
  <1>9. HeaderMeansWhole'
    <2>1. CASE at = 0
      <3>1. ASSUME NEW i \in Positions PROVE flash'[i] \in {"new", "junk"}
        <4>1. PICK j \in Positions : write_offset(j) = i
          BY OffsetOnto
        <4>2. j < p.chunk + 1
          BY <1>1, <1>2, <2>1, ChunkCount DEF Positions
        <4>3. flash'[i] # "blank" /\ flash'[i] # "old"
          BY <1>8, <4>1, <4>2 DEF Laid
        <4> QED
          BY <4>3, <1>6 DEF FlashHolds
      <3> QED
        BY <3>1, <1>7, ChunkCount DEF HeaderMeansWhole, HaveValid, BadIsJunk
    <2>2. CASE at # 0
      <3>1. flash'[0] = flash[0] /\ ~HaveValid
        BY <1>1, <1>2, <1>4, <1>5, <2>2, ChunkCount DEF HeaderMeansWhole, HaveValid, BadIsJunk
      <3> QED
        BY <3>1 DEF HeaderMeansWhole, HaveValid
    <2> QED
      BY <2>1, <2>2
  <1> QED
    BY <1>6, <1>7, <1>8, <1>9

LEMMA WriteKeeps == LInv /\ (Write \/ WriteWait \/ Written) => LInv'
  <1> SUFFICES ASSUME LInv, Write \/ WriteWait \/ Written PROVE LInv'
    OBVIOUS
  <1>1. Shape(p) /\ Laid(flash, p.chunk)
    BY DEF LInv, Progress, Write, WriteWait, Written, Goes
  <1>2. CASE Write \/ WriteWait
    <2> DEFINE sent == ProgramChunk(write_offset(p.chunk))
               on == next([p EXCEPT !.chunk = @ + 1], "write")
               again == retry([p EXCEPT !.step = "write"])
    <2>1. p.step \in {"write", "write_wait"} /\ p.chunk < Chunks /\ (LoaderHeld \/ sent)
      BY <1>2 DEF Write, WriteWait, Goes, Heard, Nothing, LoaderHeld, LInv, Progress
    <2>2. \/ p' \in {next(p, "write_wait"), wait_more(p), retry(p), again}
          \/ /\ (p' = ChunkDone /\ p.step = "write") \/ p' = on
             /\ (sent \/ (LoaderHeld /\ flash[write_offset(p.chunk)] = "new"))
      BY <1>2 DEF Write, WriteWait, Goes, Heard, Nothing, LoaderHeld
    <2>3. again.step \in {"write", "failed"} /\ Shape(again) /\ again.chunk = p.chunk
      <3>1. ASSUME NEW u, u = [p EXCEPT !.step = "write"]
            PROVE  Shape(u) /\ u.step = "write" /\ u.chunk = p.chunk
        BY <1>1, <3>1 DEF Shape, Fields
      <3> QED
        BY <3>1, RetrySame DEF LoaderSame
    <2>4. on.step = "write" /\ Shape(on) /\ on.chunk = p.chunk + 1
      <3>1. ASSUME NEW u, u = [p EXCEPT !.chunk = @ + 1]
            PROVE  Shape(u) /\ u.chunk = p.chunk + 1
        BY <1>1, <3>1, OneMore
      <3> QED
        BY <3>1, NextSame DEF LoaderSame
    <2>5. /\ FlashHolds' /\ BadIsJunk' /\ HeaderMeansWhole' /\ Laid(flash', p.chunk)
          /\ sent => Laid(flash', p.chunk + 1)
      BY <1>1, <2>1, ChunkProgrammed, HeldHolds
    <2>6. ASSUME LoaderHeld, flash[write_offset(p.chunk)] = "new"
          PROVE  Laid(flash', p.chunk + 1)
      <3>1. \A j \in Positions : j < p.chunk + 1 => j < p.chunk \/ j = p.chunk
        BY <1>1 DEF Positions, Shape
      <3> QED
        BY <1>1, <2>6, <3>1 DEF Laid, LoaderHeld
    <2> HIDE DEF sent, on, again
    <2>7. /\ Shape(p') /\ p'.step \in {"write", "write_wait", "failed"}
          /\ p'.chunk \in {p.chunk, p.chunk + 1}
          /\ p'.step = "write_wait" => p'.chunk < Chunks
          /\ p'.chunk = p.chunk \/ Laid(flash', p.chunk + 1)
      <3>1. CASE p' \in {next(p, "write_wait"), wait_more(p), retry(p), again}
        BY <1>1, <2>1, <2>3, <3>1, NextSame, WaitSame, RetrySame DEF LoaderSame
      <3>2. CASE ((p' = ChunkDone /\ p.step = "write") \/ p' = on)
                 /\ (sent \/ (LoaderHeld /\ flash[write_offset(p.chunk)] = "new"))
        <4>1. Laid(flash', p.chunk + 1)
          BY <2>5, <2>6, <3>2
        <4> QED
          BY <1>1, <2>1, <2>4, <3>2, <4>1, DoneSame
      <3> QED
        BY <2>2, <3>1, <3>2
    <2> QED
      BY <2>5, <2>7 DEF LInv, Progress, StartsWhatWasChecked
  <1>3. CASE Written
    <2>1. LoaderHeld /\ p' = start_verify([p EXCEPT !.wrote = TRUE])
      BY <1>3 DEF Written, Keeps, LoaderHeld, Goes
    <2>2. ASSUME NEW u, u = [p EXCEPT !.wrote = TRUE]
          PROVE  Shape(u)
      BY <1>1, <2>2 DEF Shape, Fields
    <2>3. Shape(p') /\ (p'.step = "crc" \/ (p'.step = "readback" /\ p'.chunk = 0))
      BY <2>1, <2>2, VerifyStarts
    <2>4. ReadBack(flash', 0)
      BY DEF ReadBack, Positions
    <2> QED
      BY <2>1, <2>3, <2>4, HeldHolds DEF LInv, Progress, StartsWhatWasChecked
  <1> QED
    BY <1>2, <1>3

\* What goes on to "go" from a check was read or summed up.
LEMMA CheckKeeps == LInv /\ (Crc \/ CrcWait \/ CrcResult \/ Readback) => LInv'
  <1> SUFFICES ASSUME LInv, Crc \/ CrcWait \/ CrcResult \/ Readback PROVE LInv'
    OBVIOUS
  <1>1. LoaderHeld /\ Shape(p) /\ (p.step = "readback" => ReadBack(flash, p.chunk))
    BY DEF Crc, CrcWait, CrcResult, Readback, LoaderHeld, LInv, Progress
  <1>2. ReadBack(flash, 0) /\ Erased(flash, 0) /\ 0 < Pages
    BY LoaderAssumption, PagesCover DEF ReadBack, Erased, Positions
  <1>3. /\ Shape(p') /\ p'.step \in {"crc", "crc_wait", "crc_result", "readback", "erase", "go",
                                     "failed"}
        /\ p'.step = "readback" => ReadBack(flash, p'.chunk)
        /\ p'.step = "erase" => p'.chunk = 0
        /\ p'.step = "go" => IsBundle
    <2>1. ASSUME p' = start_readback(p)
          PROVE  Shape(p') /\ p'.step = "readback" /\ p'.chunk = 0
      BY <1>1, <2>1, ReadbackStarts
    <2>2. CASE Crc
      BY <1>1, <1>2, <2>1, <2>2, NextSame, RetrySame DEF Crc, crc_misbehaved, LoaderSame
    <2>3. CASE CrcWait
      <3>1. ASSUME NEW u, u = [p EXCEPT !.waits = @ + 1]
            PROVE  Shape(u) /\ u.step = p.step
        BY <1>1, <3>1 DEF Shape, Fields
      <3>2. p.step = "crc_wait" /\ (p' \in {next(p, "crc_result"), start_readback(p)}
                                    \/ p' = [p EXCEPT !.waits = @ + 1])
        BY <2>3 DEF CrcWait, crc_misbehaved
      <3> QED
        BY <1>1, <1>2, <2>1, <3>1, <3>2, NextSame DEF LoaderSame
    <2>4. CASE CrcResult
      <3>1. ASSUME NEW u, u = [p EXCEPT !.crc_differed = TRUE]
            PROVE  Shape(u)
        BY <1>1, <3>1 DEF Shape, Fields
      <3>2. ASSUME p' = start_readback([p EXCEPT !.crc_differed = TRUE])
            PROVE  Shape(p') /\ p'.step = "readback" /\ p'.chunk = 0
        BY <3>1, <3>2, ReadbackStarts
      <3> QED
        BY <1>1, <1>2, <2>1, <2>4, <3>2, NextSame DEF CrcResult, crc_misbehaved, LoaderSame
    <2>5. CASE Readback
      <3>1. CASE p.chunk >= Chunks
        <4>1. IsBundle
          BY <1>1, <2>5, <3>1, ChunkCount DEF Readback, ReadBack, IsBundle, Positions, Shape
        <4> QED
          BY <1>1, <2>5, <3>1, <4>1, NextSame DEF Readback, LoaderSame
      <3>2. CASE ~(p.chunk >= Chunks)
        <4>1. CASE p' = retry(p)
          BY <1>1, <2>5, <4>1, RetrySame DEF Readback, LoaderSame
        <4>2. CASE p' = ChunkDone /\ flash[p.chunk] = "new"
          <5>1. ReadBack(flash, p.chunk + 1)
            <6>1. \A i \in Positions : i < p.chunk + 1 => i < p.chunk \/ i = p.chunk
              BY <1>1 DEF Positions, Shape
            <6> QED
              BY <1>1, <2>5, <4>2, <6>1 DEF ReadBack, Readback
          <5> QED
            BY <1>1, <2>5, <4>2, <5>1, DoneSame DEF Readback
        <4>3. CASE p' = verify_failed(p)
          <5>1. ASSUME NEW u, u = [p EXCEPT !.rewritten = TRUE, !.chunk = 0]
                PROVE  Shape(u) /\ u.chunk = 0
            BY <1>1, <5>1 DEF Shape, Fields
          <5>2. CASE p.rewritten
            BY <1>1, <4>3, <5>2, FailSame DEF verify_failed, LoaderSame
          <5>3. CASE ~p.rewritten
            BY <4>3, <5>1, <5>3, NextSame DEF verify_failed, LoaderSame
          <5> QED
            BY <5>2, <5>3
        <4> QED
          BY <2>5, <3>2, <4>1, <4>2, <4>3 DEF Readback
      <3> QED
        BY <3>1, <3>2
    <2> QED
      BY <2>2, <2>3, <2>4, <2>5
  <1> QED
    BY <1>1, <1>2, <1>3, HeldHolds DEF LInv, Progress, StartsWhatWasChecked

LEMMA GoKeeps == LInv /\ Go => LInv'
  <1> SUFFICES ASSUME LInv, Go PROVE LInv'
    OBVIOUS
  <1>1. LoaderHeld /\ Shape(p) /\ p.step = "go"
    BY DEF Go, Goes, LoaderHeld, LInv
  <1>2. ASSUME NEW u, u = [p EXCEPT !.step = "started"]
        PROVE  LoaderSame(p, u) /\ u.step = "started"
    BY <1>1, <1>2 DEF LoaderSame, Shape, Fields
  <1>3. LoaderSame(p, p') /\ p'.step \in {"go", "started", "failed"}
    BY <1>1, <1>2, RetrySame DEF Go, Goes
  <1> QED
    BY <1>1, <1>3, HeldHolds DEF LInv, Progress, StartsWhatWasChecked, LoaderSame

LEMMA StepLoads == LInv /\ [LoaderNext]_loader_vars => LInv'
  <1> SUFFICES ASSUME LInv, [LoaderNext]_loader_vars PROVE LInv'
    OBVIOUS
  <1>1. CASE UNCHANGED loader_vars
    BY <1>1 DEF loader_vars, LInv, FlashHolds, BadIsJunk, Progress, HeaderMeansWhole, HaveValid,
                StartsWhatWasChecked, IsBundle
  <1>2. CASE LoaderNext
    BY <1>2, StartKeeps, InspectKeeps, EraseKeeps, WriteKeeps, CheckKeeps, GoKeeps
       DEF LoaderNext, Step
  <1> QED
    BY <1>1, <1>2

\* Wherever commands are repeated or the power goes (blade_update.c's
\* write_offset() and its steps): a flash whose header reads as an image
\* holds that image whole, but for what the flash took wrongly; for every
\* size of the image.
THEOREM HeaderComesLast == LoaderSpec => []HeaderMeansWhole
  <1>1. LInv => HeaderMeansWhole
    BY DEF LInv
  <1> QED
    BY InitLoads, StepLoads, <1>1, PTL DEF LoaderSpec

\* A blade that was written, or that is to leave on the bundle, is started
\* (blade_update.c's UPD_GO) only when every chunk is the bundle's.
THEOREM CheckedIsStarted == LoaderSpec => []StartsWhatWasChecked
  <1>1. LInv => StartsWhatWasChecked
    BY DEF LInv
  <1> QED
    BY InitLoads, StepLoads, <1>1, PTL DEF LoaderSpec

------------------------------------------------------------------------------
(* The bus *)

\* The shape of what is written line by line.
BusShape ==
    /\ exp = [out |-> exp.out, driven |-> exp.driven, deaf |-> exp.deaf]
    /\ exp.out \in [Lines -> BOOLEAN] /\ exp.driven \in BOOLEAN
    /\ output_cache \in [Lines -> BOOLEAN] /\ wanted \in [Ports -> BOOLEAN]
    /\ core1 = [at |-> core1.at, tries |-> core1.tries, exp_fail_streak |-> core1.exp_fail_streak]

\* What would be written raises no line but those that are wanted.
CacheWanted == \A i \in Ports : output_cache[i] => wanted[i]

\* Before the lines are made outputs, the output register has been written.
OutputsFirst == core1.at = "config" => \A i \in Ports : exp.out[i] => wanted[i]

BusInv == BusShape /\ CacheWanted /\ OutputsFirst /\ RightChannel

\* What a step does to the enable lines.
Raised == \A i \in Ports : ~Enabled(i) /\ Enabled(i)' => wanted'[i]

\* The outcomes of a write: what is acknowledged has taken.
LEMMA WriteOutcomes ==
    ASSUME NEW barred, NEW w \in Writes(barred)
    PROVE  w.ok \in BOOLEAN /\ w.took \in BOOLEAN /\ (w.ok => w.took)
  BY DEF Writes

\* Where neither the expander nor its cache nor what is wanted changes, and the
\* direction is not about to be written, nothing can break.
LEMMA SameLines ==
    ASSUME BusInv, RightChannel', BusShape',
           exp'.out = exp.out, exp'.driven = exp.driven, core1'.at # "config",
           UNCHANGED <<output_cache, wanted>>
    PROVE  BusInv' /\ Raised
  BY DEF BusInv, CacheWanted, OutputsFirst, Raised, Enabled

\* Only a switch that has been acknowledged is noted as the selection.
LEMMA SelectKeeps ==
    ASSUME BackplaneAssumption, BusInv, NEW c \in Ports, tca9548a_select(c)
    PROVE  BusInv' /\ Raised
  <1>1. RightChannel'
    <2>1. CASE current = c /\ UNCHANGED <<open, current>>
      BY <2>1 DEF BusInv, RightChannel
    <2>2. CASE current # c
      <3>1. PICK h \in free_data_line(holder, open) : \E s \in Writes(Held(h, open)) :
                /\ open' = IF s.took THEN c ELSE open
                /\ current' = IF s.ok THEN c ELSE Missed
        BY <2>2 DEF tca9548a_select
      <3>2. PICK s \in Writes(Held(h, open)) :
                /\ open' = IF s.took THEN c ELSE open
                /\ current' = IF s.ok THEN c ELSE Missed
        BY <3>1
      <3>4. s.ok => s.took
        BY <3>2, WriteOutcomes
      <3>5. CASE s.ok
        BY <3>2, <3>4, <3>5 DEF RightChannel
      <3>6. CASE ~s.ok
        BY <3>2, <3>6 DEF RightChannel, Missed, BackplaneAssumption
      <3> QED
        BY <3>5, <3>6
    <2> QED
      BY <2>1, <2>2 DEF tca9548a_select
  <1>2. UNCHANGED <<exp, output_cache, core1, wanted>>
    BY DEF tca9548a_select
  <1>3. core1.at = "top" /\ BusShape'
    BY <1>2 DEF tca9548a_select, BusInv, BusShape
  <1> QED
    BY <1>1, <1>2, <1>3, SameLines

LEMMA DeselectKeeps ==
    ASSUME BackplaneAssumption, BusInv, tca9548a_deselect_all
    PROVE  BusInv' /\ Raised
  <1>1. current' \in {"off", "unknown"}
    BY DEF tca9548a_deselect_all, Missed
  <1>2. RightChannel'
    BY <1>1 DEF RightChannel, BackplaneAssumption
  <1>3. UNCHANGED <<exp, output_cache, core1, wanted>> /\ core1.at = "top"
    BY DEF tca9548a_deselect_all
  <1>4. BusShape'
    BY <1>3 DEF BusInv, BusShape
  <1> QED
    BY <1>2, <1>3, <1>4, SameLines

\* One line is written: the others as the cache has them.
LEMMA OutputBit ==
    ASSUME BusInv, NEW line \in Lines, NEW on \in BOOLEAN, NEW w \in [ok : BOOLEAN, took : BOOLEAN],
           set_output_bit(line, on, w)
    PROVE  /\ w.ok => output_cache'[line] = on
           /\ ~w.ok => output_cache' = output_cache
           /\ output_cache' \in [Lines -> BOOLEAN]
           /\ \A i \in Lines \ {line} : output_cache'[i] = output_cache[i]
           /\ exp'.driven = exp.driven /\ exp'.out \in [Lines -> BOOLEAN]
           /\ exp' = [out |-> exp'.out, driven |-> exp'.driven, deaf |-> exp'.deaf]
           /\ \/ exp'.out = exp.out
              \/ exp'.out[line] = on /\ \A i \in Lines \ {line} : exp'.out[i] = output_cache[i]
           /\ core1' = core1 /\ core1.at = "top" /\ UNCHANGED <<open, current>>
  <1> DEFINE after == [output_cache EXCEPT ![line] = on]
  <1>1. after \in [Lines -> BOOLEAN] /\ after[line] = on
        /\ \A i \in Lines \ {line} : after[i] = output_cache[i]
    BY DEF BusInv, BusShape
  <1>2. /\ exp' = IF w.took THEN [exp EXCEPT !.out = after] ELSE exp
        /\ output_cache' = IF w.ok THEN after ELSE output_cache
        /\ core1.at = "top" /\ UNCHANGED <<open, holder, current, core1>>
    BY DEF set_output_bit
  <1>3. exp = [out |-> exp.out, driven |-> exp.driven, deaf |-> exp.deaf]
        /\ exp.out \in [Lines -> BOOLEAN] /\ output_cache \in [Lines -> BOOLEAN]
    BY DEF BusInv, BusShape
  <1> HIDE DEF after
  <1>4. CASE w.took
    <2>1. exp' = [out |-> after, driven |-> exp.driven, deaf |-> exp.deaf]
      BY <1>2, <1>3, <1>4
    <2> QED
      BY <1>1, <1>2, <1>3, <2>1
  <1>5. CASE ~w.took
    BY <1>1, <1>2, <1>3, <1>5
  <1> QED
    BY <1>4, <1>5

\* A line is wanted from the moment it is asked for until its end is acknowledged.
LEMMA SetEnKeeps ==
    ASSUME BackplaneAssumption, BusInv, NEW port \in Ports, NEW on \in BOOLEAN, tca9539_set_en(port, on)
    PROVE  BusInv' /\ Raised
  <1>1. PICK w \in [ok : BOOLEAN, took : BOOLEAN] :
            set_output_bit(port, on, w) /\ wanted' = [wanted EXCEPT ![port] = on \/ (@ /\ ~w.ok)]
    BY DEF tca9539_set_en
  <1>2. port \in Lines /\ Ports \subseteq Lines
    BY DEF Lines
  <1>3. /\ w.ok => output_cache'[port] = on
        /\ ~w.ok => output_cache' = output_cache
        /\ output_cache' \in [Lines -> BOOLEAN]
        /\ \A i \in Lines \ {port} : output_cache'[i] = output_cache[i]
        /\ exp'.driven = exp.driven /\ exp'.out \in [Lines -> BOOLEAN]
        /\ exp' = [out |-> exp'.out, driven |-> exp'.driven, deaf |-> exp'.deaf]
        /\ \/ exp'.out = exp.out
           \/ exp'.out[port] = on /\ \A i \in Lines \ {port} : exp'.out[i] = output_cache[i]
        /\ core1' = core1 /\ core1.at = "top" /\ UNCHANGED <<open, current>>
    BY <1>1, <1>2, OutputBit
  <1>4. wanted' \in [Ports -> BOOLEAN] /\ wanted'[port] = (on \/ (wanted[port] /\ ~w.ok))
        /\ \A i \in Ports \ {port} : wanted'[i] = wanted[i]
    BY <1>1 DEF BusInv, BusShape
  <1>5. BusShape'
    BY <1>3, <1>4 DEF BusInv, BusShape
  <1>6. CacheWanted'
    BY <1>2, <1>3, <1>4 DEF BusInv, CacheWanted
  <1>7. OutputsFirst' /\ RightChannel'
    BY <1>3 DEF BusInv, OutputsFirst, RightChannel
  <1>8. Raised
    BY <1>2, <1>3, <1>4 DEF BusInv, CacheWanted, Raised, Enabled
  <1> QED
    BY <1>5, <1>6, <1>7, <1>8 DEF BusInv

LEMMA SetFanKeeps ==
    ASSUME BackplaneAssumption, BusInv, NEW on \in BOOLEAN, tca9539_set_fan(on)
    PROVE  BusInv' /\ Raised
  <1>1. PICK w \in [ok : BOOLEAN, took : BOOLEAN] :
            set_output_bit("fan", on, w) /\ UNCHANGED wanted
    BY DEF tca9539_set_fan
  <1>2. "fan" \in Lines /\ Ports \subseteq Lines \ {"fan"}
    BY DEF Lines, BackplaneAssumption
  <1>3. /\ output_cache' \in [Lines -> BOOLEAN]
        /\ \A i \in Lines \ {"fan"} : output_cache'[i] = output_cache[i]
        /\ exp'.driven = exp.driven /\ exp'.out \in [Lines -> BOOLEAN]
        /\ exp' = [out |-> exp'.out, driven |-> exp'.driven, deaf |-> exp'.deaf]
        /\ \/ exp'.out = exp.out
           \/ \A i \in Lines \ {"fan"} : exp'.out[i] = output_cache[i]
        /\ core1' = core1 /\ core1.at = "top" /\ UNCHANGED <<open, current>>
    BY <1>1, <1>2, OutputBit
  <1>4. BusShape'
    BY <1>1, <1>3 DEF BusInv, BusShape
  <1>5. CacheWanted'
    BY <1>1, <1>2, <1>3 DEF BusInv, CacheWanted
  <1>6. OutputsFirst' /\ RightChannel'
    BY <1>3 DEF BusInv, OutputsFirst, RightChannel
  <1>7. Raised
    BY <1>1, <1>2, <1>3 DEF BusInv, CacheWanted, Raised, Enabled
  <1> QED
    BY <1>4, <1>5, <1>6, <1>7 DEF BusInv

\* A reset leaves no line driven, and at a cold start nothing wanted.
LEMMA ResetKeeps ==
    ASSUME BackplaneAssumption, BusInv, reset_pulse
    PROVE  BusInv' /\ Raised
  <1>1. exp' = [out |-> [line \in Lines |-> TRUE], driven |-> FALSE, deaf |-> exp.deaf]
    BY DEF reset_pulse, Reset, PowerOn
  <1>2. core1' = [core1 EXCEPT !.at = "outputs"]
    BY DEF reset_pulse, Order
  <1>3. core1'.at = "outputs"
        /\ core1' = [at |-> core1'.at, tries |-> core1'.tries, exp_fail_streak |-> core1'.exp_fail_streak]
    BY <1>2 DEF BusInv, BusShape
  <1>4. CASE core1.at = "cold"
    <2>1. output_cache' = [line \in Lines |-> FALSE] /\ wanted' = [i \in Ports |-> FALSE]
      BY <1>4 DEF reset_pulse, AllLow
    <2>2. BusShape'
      BY <1>1, <1>3, <2>1 DEF BusShape
    <2>3. CacheWanted'
      BY <2>1 DEF CacheWanted, Lines
    <2> QED
      BY <1>1, <1>3, <2>2, <2>3 DEF reset_pulse, BusInv, OutputsFirst, RightChannel, Raised, Enabled
  <1>5. CASE core1.at # "cold"
    <2>1. UNCHANGED <<output_cache, wanted>>
      BY <1>5 DEF reset_pulse
    <2>2. BusShape'
      BY <1>1, <1>3, <2>1 DEF BusInv, BusShape
    <2> QED
      BY <1>1, <1>3, <2>1, <2>2 DEF reset_pulse, BusInv, CacheWanted, OutputsFirst, RightChannel,
                                    Raised, Enabled
  <1> QED
    BY <1>4, <1>5

\* The outputs are written first, and with what is wanted.
LEMMA WriteExpKeeps ==
    ASSUME BackplaneAssumption, BusInv, WriteExp
    PROVE  BusInv' /\ Raised
  <1>1. PICK w \in ExpWrites :
          /\ exp' = IF ~w.took THEN exp
                    ELSE IF core1.at = "outputs" THEN [exp EXCEPT !.out = output_cache]
                    ELSE [exp EXCEPT !.driven = TRUE]
          /\ core1' = [core1 EXCEPT
                          !.at = IF w.ok /\ core1.at = Order[1] THEN Order[2] ELSE "top"]
    BY DEF WriteExp
  <1>2. w.ok \in BOOLEAN /\ w.took \in BOOLEAN /\ (w.ok => w.took)
    BY WriteOutcomes DEF ExpWrites
  <1>3. UNCHANGED <<open, output_cache, current, wanted>>
        /\ core1.at \in {"outputs", "config"} /\ Ports \subseteq Lines
    BY DEF WriteExp, Lines
  <1>4. /\ core1' = [at |-> core1'.at, tries |-> core1'.tries, exp_fail_streak |-> core1'.exp_fail_streak]
        /\ core1'.at = IF w.ok /\ core1.at = "outputs" THEN "config" ELSE "top"
    BY <1>1 DEF BusInv, BusShape, Order
  <1>5. CASE core1.at = "outputs" /\ w.took
    <2>1. exp' = [out |-> output_cache, driven |-> exp.driven, deaf |-> exp.deaf]
      BY <1>1, <1>5 DEF BusInv, BusShape
    <2>2. BusShape'
      BY <1>3, <1>4, <2>1 DEF BusInv, BusShape
    <2> QED
      BY <1>3, <2>1, <2>2 DEF BusInv, CacheWanted, OutputsFirst, RightChannel, Raised, Enabled
  <1>6. CASE core1.at = "config" /\ w.took
    <2>1. exp' = [out |-> exp.out, driven |-> TRUE, deaf |-> exp.deaf]
      BY <1>1, <1>6 DEF BusInv, BusShape
    <2>2. BusShape'
      BY <1>3, <1>4, <2>1 DEF BusInv, BusShape
    <2>3. core1'.at = "top"
      BY <1>4, <1>6
    <2> QED
      BY <1>3, <1>6, <2>1, <2>2, <2>3 DEF BusInv, CacheWanted, OutputsFirst, RightChannel, Raised, Enabled
  <1>7. CASE ~w.took
    <2>1. exp' = exp /\ core1'.at = "top"
      BY <1>1, <1>2, <1>4, <1>7
    <2>2. BusShape'
      BY <1>3, <1>4, <2>1 DEF BusInv, BusShape
    <2> QED
      BY <1>3, <2>1, <2>2, SameLines DEF BusInv, RightChannel
  <1> QED
    BY <1>2, <1>3, <1>5, <1>6, <1>7

\* What a start adopts is wanted from then on.
LEMMA FindKeeps ==
    ASSUME BackplaneAssumption, BusInv, tca9539_find
    PROVE  BusInv' /\ Raised
  <1>1. exp' = exp /\ core1.at = "find" /\ Ports \subseteq Lines
    BY DEF tca9539_find, Lines
  <1>2. CASE /\ output_cache' = exp.out /\ wanted' = [i \in Ports |-> exp.out[i]]
             /\ core1' = [core1 EXCEPT !.at = "top"] /\ UNCHANGED <<open, current>>
    <2>1. core1'.at = "top" /\ BusShape'
      BY <1>1, <1>2 DEF BusInv, BusShape
    <2>2. CacheWanted' /\ OutputsFirst' /\ RightChannel'
      BY <1>2, <2>1 DEF BusInv, CacheWanted, OutputsFirst, RightChannel
    <2> QED
      BY <1>1, <2>1, <2>2 DEF BusInv, Raised, Enabled
  <1>3. CASE core1' = [core1 EXCEPT !.at = "cold"] /\ UNCHANGED <<open, output_cache, current, wanted>>
    <2>1. core1'.at = "cold" /\ BusShape'
      BY <1>1, <1>3 DEF BusInv, BusShape
    <2> QED
      BY <1>1, <1>3, <2>1, SameLines DEF BusInv, RightChannel
  <1>4. CASE hw_reset /\ core1' = [core1 EXCEPT !.tries = @ + 1] /\ UNCHANGED <<output_cache, wanted>>
    <2>1. core1'.at = "find" /\ BusShape'
      BY <1>1, <1>4 DEF BusInv, BusShape
    <2> QED
      BY <1>1, <1>4, <2>1, SameLines DEF hw_reset, RightChannel
  <1> QED
    BY <1>2, <1>3, <1>4 DEF tca9539_find

\* Misses and recoveries begin with nothing written.
LEMMA PresenceKeeps ==
    ASSUME BackplaneAssumption, BusInv, refresh_presence
    PROVE  BusInv' /\ Raised
  <1>1. UNCHANGED <<exp, output_cache, wanted>> /\ (Missing \/ Answering)
    BY DEF refresh_presence
  <1>2. core1'.at # "config" /\ BusShape'
    BY <1>1 DEF Missing, Answering, BusInv, BusShape
  <1>3. hw_reset \/ UNCHANGED <<open, current>>
    BY <1>1 DEF Missing, Answering
  <1>4. RightChannel'
    BY <1>3 DEF hw_reset, BusInv, RightChannel
  <1> QED
    BY <1>1, <1>2, <1>4, SameLines

\* A start knows of no selection and would write no line high.
LEMMA BootKeeps ==
    ASSUME BackplaneAssumption, BusInv, Boot, wanted' = wanted, exp'.driven => exp' = exp,
           exp' = exp \/ exp' = PowerOn
    PROVE  BusInv' /\ Raised
  <1>1. core1'.at = "init" /\ current' = "unknown" /\ output_cache' = [line \in Lines |-> FALSE]
        /\ core1' = [at |-> core1'.at, tries |-> core1'.tries, exp_fail_streak |-> core1'.exp_fail_streak]
    BY DEF Boot, FromScratch, AllLow
  <1>2. BusShape'
    <2>1. CASE exp' = exp
      BY <1>1, <2>1 DEF BusInv, BusShape
    <2>2. CASE exp' = PowerOn
      <3>1. exp' = [out |-> [line \in Lines |-> TRUE], driven |-> FALSE, deaf |-> FALSE]
        BY <2>2 DEF PowerOn
      <3>2. wanted' \in [Ports -> BOOLEAN] /\ output_cache' \in [Lines -> BOOLEAN]
        BY <1>1 DEF BusInv, BusShape
      <3> QED
        BY <1>1, <3>1, <3>2 DEF BusShape
    <2> QED
      BY <2>1, <2>2
  <1>3. CacheWanted'
    BY <1>1 DEF CacheWanted, Lines
  <1>4. RightChannel'
    BY <1>1 DEF RightChannel, BackplaneAssumption
  <1>5. Raised
    BY DEF BusInv, BusShape, Raised, Enabled
  <1> QED
    BY <1>1, <1>2, <1>3, <1>4, <1>5 DEF BusInv, OutputsFirst

\* A part that falls back to its power-on state drives nothing and selects nothing.
LEMMA GlitchKeeps ==
    ASSUME BackplaneAssumption, BusInv, Glitch
    PROVE  BusInv' /\ Raised
  <1>1. UNCHANGED <<output_cache, current, core1, wanted>> /\ core1.at = "top"
    BY DEF Glitch
  <1>2. CASE Reset /\ UNCHANGED open
    <2>1. exp' = [out |-> [line \in Lines |-> TRUE], driven |-> FALSE, deaf |-> exp.deaf]
      BY <1>2 DEF Reset, PowerOn
    <2>2. BusShape'
      BY <1>1, <2>1 DEF BusInv, BusShape
    <2> QED
      BY <1>1, <1>2, <2>1, <2>2 DEF BusInv, CacheWanted, OutputsFirst, RightChannel, Raised, Enabled
  <1>3. CASE open' = "none" /\ UNCHANGED <<exp, holder>>
    <2>1. BusShape' /\ RightChannel'
      BY <1>1, <1>3 DEF BusInv, BusShape, RightChannel
    <2> QED
      BY <1>1, <1>3, <2>1, SameLines
  <1> QED
    BY <1>2, <1>3 DEF Glitch

LEMMA DeafnessKeeps ==
    ASSUME BackplaneAssumption, BusInv, Deafness
    PROVE  BusInv' /\ Raised
  <1>1. exp' = [out |-> exp.out, driven |-> exp.driven, deaf |-> ~exp.deaf]
    BY DEF Deafness, BusInv, BusShape
  <1>2. UNCHANGED <<open, output_cache, current, core1, wanted>>
    BY DEF Deafness
  <1>3. BusShape'
    BY <1>1, <1>2 DEF BusInv, BusShape
  <1> QED
    BY <1>1, <1>2, <1>3 DEF BusInv, CacheWanted, OutputsFirst, RightChannel, Raised, Enabled

\* Steps that touch neither lines nor drivers.
LEMMA IdleKeeps ==
    ASSUME BusInv, UNCHANGED <<exp, open, output_cache, current, core1, wanted>>
    PROVE  BusInv' /\ Raised
  BY DEF BusInv, BusShape, CacheWanted, OutputsFirst, RightChannel, Raised, Enabled

LEMMA InitHolds == BackplaneAssumption /\ BackplaneInit => BusInv
  BY DEF BackplaneAssumption, BackplaneInit, BusInv, BusShape, CacheWanted, OutputsFirst, RightChannel,
         PowerOn, AllLow, FromScratch, Lines

\* Every step keeps the invariant and raises no line that is not wanted.
LEMMA StepKeeps == BusInv /\ [BackplaneNext]_backplane_vars => BusInv' /\ Raised
  <1> SUFFICES ASSUME BusInv, [BackplaneNext]_backplane_vars PROVE BusInv' /\ Raised
    OBVIOUS
  <1> USE BackplaneAssumption
  <1>1. ASSUME NEW i \in Ports, tca9548a_select(i) PROVE BusInv' /\ Raised
    BY <1>1, SelectKeeps
  <1>2. ASSUME NEW i \in Ports, NEW on \in BOOLEAN, tca9539_set_en(i, on) PROVE BusInv' /\ Raised
    BY <1>2, SetEnKeeps
  <1>3. ASSUME NEW on \in BOOLEAN, tca9539_set_fan(on) PROVE BusInv' /\ Raised
    BY <1>3, SetFanKeeps
  <1>4. CASE tca9548a_deselect_all
    BY <1>4, DeselectKeeps
  <1>5. CASE reset_pulse
    BY <1>5, ResetKeeps
  <1>6. CASE WriteExp
    BY <1>6, WriteExpKeeps
  <1>7. CASE tca9548a_init
    <2>1. core1'.at = "find" /\ BusShape'
      BY <1>7 DEF tca9548a_init, BusInv, BusShape
    <2>2. UNCHANGED <<exp, output_cache, wanted>> /\ RightChannel'
      BY <1>7 DEF tca9548a_init, hw_reset, RightChannel
    <2> QED
      BY <2>1, <2>2, SameLines
  <1>8. CASE tca9539_find
    BY <1>8, FindKeeps
  <1>9. CASE refresh_presence
    BY <1>9, PresenceKeeps
  <1>10. CASE StartOver
    BY <1>10, BootKeeps DEF StartOver
  <1>11. CASE CutOff
    BY <1>11, BootKeeps DEF CutOff
  <1>12. CASE PowerCut
    <2>1. ~exp'.driven
      BY <1>12 DEF PowerCut, PowerOn
    <2> QED
      BY <1>12, <2>1, BootKeeps DEF PowerCut
  <1>13. CASE Glitch
    BY <1>13, GlitchKeeps
  <1>14. CASE Deafness
    BY <1>14, DeafnessKeeps
  <1>15. CASE LetsGo \/ UNCHANGED backplane_vars
    BY <1>15, IdleKeeps DEF LetsGo, backplane_vars
  <1> QED
    BY <1>1, <1>2, <1>3, <1>4, <1>5, <1>6, <1>7, <1>8, <1>9, <1>10, <1>11, <1>12, <1>13,
       <1>14, <1>15 DEF BackplaneNext

\* A channel that the driver takes for selected is the only one that can be, for any
\* number of slots: what is meant for one blade does not reach another.
THEOREM SelectedIsOpen == BackplaneSpec => []RightChannel
  <1>1. BackplaneInit => BusInv
    BY InitHolds, BackplaneAssumption
  <1>2. BusInv /\ [BackplaneNext]_backplane_vars => BusInv'
    BY StepKeeps
  <1>3. BusInv => RightChannel
    BY DEF BusInv
  <1> QED
    BY <1>1, <1>2, <1>3, PTL DEF BackplaneSpec

\* No enable line goes high that nobody asked for, for any number of slots and
\* retries: starts, recoveries and failed writes included.
THEOREM NoBladeByItself == BackplaneSpec => NoneByItself
  <1>1. BackplaneInit => BusInv
    BY InitHolds, BackplaneAssumption
  <1>2. BusInv /\ [BackplaneNext]_backplane_vars => BusInv'
    BY StepKeeps
  <1>3. BusInv /\ [BackplaneNext]_backplane_vars =>
            [\A i \in Ports : ~Enabled(i) /\ Enabled(i)' => wanted'[i]]_backplane_vars
    BY StepKeeps DEF Raised
  <1> QED
    BY <1>1, <1>2, <1>3, PTL DEF BackplaneSpec, NoneByItself

------------------------------------------------------------------------------
(* What a clear brings back *)

SupType == [en : BOOLEAN, conv_pending : BOOLEAN, line_up : BOOLEAN, armed : BOOLEAN,
            cfg : Configs \cup {Off}]

\* The inductive invariant: the property, and what is needed of the types.
ClearInv ==
    /\ sup \in SupType /\ image \in Configs \cup {Off}
    /\ alerting \in BOOLEAN /\ cmds \in Seq(Commands)
    /\ ClearedComesBack

EnType == en_pin \in BOOLEAN

\* A step of the supervisor or of the stack that takes no command leaves the
\* line as it is, or has reported why not.
Calm ==
    /\ cmds' = cmds /\ image' \in Configs \cup {Off} /\ pc # "left"
    /\ alerting' \in BOOLEAN /\ (alerting => alerting')
    /\ sup' \in SupType /\ (sup.line_up => sup'.line_up \/ alerting')

LEMMA CalmClears ==
    ASSUME ClearInv, Calm
    PROVE  ClearInv'
BY DEF ClearInv, Calm, ClearedComesBack

\* Only the supervisor changes what it holds, and each of its changes keeps
\* the type.
LEMMA EnFields ==
    ASSUME NEW s \in SupType, NEW a \in BOOLEAN,
           NEW y, y = [s EXCEPT !.en = a, !.conv_pending = a]
    PROVE  y \in SupType /\ y.line_up = s.line_up
BY DEF SupType

LEMMA PendingFields ==
    ASSUME NEW s \in SupType, NEW y, y = [s EXCEPT !.conv_pending = FALSE]
    PROVE  y \in SupType /\ y.line_up = s.line_up
BY DEF SupType

LEMMA ArmedFields ==
    ASSUME NEW s \in SupType, NEW a \in BOOLEAN, NEW y, y = [s EXCEPT !.armed = a]
    PROVE  y \in SupType /\ y.line_up = s.line_up
BY DEF SupType

LEMMA CfgFields ==
    ASSUME NEW s \in SupType, NEW c \in Configs \cup {Off}, NEW y, y = [s EXCEPT !.cfg = c]
    PROVE  y \in SupType /\ y.line_up = s.line_up
BY DEF SupType

LEMMA LeavingFields ==
    ASSUME NEW s \in SupType, NEW c \in Configs \cup {Off},
           NEW y, y = [s EXCEPT !.armed = FALSE, !.cfg = c]
    PROVE  /\ y \in SupType /\ y.line_up = s.line_up /\ y.armed = FALSE /\ y.en = s.en
           /\ y.conv_pending = s.conv_pending
BY DEF SupType

LEMMA LineFields ==
    ASSUME NEW s \in SupType, NEW a \in BOOLEAN, NEW c \in Configs \cup {Off},
           NEW y, y = [s EXCEPT !.line_up = a, !.cfg = c]
    PROVE  /\ y \in SupType /\ y.line_up = a /\ y.armed = s.armed /\ y.en = s.en
           /\ y.conv_pending = s.conv_pending
BY DEF SupType

LEMMA DarkFields ==
    ASSUME NEW s \in SupType, NEW y, y = [s EXCEPT !.armed = FALSE, !.line_up = FALSE]
    PROVE  /\ y \in SupType /\ y.line_up = FALSE /\ y.armed = FALSE /\ y.en = s.en
           /\ y.conv_pending = s.conv_pending
BY DEF SupType

LEMMA FollowCalm ==
    ASSUME ClearInv, en_pin \in BOOLEAN, Follow
    PROVE  Calm
<1>1. /\ cmds' = cmds /\ image' = image /\ pc = "follow"
      /\ sup \in SupType /\ image \in Configs \cup {Off} /\ alerting \in BOOLEAN
  BY DEF Follow, input_vars, ClearInv
<1>2. CASE en_pin # sup.en
  <2>1. sup' = [sup EXCEPT !.en = en_pin, !.conv_pending = en_pin] /\ alerting' = alerting
    BY <1>2 DEF Follow
  <2>2. en_pin \in BOOLEAN  OBVIOUS
  <2>3. sup' \in SupType /\ sup'.line_up = sup.line_up
    BY ONLY <1>1, <2>1, <2>2, EnFields
  <2>4. QED  BY <1>1, <2>1, <2>3 DEF Calm
<1>3. CASE en_pin = sup.en /\ UNCHANGED <<sup, pw, alerting>>
  BY <1>1, <1>3 DEF Calm
<1>4. CASE en_pin = sup.en /\ ~UNCHANGED <<sup, pw, alerting>>
  <2>1. /\ sup' = [sup EXCEPT !.conv_pending = FALSE]
        /\ \E up \in BOOLEAN :
             /\ up => en_pin
             /\ pw' = [pw EXCEPT !.conv_ready = up, !.setpoint = 0, !.oe = FALSE, !.ref = 5000]
             /\ alerting' = (alerting \/ ~up)
    BY <1>4 DEF Follow
  <2>2. sup' \in SupType /\ sup'.line_up = sup.line_up  BY <1>1, <2>1, PendingFields
  <2>3. alerting' \in BOOLEAN /\ (alerting => alerting')  BY <1>1, <2>1
  <2>4. QED  BY <1>1, <2>2, <2>3 DEF Calm
<1>5. QED  BY <1>2, <1>3, <1>4

LEMMA TakeInputClears ==
    ASSUME ClearInv, TakeInput
    PROVE  ClearInv'
<1> DEFINE cmd == IF cmds = <<>> THEN "none" ELSE Head(cmds)
<1>1. /\ sup \in SupType /\ image \in Configs \cup {Off} /\ alerting \in BOOLEAN
      /\ cmds \in Seq(Commands) /\ image' = image /\ pc = "input"
      /\ cmds' = IF cmds = <<>> THEN cmds ELSE Tail(cmds)
  BY DEF TakeInput, ClearInv
<1>2. PICK silent \in {FALSE, ~sup.en /\ image # Off} :
        LET leaves == cmd = "RESET" \/ silent
        IN  /\ pc' = IF leaves THEN "left" ELSE "poll"
            /\ CASE leaves -> leave_for_loader
                 [] ~leaves /\ raises(cmd) -> line_raise
                 [] OTHER -> Keep
  BY DEF TakeInput
<1>3. cmds' \in Seq(Commands)  BY <1>1
<1> HIDE DEF cmd
<1>4. CASE cmd = "RESET" \/ silent
  <2>1. pc' = "left" /\ leave_for_loader  BY <1>2, <1>4
  <2>2. sup' = [sup EXCEPT !.armed = FALSE, !.cfg = image] /\ alerting' = alerting
    BY <2>1 DEF leave_for_loader
  <2>3. sup' \in SupType  BY <1>1, <2>2, LeavingFields
  <2>4. QED  BY <1>1, <1>3, <2>1, <2>2, <2>3 DEF ClearInv, ClearedComesBack
<1>5. CASE ~(cmd = "RESET" \/ silent) /\ raises(cmd)
  <2>1. line_raise  BY <1>2, <1>5
  <2>2. PICK o :
          /\ sup' = [sup EXCEPT !.line_up = o.r = "ok", !.cfg = image]
          /\ alerting' = (alerting \/ o.r # "ok")
    BY <2>1, Zenon DEF line_raise
  <2>3. /\ (o.r = "ok") \in BOOLEAN
        /\ alerting' = (alerting \/ ~(o.r = "ok"))
    BY <2>2
  <2>4. PICK ok \in BOOLEAN :
          sup' = [sup EXCEPT !.line_up = ok, !.cfg = image] /\ alerting' = (alerting \/ ~ok)
    BY <2>2, <2>3, Zenon
  <2>5. sup' \in SupType /\ sup'.line_up = ok
    <3>1. sup \in SupType /\ image \in Configs \cup {Off} /\ ok \in BOOLEAN
          /\ sup' = [sup EXCEPT !.line_up = ok, !.cfg = image]
      BY <1>1, <2>4
    <3>2. sup' \in SupType  BY ONLY <3>1 DEF SupType
    <3>3. sup'.line_up = ok  BY ONLY <3>1 DEF SupType
    <3>4. QED  BY <3>2, <3>3
  <2>6. alerting' \in BOOLEAN /\ (~ok => alerting')  BY <1>1, <2>4
  <2>7. QED  BY <1>1, <1>3, <2>5, <2>6 DEF ClearInv, ClearedComesBack
<1>6. CASE ~(cmd = "RESET" \/ silent) /\ ~raises(cmd)
  <2>1. Keep  BY <1>2, <1>6
  <2>2. /\ sup' = [sup EXCEPT !.cfg = image]
        /\ alerting' \in BOOLEAN /\ (alerting => alerting')
    BY <1>1, <2>1 DEF Keep
  <2>3. sup' \in SupType /\ sup'.line_up = sup.line_up  BY <1>1, <2>2, CfgFields
  <2>4. ClearedComesBack'
    <3> SUFFICES ASSUME ~sup.line_up, ~alerting
                 PROVE  \E i \in DOMAIN cmds' : cmds'[i] = "CLEAR_FAULTS"
      BY <2>2, <2>3 DEF ClearedComesBack
    <3>1. PICK i \in DOMAIN cmds : cmds[i] = "CLEAR_FAULTS"
      BY <1>1 DEF ClearInv, ClearedComesBack
    <3>2. cmds # <<>> /\ i \in 1..Len(cmds)  BY <1>1, <3>1
    <3>3. i # 1
      <4>1. cmd = Head(cmds) /\ cmd # "CLEAR_FAULTS"  BY <1>6, <3>2 DEF raises, cmd
      <4>2. QED  BY <1>1, <3>1, <3>2, <4>1
    <3>4. /\ i - 1 \in 1..Len(Tail(cmds)) /\ Tail(cmds)[i - 1] = cmds[i]
          /\ cmds' = Tail(cmds)
      BY <1>1, <3>2, <3>3
    <3>5. i - 1 \in DOMAIN cmds' /\ cmds'[i - 1] = "CLEAR_FAULTS"  BY <1>3, <3>1, <3>4
    <3>6. QED  BY <3>5
  <2>5. QED  BY <1>1, <1>3, <2>2, <2>3, <2>4 DEF ClearInv
<1>7. QED  BY <1>4, <1>5, <1>6

LEMMA DecideCalm ==
    ASSUME ClearInv, Decide
    PROVE  Calm
<1>1. /\ cmds' = cmds /\ image' = image /\ alerting' = alerting /\ pc = "decide"
      /\ sup \in SupType /\ image \in Configs \cup {Off} /\ alerting \in BOOLEAN
  BY DEF Decide, input_vars, ClearInv
<1>2. allowed \in BOOLEAN  BY DEF allowed
<1>3. \/ alerting /\ sup' = [sup EXCEPT !.armed = FALSE, !.line_up = FALSE]
      \/ \E a \in BOOLEAN : sup' = [sup EXCEPT !.armed = a]
      \/ UNCHANGED <<pw, sup>>
  BY <1>2, Zenon DEF Decide
<1>4. sup' \in SupType /\ (sup.line_up => sup'.line_up \/ alerting)
  <2>1. CASE alerting /\ sup' = [sup EXCEPT !.armed = FALSE, !.line_up = FALSE]
    BY <1>1, <2>1, DarkFields
  <2>2. CASE \E a \in BOOLEAN : sup' = [sup EXCEPT !.armed = a]  BY <1>1, <2>2, ArmedFields
  <2>3. CASE UNCHANGED <<pw, sup>>  BY <1>1, <2>3
  <2>4. QED  BY <1>3, <2>1, <2>2, <2>3
<1>5. QED  BY <1>1, <1>4 DEF Calm

LEMMA StackLeaves ==
    ASSUME Stack
    PROVE  Callback /\ sup' = sup /\ (alerting' = alerting \/ \E pos : VBUSEnable(pos))
<1>1. CASE NoCallback  BY <1>1 DEF NoCallback
<1>2. CASE CadSees \/ CableAnswers \/ GetPortPDOs  BY <1>2 DEF CadSees, CableAnswers, GetPortPDOs
<1>3. CASE Attach  BY <1>3 DEF Attach
<1>4. CASE HardResetOn  BY <1>4 DEF HardResetOn
<1>5. CASE Detach \/ HardResetOff  BY <1>5 DEF Detach, HardResetOff
<1>6. CASE Request  BY <1>6 DEF Request
<1>7. CASE EvaluateRequest  BY <1>7 DEF EvaluateRequest
<1>8. CASE SetupNewPower  BY <1>8 DEF SetupNewPower
<1>9. CASE HardReset  BY <1>9 DEF HardReset
<1>10. QED  BY <1>1, <1>2, <1>3, <1>4, <1>5, <1>6, <1>7, <1>8, <1>9 DEF Stack

LEMMA StackCalm ==
    ASSUME ClearInv, Stack
    PROVE  Calm
<1>1. Callback /\ sup' = sup /\ (alerting' = alerting \/ \E pos : VBUSEnable(pos))
  BY StackLeaves
<1>2. alerting \in BOOLEAN  BY DEF ClearInv
<1>3. alerting' \in BOOLEAN /\ (alerting => alerting')
  <2>1. CASE alerting' = alerting  BY <1>2, <2>1
  <2>2. CASE \E pos : VBUSEnable(pos)
    <3>1. \E o : alerting' = (alerting \/ o.r # "ok")  BY <2>2, Zenon DEF VBUSEnable
    <3>2. QED  BY <1>2, <3>1
  <2>3. QED  BY <1>1, <2>1, <2>2
<1>4. QED  BY <1>1, <1>3 DEF Callback, input_vars, Calm, ClearInv

LEMMA PushClears ==
    ASSUME ~Crowds, ClearInv, push_command
    PROVE  ClearInv'
<1>1. PICK c \in Commands :
        /\ Crowds \/ Len(cmds) < CMD_QUEUE
        /\ alerting' = (alerting /\ c # "CLEAR_FAULTS")
        /\ cmds' = IF Len(cmds) = CMD_QUEUE THEN cmds ELSE Append(cmds, c)
  BY DEF push_command
<1>2. /\ cmds \in Seq(Commands) /\ CMD_QUEUE \in Nat /\ alerting \in BOOLEAN
      /\ sup' = sup /\ image' = image /\ sup \in SupType /\ image \in Configs \cup {Off}
      /\ pc' = pc /\ pc # "left"
  BY BladeAssumption DEF ClearInv, push_command, Outside
<1>3. cmds' = Append(cmds, c)  BY <1>1, <1>2
<1>4. /\ cmds' \in Seq(Commands) /\ DOMAIN cmds' = 1..(Len(cmds) + 1)
      /\ cmds'[Len(cmds) + 1] = c /\ DOMAIN cmds = 1..Len(cmds) /\ Len(cmds) \in Nat
      /\ \A i \in 1..Len(cmds) : cmds'[i] = cmds[i]
  BY <1>2, <1>3
<1>5. alerting' \in BOOLEAN  BY <1>1
<1>6. ClearedComesBack'
  <2> SUFFICES ASSUME ~sup.line_up, ~alerting'
               PROVE  \E i \in DOMAIN cmds' : cmds'[i] = "CLEAR_FAULTS"
    BY <1>2 DEF ClearedComesBack
  <2>1. CASE c = "CLEAR_FAULTS"  BY <1>4, <2>1
  <2>2. CASE c # "CLEAR_FAULTS"
    <3>1. ~alerting  BY <1>1, <1>2, <2>2
    <3>2. PICK i \in DOMAIN cmds : cmds[i] = "CLEAR_FAULTS"
      BY <1>2, <3>1 DEF ClearInv, ClearedComesBack
    <3>3. i \in DOMAIN cmds' /\ cmds'[i] = "CLEAR_FAULTS"  BY <1>4, <3>2
    <3>4. QED  BY <3>3
  <2>3. QED  BY <2>1, <2>2
<1>7. QED  BY <1>2, <1>4, <1>5, <1>6 DEF ClearInv

LEMMA RestartClears ==
    ASSUME ClearInv, Restart
    PROVE  ClearInv'
<1>1. cmds' = <<>> /\ image' = Off
  BY DEF Restart, Started
<1>2. \E ok \in BOOLEAN :
        /\ sup' = [en |-> FALSE, conv_pending |-> FALSE, line_up |-> ok, cfg |-> Off,
                   armed |-> FALSE]
        /\ alerting' = ~ok
  <2>1. PICK o :
          /\ sup' = [en |-> FALSE, conv_pending |-> FALSE, line_up |-> o.r = "ok", cfg |-> Off,
                     armed |-> FALSE]
          /\ alerting' = (o.r # "ok")
    BY Zenon DEF Restart, Started
  <2>2. (o.r = "ok") \in BOOLEAN /\ alerting' = ~(o.r = "ok")  BY <2>1
  <2>3. QED  BY <2>1, <2>2, Zenon
<1>3. sup' \in SupType /\ alerting' \in BOOLEAN /\ (~sup'.line_up => alerting')
  <2>1. PICK ok \in BOOLEAN :
          /\ sup' = [en |-> FALSE, conv_pending |-> FALSE, line_up |-> ok, cfg |-> Off,
                     armed |-> FALSE]
          /\ alerting' = ~ok
    BY <1>2
  <2>2. sup' \in SupType  BY <2>1 DEF SupType
  <2>3. sup'.line_up = ok  BY <2>1
  <2>4. QED  BY <2>1, <2>2, <2>3
<1>4. QED  BY <1>1, <1>3 DEF ClearInv, ClearedComesBack

\* No order of faults, clears and passes of the supervisor leaves a blade
\* dark with nothing latched and no clear to come, when each command finds
\* room: the fault that darkens the port is latched until the clear, and the
\* clear is taken after it (supervisor.c, regmap.c).
THEOREM ClearsComeBack ==
    ASSUME ~Crowds
    PROVE  BladeSpec => []ClearedComesBack
<1>1. BladeInit => ClearInv
  <2> SUFFICES ASSUME BladeInit PROVE ClearInv  OBVIOUS
  <2>1. sup \in SupType /\ cmds \in Seq(Commands)  BY DEF BladeInit, SupType
  <2>2. QED  BY <2>1 DEF BladeInit, ClearInv, ClearedComesBack
<1>2. ClearInv /\ EnType /\ [BladeNext]_blade_vars => ClearInv'
  <2> SUFFICES ASSUME ClearInv, EnType, [BladeNext]_blade_vars PROVE ClearInv'
    OBVIOUS
  <2>1. CASE Follow  BY <2>1, FollowCalm, CalmClears DEF EnType
  <2>2. CASE TakeInput  BY <2>2, TakeInputClears
  <2>3. CASE Poll
    <3>1. Calm  BY <2>3 DEF Poll, Calm, ClearInv, input_vars
    <3>2. QED  BY <3>1, CalmClears
  <2>4. CASE Decide  BY <2>4, DecideCalm, CalmClears
  <2>5. CASE Stack  BY <2>5, StackCalm, CalmClears
  <2>6. CASE push_command  BY <2>6, PushClears
  <2>7. CASE EnChanges \/ Configure \/ OverVoltage \/ Slew
    <3>1. Calm
      BY <2>7 DEF EnChanges, Configure, OverVoltage, Slew, Outside, Calm, ClearInv, input_vars
    <3>2. QED  BY <3>1, CalmClears
  <2>8. CASE Restart  BY <2>8, RestartClears
  <2>9. CASE UNCHANGED blade_vars
    BY <2>9 DEF blade_vars, ClearInv, ClearedComesBack
  <2>10. QED
    BY <2>1, <2>2, <2>3, <2>4, <2>5, <2>6, <2>7, <2>8, <2>9 DEF BladeNext, Turn, FromOutside
<1>3. BladeInit => EnType
  <2>1. BladeInit => en_pin = FALSE  BY DEF BladeInit
  <2>2. QED  BY <2>1 DEF EnType
<1>4. EnType /\ [BladeNext]_blade_vars => EnType'
  <2> SUFFICES ASSUME en_pin \in BOOLEAN, [BladeNext]_blade_vars
               PROVE  en_pin' \in BOOLEAN
    BY DEF EnType
  <2>1. CASE Turn  BY <2>1 DEF Turn, Follow, TakeInput, Poll, Decide
  <2>2. CASE Stack
    <3>1. Callback  BY <2>2, StackLeaves
    <3>2. QED  BY <3>1 DEF Callback
  <2>3. CASE FromOutside
    BY <2>3 DEF FromOutside, EnChanges, Configure, push_command, OverVoltage, Slew, Restart
  <2>4. CASE UNCHANGED blade_vars  BY <2>4 DEF blade_vars
  <2>5. QED  BY <2>1, <2>2, <2>3, <2>4 DEF BladeNext
<1>5. ClearInv => ClearedComesBack  BY DEF ClearInv
<1>6. QED  BY <1>1, <1>2, <1>3, <1>4, <1>5, PTL DEF BladeSpec

------------------------------------------------------------------------------
(* The power path of a blade's firmware *)

MilliVolts == {mv \in Nat : mv <= 23000}
PwType ==
    [port_up : BOOLEAN, conv_ready : BOOLEAN, vbus_on : BOOLEAN, contracted : BOOLEAN,
     setpoint : MilliVolts, switch : BOOLEAN, gate : BOOLEAN, oe : BOOLEAN, ref : MilliVolts,
     vout : MilliVolts, threshold : Nat, trip : BOOLEAN, failed : Nat, wrong : {{}}]

\* The threshold covers where a running converter is headed, an output that
\* nothing loads included; the switch is closed only on a port that is up
\* and not tripped; and a port that is on is closed, or tripped.
Covered(x) == x.port_up /\ x.oe => x.ref <= x.threshold
Headed(x) == x.oe /\ ~x.gate => x.ref <= Highest(x.vout, 5000)
Switched(x) == (x.gate => x.port_up /\ ~x.trip) /\ (x.vbus_on => x.port_up /\ (x.gate \/ x.trip))
PathHolds(x) ==
    /\ x \in PwType /\ x.failed <= MaxFailed /\ (~en_pin => ~x.oe)
    /\ Covered(x) /\ Headed(x) /\ Switched(x)

\* A dark port, and one where the last setting has been reached.
Carries(x) == x.gate /\ x.oe
IsDark(x) == ~x.vbus_on /\ ~x.switch
Reached(x) == x.ref = x.setpoint /\ x.vout <= x.setpoint

\* What the supervisor knows of the port.
Supervised ==
    /\ pc # "left" => sup.line_up = pw.port_up
    /\ pc = "left" => ~pw.port_up /\ ~sup.armed
    /\ ~sup.armed => ~pw.gate /\ IsDark(pw)
    /\ sup.armed => sup.line_up
    /\ pc \in {"follow", "stack"} => (sup.armed => sup.en /\ pw.conv_ready)
    /\ ~sup.en => ~pw.conv_ready /\ ~sup.conv_pending
    /\ sup.conv_pending => ~pw.conv_ready

\* What the policy engine is at, when the port is on.
Powered ==
    /\ pw.vbus_on => pe \notin {"none", "cad", "hr_on"}
    /\ pw.vbus_on /\ pw.conv_ready /\ pe # "hr_off" => Reached(pw)

\* What the offer is made of.
Objects ==
    [kind : {"FIXED"}, mv : MilliVolts, ma : Nat] \cup [kind : {"AVS"}, ma_15v : Nat, ma_20v : Nat]
    \cup [kind : {"PPS"}, max_mv : MilliVolts, ma : Nat, limited : BOOLEAN]
Watts == 0..100
Caps == 0..BLADE_MAX_MV_ALL
LimitsType == [max_w : Watts, max_mv : Caps, cable_ma : Nat]
Offered ==
    /\ limits \in LimitsType /\ image \in Configs \cup {Off}
    /\ \A t \in told : t.obj \in Seq(Objects)
    /\ \A a \in asked : a.rdo \in Int
    /\ \A g \in pending : g.mv \in MilliVolts

\* What a call leaves of the path, and the inductive invariant.
Kept(x) == PathHolds(x) /\ x.failed = 0 /\ (~x.vbus_on => ~Carries(x))
PowerInv ==
    /\ pc \in {"follow", "input", "poll", "decide", "stack", "left"}
    /\ {en_pin, alerting} \subseteq BOOLEAN /\ sup \in SupType
    /\ Kept(pw) /\ Supervised /\ Powered
PathInv == PowerInv /\ Offered

\* What no call but the one that says so changes.
Alike(x, y) ==
    /\ y.port_up = x.port_up /\ y.conv_ready = x.conv_ready /\ y.vbus_on = x.vbus_on
    /\ y.setpoint = x.setpoint /\ y.switch = x.switch /\ y.threshold = x.threshold
AsTold(x, y) == y.oe = x.oe /\ y.ref = x.ref
AsIs(x, y) == y.gate = x.gate /\ y.trip = x.trip /\ y.vout = x.vout

LEMMA PathFields ==
    ASSUME NEW x \in PwType
    PROVE  /\ x.setpoint \in MilliVolts /\ x.ref \in MilliVolts /\ x.vout \in MilliVolts
           /\ x.setpoint \in Int /\ x.ref \in Int /\ x.vout \in Int /\ x.threshold \in Nat
           /\ x.failed \in Nat /\ x.wrong = {}
           /\ x.port_up \in BOOLEAN /\ x.oe \in BOOLEAN /\ x.gate \in BOOLEAN /\ x.trip \in BOOLEAN
           /\ x.vbus_on \in BOOLEAN /\ x.switch \in BOOLEAN /\ x.conv_ready \in BOOLEAN
  <1>1. /\ x.setpoint \in MilliVolts /\ x.ref \in MilliVolts /\ x.vout \in MilliVolts
        /\ x.threshold \in Nat /\ x.failed \in Nat /\ x.wrong \in {{}}
    BY DEF PwType
  <1>2. x.port_up \in BOOLEAN /\ x.oe \in BOOLEAN /\ x.gate \in BOOLEAN /\ x.trip \in BOOLEAN
           /\ x.vbus_on \in BOOLEAN /\ x.switch \in BOOLEAN /\ x.conv_ready \in BOOLEAN
    BY DEF PwType
  <1>3. MilliVolts \subseteq Int
    BY DEF MilliVolts
  <1> QED
    BY <1>1, <1>2, <1>3

LEMMA HighestOf ==
    ASSUME NEW a \in Int, NEW b \in Int
    PROVE  Highest(a, b) \in {a, b} /\ a <= Highest(a, b) /\ b <= Highest(a, b)
  BY DEF Highest

LEMMA LeastOfTwo ==
    ASSUME NEW a \in Int, NEW b \in Int
    PROVE  Least({a, b}) \in {a, b} /\ Least({a, b}) <= a /\ Least({a, b}) <= b
  <1> DEFINE S == {a, b}
  <1>1. \E m \in S : \A y \in S : m <= y
    OBVIOUS
  <1>2. PICK m \in S : \A y \in S : m <= y
    BY <1>1
  <1>3. Least(S) \in S /\ \A y \in S : Least(S) <= y
    BY <1>1 DEF Least
  <1> QED
    BY <1>3

\* The threshold for a level, which covers it.
LEMMA ThresholdCovers ==
    ASSUME NEW mv \in MilliVolts
    PROVE  ovp_threshold_mv(mv) \in Nat /\ mv <= ovp_threshold_mv(mv)
  <1>1. (mv * 120) \div 100 \in Int /\ mv <= (mv * 120) \div 100
    BY DEF MilliVolts
  <1>2. ovp_threshold_mv(mv) \in {(mv * 120) \div 100, 23000}
    BY <1>1, LeastOfTwo DEF ovp_threshold_mv
  <1>3. mv \in Int /\ mv <= 23000
    BY DEF MilliVolts
  <1> QED
    BY <1>1, <1>2, <1>3

\* A threshold that covers the output is only set.
LEMMA SetThreshold ==
    ASSUME NEW x \in PwType, NEW mv \in MilliVolts, x.port_up => x.vout <= mv
    PROVE  /\ set_threshold(x, mv) = [x EXCEPT !.threshold = ovp_threshold_mv(mv)]
           /\ set_threshold(x, mv) \in PwType
  <1>1. ovp_threshold_mv(mv) \in Nat /\ mv <= ovp_threshold_mv(mv)
    BY ThresholdCovers
  <1>6. mv \in Int
    BY DEF MilliVolts
  <1>2. x.vout \in Int /\ mv \in Int /\ x.wrong = {} /\ x.port_up \in BOOLEAN
    BY <1>6, PathFields
  <1>3. ~(x.port_up /\ x.vout > ovp_threshold_mv(mv))
    BY <1>1, <1>2
  <1>4. set_threshold(x, mv) =
          [x EXCEPT !.threshold = ovp_threshold_mv(mv), !.wrong = {}]
    BY <1>2, <1>3 DEF set_threshold
  <1>5. [x EXCEPT !.threshold = ovp_threshold_mv(mv), !.wrong = {}]
          = [x EXCEPT !.threshold = ovp_threshold_mv(mv)]
    BY <1>2 DEF PwType
  <1> QED
    BY <1>1, <1>4, <1>5 DEF PwType

\* An output that goes where a covered converter is headed trips nothing.
LEMMA SlewedThere ==
    ASSUME NEW x \in PwType, x.port_up => x.ref <= x.threshold
    PROVE  Slewed(x) = [x EXCEPT !.vout = x.ref] /\ Slewed(x) \in PwType
  <1>1. /\ x.ref \in MilliVolts /\ x.ref \in Int /\ x.threshold \in Int /\ x.wrong = {}
        /\ x.port_up \in BOOLEAN
    BY PathFields
  <1>4. ~(x.port_up /\ x.ref > x.threshold)
    BY <1>1
  <1>2. Slewed(x) = [x EXCEPT !.vout = x.ref, !.wrong = {}]
    BY <1>1, <1>4 DEF Slewed
  <1>3. [x EXCEPT !.vout = x.ref, !.wrong = {}] = [x EXCEPT !.vout = x.ref]
    BY <1>1 DEF PwType
  <1> QED
    BY <1>1, <1>2, <1>3 DEF PwType

\* A switch that opens.
LEMMA OpenedThere ==
    ASSUME NEW x \in PwType, Covered(x), ~en_pin => ~x.oe
    PROVE  Opened(x) = IF x.oe THEN [x EXCEPT !.gate = FALSE, !.vout = x.ref]
                       ELSE [x EXCEPT !.gate = FALSE]
  <1> DEFINE y == [x EXCEPT !.gate = FALSE]
  <1>1. y \in PwType /\ y.oe = x.oe /\ y.port_up = x.port_up /\ y.ref = x.ref /\ y.gate = FALSE
        /\ y.threshold = x.threshold
    BY DEF PwType
  <1>2. Opened(x) = IF y.oe /\ en_pin /\ ~y.gate THEN Slewed(y) ELSE y
    BY DEF Opened, Unloaded
  <1>3. CASE x.oe
    <2>1. Opened(x) = Slewed(y)
      BY <1>1, <1>2, <1>3
    <2>2. Slewed(y) = [y EXCEPT !.vout = y.ref]
      BY <1>1, <1>3, SlewedThere DEF Covered
    <2>3. [y EXCEPT !.vout = x.ref] = [x EXCEPT !.gate = FALSE, !.vout = x.ref]
      BY DEF PwType
    <2> QED
      BY <1>1, <1>3, <2>1, <2>2, <2>3
  <1>4. CASE ~x.oe
    BY <1>1, <1>2, <1>4
  <1> QED
    BY <1>3, <1>4

LEMMA OpenedShape ==
    ASSUME NEW x \in PwType, Covered(x), ~en_pin => ~x.oe, NEW y, y = Opened(x)
    PROVE  /\ y \in PwType /\ Alike(x, y) /\ AsTold(x, y)
           /\ y.gate = FALSE /\ y.trip = x.trip /\ y.failed = x.failed
           /\ y.vout = IF x.oe THEN x.ref ELSE x.vout
  <1>1. y = IF x.oe THEN [x EXCEPT !.gate = FALSE, !.vout = x.ref] ELSE [x EXCEPT !.gate = FALSE]
    BY OpenedThere
  <1>2. CASE x.oe
    <2>1. x \in PwType /\ y = [x EXCEPT !.gate = FALSE, !.vout = x.ref]
      BY <1>1, <1>2
    <2>2. y \in PwType
      BY ONLY <2>1 DEF PwType
    <2>3. Alike(x, y) /\ AsTold(x, y)
      BY ONLY <2>1 DEF PwType, Alike, AsTold
    <2>4. y.gate = FALSE /\ y.trip = x.trip /\ y.failed = x.failed /\ y.vout = x.ref
      BY ONLY <2>1 DEF PwType
    <2> QED
      BY <1>2, <2>2, <2>3, <2>4
  <1>3. CASE ~x.oe
    <2>1. x \in PwType /\ y = [x EXCEPT !.gate = FALSE]
      BY <1>1, <1>3
    <2>2. y \in PwType
      BY ONLY <2>1 DEF PwType
    <2>3. Alike(x, y) /\ AsTold(x, y)
      BY ONLY <2>1 DEF PwType, Alike, AsTold
    <2>4. y.gate = FALSE /\ y.trip = x.trip /\ y.failed = x.failed /\ y.vout = x.vout
      BY ONLY <2>1 DEF PwType
    <2> QED
      BY <1>3, <2>2, <2>3, <2>4
  <1> QED
    BY <1>2, <1>3

LEMMA OpenedHolds ==
    ASSUME NEW x, PathHolds(x)
    PROVE  /\ Opened(x) \in PwType /\ Alike(x, Opened(x)) /\ AsTold(x, Opened(x))
           /\ Opened(x).gate = FALSE /\ Opened(x).trip = x.trip /\ Opened(x).failed = x.failed
           /\ Opened(x).vout = IF x.oe THEN x.ref ELSE x.vout
           /\ Covered(Opened(x)) /\ Headed(Opened(x))
           /\ ~x.vbus_on \/ x.trip => PathHolds(Opened(x))
  <1>1. x \in PwType /\ Covered(x) /\ (~en_pin => ~x.oe)
    BY DEF PathHolds
  <1>3. /\ Opened(x) \in PwType /\ Alike(x, Opened(x)) /\ AsTold(x, Opened(x))
        /\ Opened(x).gate = FALSE /\ Opened(x).trip = x.trip /\ Opened(x).failed = x.failed
        /\ Opened(x).vout = IF x.oe THEN x.ref ELSE x.vout
    BY <1>1, OpenedShape
  <1>4. x.ref <= Highest(x.ref, 5000)
    BY <1>1, HighestOf, PathFields
  <1>5. Covered(Opened(x)) /\ Headed(Opened(x))
    BY <1>1, <1>3, <1>4 DEF Alike, AsTold, Covered, Headed
  <1>6. ~x.vbus_on \/ x.trip => PathHolds(Opened(x))
    BY <1>3, <1>5 DEF PathHolds, Alike, AsTold, Switched
  <1> QED
    BY <1>3, <1>5, <1>6

\* A write that takes, or fails, the part having taken it or not.
LEMMA TransferOut ==
    ASSUME NEW x, NEW y, NEW o \in Transfer(x, y)
    PROVE  \/ o.r = "ok" /\ o.p = y
           \/ /\ o.r = "bus" /\ ~(x.failed >= MaxFailed)
              /\ \E z \in {x, y} : o.p = [z EXCEPT !.failed = z.failed + 1]
  <1>1. CASE o \in Done(y)
    BY <1>1 DEF Done
  <1>2. CASE o \notin Done(y)
    <2>1. ~(x.failed >= MaxFailed) /\ o \in {[p |-> [z EXCEPT !.failed = @ + 1], r |-> "bus"] : z \in {x, y}}
      BY <1>2 DEF Transfer
    <2>2. PICK z \in {x, y} : o = [p |-> [z EXCEPT !.failed = @ + 1], r |-> "bus"]
      BY <2>1
    <2> QED
      BY <2>1, <2>2
  <1> QED
    BY <1>1, <1>2

\* What a write may leave: the part as it was, or as it is told to be, and one
\* more failure if it failed.
LEMMA TransferHolds ==
    ASSUME NEW x, NEW y, PathHolds(x), PathHolds(y), x.failed = y.failed, NEW o \in Transfer(x, y)
    PROVE  /\ PathHolds(o.p) /\ o.r \in {"ok", "bus"}
           /\ o.r = "ok" => o.p = y
           /\ o.r = "bus" => /\ o.p.failed = x.failed + 1
                             /\ \E z \in {x, y} : Alike(z, o.p) /\ AsTold(z, o.p) /\ AsIs(z, o.p)
  <1>1. CASE o.r = "ok" /\ o.p = y
    BY <1>1
  <1>2. CASE /\ o.r = "bus" /\ ~(x.failed >= MaxFailed)
             /\ \E z \in {x, y} : o.p = [z EXCEPT !.failed = z.failed + 1]
    <2>1. PICK z \in {x, y} : o.p = [z EXCEPT !.failed = z.failed + 1]
      BY <1>2
    <2>2. PathHolds(z) /\ z.failed = x.failed /\ z \in PwType
      BY DEF PathHolds
    <2>3. z.failed \in Nat /\ MaxFailed \in Nat
      BY <2>2, PathFields, BladeAssumption DEF BladeAssumption
    <2>4. z.failed + 1 \in Nat /\ z.failed + 1 <= MaxFailed
      BY <1>2, <2>2, <2>3
    <2>5. /\ o.p \in PwType /\ o.p.failed = z.failed + 1
          /\ Alike(z, o.p) /\ AsTold(z, o.p) /\ AsIs(z, o.p)
      BY <2>1, <2>2, <2>4 DEF PwType, Alike, AsTold, AsIs
    <2>6. PathHolds(o.p)
      BY <2>2, <2>4, <2>5 DEF PathHolds, Alike, AsTold, AsIs, Covered, Headed, Switched
    <2> QED
      BY <1>2, <2>2, <2>5, <2>6
  <1> QED
    BY <1>1, <1>2, TransferOut

\* The same for the converter, which hears nothing while EN is low.
LEMMA ConverterHolds ==
    ASSUME NEW x, NEW y, PathHolds(x), en_pin => PathHolds(y), x.failed = y.failed,
           NEW o \in Converter(x, y)
    PROVE  /\ PathHolds(o.p) /\ o.r \in {"ok", "bus"}
           /\ o.r = "ok" => o.p = y
           /\ o.r = "bus" => /\ o.p.failed = x.failed + 1 \/ (~en_pin /\ o.p = x)
                             /\ \E z \in {x, y} : Alike(z, o.p) /\ AsTold(z, o.p) /\ AsIs(z, o.p)
  <1>1. CASE en_pin
    <2>1. o \in Transfer(x, y)
      BY <1>1 DEF Converter
    <2> QED
      BY <1>1, <2>1, TransferHolds
  <1>2. CASE ~en_pin
    BY <1>2 DEF Converter, Stops, Alike, AsTold, AsIs
  <1> QED
    BY <1>1, <1>2

\* The converter is turned off.
LEMMA ConvOffHolds ==
    ASSUME NEW x, PathHolds(x), NEW o \in conv_mode(x, FALSE)
    PROVE  /\ PathHolds(o.p) /\ Alike(x, o.p) /\ AsIs(x, o.p) /\ o.p.ref = x.ref
           /\ o.r \in {"ok", "bus"} /\ (o.p.oe => x.oe)
           /\ ~o.p.oe \/ o.p.failed = x.failed + 1
           /\ o.p.failed \in {x.failed, x.failed + 1}
  <1> DEFINE y == [x EXCEPT !.oe = FALSE]
  <1>1. x \in PwType /\ (~en_pin => ~x.oe)
    BY DEF PathHolds
  <1>2. y \in PwType /\ Alike(x, y) /\ AsIs(x, y) /\ y.failed = x.failed /\ y.ref = x.ref /\ y.oe = FALSE
    BY <1>1 DEF PwType, Alike, AsIs
  <1>3. PathHolds(y)
    BY <1>1, <1>2 DEF PathHolds, Alike, AsIs, Covered, Headed, Switched
  <1>4. o \in Converter(x, y)
    BY DEF conv_mode
  <1> HIDE DEF y
  <1>5. /\ PathHolds(o.p) /\ o.r \in {"ok", "bus"}
        /\ o.r = "ok" => o.p = y
        /\ o.r = "bus" => /\ o.p.failed = x.failed + 1 \/ (~en_pin /\ o.p = x)
                          /\ \E z \in {x, y} : Alike(z, o.p) /\ AsTold(z, o.p) /\ AsIs(z, o.p)
    BY <1>2, <1>3, <1>4, ConverterHolds
  <1>6. PICK z \in {x, y} : Alike(z, o.p) /\ AsTold(z, o.p) /\ AsIs(z, o.p)
    BY <1>5 DEF Alike, AsTold, AsIs
  <1>7. Alike(x, o.p) /\ AsIs(x, o.p) /\ o.p.ref = x.ref /\ (o.p.oe => x.oe)
    BY <1>2, <1>6 DEF Alike, AsTold, AsIs
  <1> QED
    BY <1>1, <1>2, <1>5, <1>7

LEMMA TurnedOn ==
    ASSUME NEW x \in PwType
    PROVE  [x EXCEPT !.oe = TRUE] \in PwType /\ [x EXCEPT !.oe = TRUE].oe = TRUE
  BY DEF PwType

LEMMA SwitchedOn ==
    ASSUME NEW x \in PwType
    PROVE  [x EXCEPT !.switch = TRUE] \in PwType /\ [x EXCEPT !.switch = TRUE].switch = TRUE
  BY DEF PwType

LEMMA PoweredOn ==
    ASSUME NEW x \in PwType
    PROVE  [x EXCEPT !.vbus_on = TRUE] \in PwType /\ [x EXCEPT !.vbus_on = TRUE].vbus_on = TRUE
  BY DEF PwType

\* A switch that closes onto 5 V, or is closed, does no wrong.
LEMMA SwitchCloses ==
    ASSUME NEW x \in PwType, NEW w, w = {}, NEW y, y = [x EXCEPT !.gate = TRUE, !.wrong = w]
    PROVE  /\ y \in PwType /\ y.gate = TRUE /\ y.trip = x.trip /\ y.vout = x.vout
           /\ y.failed = x.failed /\ Alike(x, y) /\ AsTold(x, y)
  BY DEF PwType, Alike, AsTold

\* The converter is turned on, or told again to be, with its threshold in
\* place.
ConvOn(x) == conv_mode(x, TRUE)

LEMMA ConvOnHolds ==
    ASSUME NEW x, PathHolds(x), x.port_up => x.ref <= x.threshold,
           ~x.gate => x.ref <= Highest(x.vout, 5000), NEW o \in ConvOn(x)
    PROVE  /\ PathHolds(o.p) /\ Alike(x, o.p) /\ AsIs(x, o.p) /\ o.p.ref = x.ref
           /\ o.r \in {"ok", "bus"} /\ (o.r = "ok" => o.p.oe) /\ (x.oe => o.p.oe)
           /\ o.p.failed \in {x.failed, x.failed + 1}
           /\ o.r = "ok" => o.p.failed = x.failed
  <1> DEFINE y == [x EXCEPT !.oe = TRUE]
  <1>1. x \in PwType /\ (~en_pin => ~x.oe)
    BY DEF PathHolds
  <1>2. /\ y \in PwType /\ Alike(x, y) /\ AsIs(x, y)
        /\ y.failed = x.failed /\ y.ref = x.ref /\ y.oe = TRUE
    <2>1. x \in PwType
      BY <1>1
    <2>2. y \in PwType /\ y.oe = TRUE
      BY <2>1, TurnedOn
    <2> QED
      BY ONLY <2>1, <2>2 DEF PwType, Alike, AsIs
  <1>3. en_pin => PathHolds(y)
    BY <1>1, <1>2 DEF PathHolds, Alike, AsIs, Covered, Headed, Switched
  <1>4. o \in Converter(x, y)
    BY DEF conv_mode, ConvOn
  <1> HIDE DEF y
  <1>5. /\ PathHolds(o.p) /\ o.r \in {"ok", "bus"}
        /\ o.r = "ok" => o.p = y
        /\ o.r = "bus" => /\ o.p.failed = x.failed + 1 \/ (~en_pin /\ o.p = x)
                          /\ \E z \in {x, y} : Alike(z, o.p) /\ AsTold(z, o.p) /\ AsIs(z, o.p)
    BY <1>2, <1>3, <1>4, ConverterHolds
  <1>6. PICK z \in {x, y} : Alike(z, o.p) /\ AsTold(z, o.p) /\ AsIs(z, o.p)
    BY <1>5 DEF Alike, AsTold, AsIs
  <1>7. Alike(x, o.p) /\ AsIs(x, o.p) /\ o.p.ref = x.ref /\ (x.oe => o.p.oe)
    BY <1>2, <1>6 DEF Alike, AsTold, AsIs
  <1> QED
    BY <1>1, <1>2, <1>5, <1>7

\* The converter is told a voltage that the threshold covers.
LEMMA SetMvHolds ==
    ASSUME NEW x, PathHolds(x), NEW mv \in MilliVolts,
           x.port_up => mv <= x.threshold, ~x.gate => mv <= Highest(x.vout, 5000),
           NEW o \in set_mv(x, mv)
    PROVE  /\ PathHolds(o.p) /\ Alike(x, o.p) /\ AsIs(x, o.p) /\ o.p.oe = x.oe
           /\ o.r \in {"ok", "bus"} /\ (o.r = "ok" => o.p.ref = mv)
           /\ o.p.failed \in {x.failed, x.failed + 1}
           /\ o.r = "ok" => o.p.failed = x.failed
  <1> DEFINE y == [x EXCEPT !.ref = mv]
  <1>1. x \in PwType /\ (~en_pin => ~x.oe)
    BY DEF PathHolds
  <1>2. y \in PwType /\ Alike(x, y) /\ AsIs(x, y) /\ y.failed = x.failed /\ y.ref = mv /\ y.oe = x.oe
    BY <1>1 DEF PwType, Alike, AsIs
  <1>3. PathHolds(y)
    BY <1>1, <1>2 DEF PathHolds, Alike, AsIs, Covered, Headed, Switched
  <1>4. o \in Converter(x, y)
    BY DEF set_mv
  <1> HIDE DEF y
  <1>5. /\ PathHolds(o.p) /\ o.r \in {"ok", "bus"}
        /\ o.r = "ok" => o.p = y
        /\ o.r = "bus" => /\ o.p.failed = x.failed + 1 \/ (~en_pin /\ o.p = x)
                          /\ \E z \in {x, y} : Alike(z, o.p) /\ AsTold(z, o.p) /\ AsIs(z, o.p)
    BY <1>2, <1>3, <1>4, ConverterHolds
  <1>6. PICK z \in {x, y} : Alike(z, o.p) /\ AsTold(z, o.p) /\ AsIs(z, o.p)
    BY <1>5 DEF Alike, AsTold, AsIs
  <1>7. Alike(x, o.p) /\ AsIs(x, o.p) /\ o.p.oe = x.oe
    BY <1>2, <1>6 DEF Alike, AsTold, AsIs
  <1> QED
    BY <1>1, <1>2, <1>5, <1>7

LEMMA SetLimitHolds ==
    ASSUME NEW x, PathHolds(x), NEW o \in set_limit_ma(x)
    PROVE  /\ PathHolds(o.p) /\ Alike(x, o.p) /\ AsIs(x, o.p) /\ AsTold(x, o.p)
           /\ o.r \in {"ok", "bus"} /\ o.p.failed \in {x.failed, x.failed + 1}
           /\ o.r = "ok" => o.p.failed = x.failed
  <1>1. o \in Converter(x, x)
    BY DEF set_limit_ma
  <1>2. /\ PathHolds(o.p) /\ o.r \in {"ok", "bus"}
        /\ o.r = "ok" => o.p = x
        /\ o.r = "bus" => /\ o.p.failed = x.failed + 1 \/ (~en_pin /\ o.p = x)
                          /\ \E z \in {x, x} : Alike(z, o.p) /\ AsTold(z, o.p) /\ AsIs(z, o.p)
    BY <1>1, ConverterHolds
  <1> QED
    BY <1>2 DEF Alike, AsIs, AsTold

\* The TCPP02 takes its control byte: the switch opens, or closes onto 5 V.
LEMMA ControlHolds ==
    ASSUME NEW x, PathHolds(x), x.vbus_on => x.switch, x.switch => x.gate \/ x.vout = 5000,
           x.switch /\ x.oe => x.ref <= 5000, NEW o \in write_tcpp(x)
    PROVE  /\ PathHolds(o.p) /\ Alike(x, o.p) /\ AsTold(x, o.p) /\ o.p.trip = x.trip
           /\ o.r \in {"ok", "bus", "not_ready", "tripped"}
           /\ o.r = "ok" => o.p.gate = x.switch /\ o.p.failed = x.failed
           /\ ~x.switch => /\ ~o.p.gate \/ o.p.failed = x.failed + 1
                           /\ (o.p.gate => x.gate)
                           /\ o.p.vout \in {x.vout, x.ref}
           /\ x.switch => o.p.vout = x.vout
           /\ o.p.failed \in {x.failed, x.failed + 1}
  <1>1. x \in PwType /\ Switched(x) /\ Covered(x) /\ Headed(x) /\ (~en_pin => ~x.oe)
    BY DEF PathHolds
  <1>2. CASE ~x.port_up \/ tripped(x)
    <2>1. o.p = x /\ o.r \in {"not_ready", "tripped"}
      BY <1>2 DEF write_tcpp, Stops
    <2>2. ~x.gate
      BY <1>1, <1>2 DEF Switched, tripped
    <2> QED
      BY <2>1, <2>2 DEF Alike, AsTold
  <1>3. CASE x.port_up /\ ~tripped(x) /\ ~x.switch
    <2>1. o \in Transfer(x, Opened(x))
      BY <1>3 DEF write_tcpp
    <2>2. /\ Opened(x) \in PwType /\ Alike(x, Opened(x)) /\ AsTold(x, Opened(x))
          /\ Opened(x).gate = FALSE /\ Opened(x).trip = x.trip /\ Opened(x).failed = x.failed
          /\ Opened(x).vout = IF x.oe THEN x.ref ELSE x.vout
          /\ PathHolds(Opened(x))
      BY <1>3, OpenedHolds
    <2>3. /\ PathHolds(o.p) /\ o.r \in {"ok", "bus"}
          /\ o.r = "ok" => o.p = Opened(x)
          /\ o.r = "bus" => /\ o.p.failed = x.failed + 1
                            /\ \E z \in {x, Opened(x)} : Alike(z, o.p) /\ AsTold(z, o.p) /\ AsIs(z, o.p)
      BY <2>1, <2>2, TransferHolds
    <2>4. CASE o.r = "ok"
      <3>1. o.p = Opened(x)
        BY <2>3, <2>4
      <3>2. o.p.vout \in {x.vout, x.ref} /\ o.p.gate = FALSE /\ o.p.failed = x.failed
        BY <2>2, <3>1
      <3>3. o.p.gate = x.switch
        BY <1>1, <1>3, <3>2, PathFields
      <3> QED
        BY <1>3, <2>2, <2>4, <3>1, <3>2, <3>3
    <2>5. CASE o.r = "bus"
      <3>1. PICK z \in {x, Opened(x)} : Alike(z, o.p) /\ AsTold(z, o.p) /\ AsIs(z, o.p)
        BY <2>3, <2>5
      <3>2. Alike(x, o.p) /\ AsTold(x, o.p) /\ o.p.trip = x.trip
        BY <2>2, <3>1 DEF Alike, AsTold, AsIs
      <3>3. (o.p.gate => x.gate) /\ o.p.vout \in {x.vout, x.ref}
        BY <2>2, <3>1 DEF AsIs
      <3> QED
        BY <1>3, <2>3, <2>5, <3>2, <3>3
    <2> QED
      BY <2>3, <2>4, <2>5
  <1>4. CASE x.port_up /\ ~tripped(x) /\ x.switch
    <2> DEFINE w == x.wrong \cup IF ~x.gate /\ x.vout # 5000 THEN {"closed"} ELSE {}
               y == [x EXCEPT !.gate = TRUE, !.wrong = w]
    <2>1. o \in Transfer(x, y)
      BY <1>4 DEF write_tcpp
    <2>2. w = {}
      <3>1. x.wrong = {} /\ ~(~x.gate /\ x.vout # 5000)
        BY <1>1, <1>4, PathFields
      <3> QED
        BY <3>1
    <2> HIDE DEF w
    <2>5. /\ y \in PwType /\ y.gate = TRUE /\ y.trip = x.trip /\ y.vout = x.vout
          /\ y.failed = x.failed /\ Alike(x, y) /\ AsTold(x, y)
      <3>1. x \in PwType /\ w = {} /\ y = [x EXCEPT !.gate = TRUE, !.wrong = w]
        BY <1>1, <2>2
      <3> HIDE DEF y
      <3>2. y \in PwType
        BY ONLY <3>1 DEF PwType
      <3>3. y.gate = TRUE /\ y.trip = x.trip /\ y.vout = x.vout /\ y.failed = x.failed
        BY ONLY <3>1 DEF PwType
      <3>4. Alike(x, y) /\ AsTold(x, y)
        BY ONLY <3>1 DEF PwType, Alike, AsTold
      <3> QED
        BY <3>2, <3>3, <3>4
    <2> HIDE DEF y
    <2>6. ~x.trip
      BY <1>1, <1>4 DEF tripped
    <2>7. PathHolds(y)
      BY <1>1, <1>4, <2>5, <2>6 DEF PathHolds, Alike, AsTold, Covered, Headed, Switched
    <2>8. /\ PathHolds(o.p) /\ o.r \in {"ok", "bus"}
          /\ o.r = "ok" => o.p = y
          /\ o.r = "bus" => /\ o.p.failed = x.failed + 1
                            /\ \E z \in {x, y} : Alike(z, o.p) /\ AsTold(z, o.p) /\ AsIs(z, o.p)
      BY <2>1, <2>5, <2>7, TransferHolds
    <2>11. x.switch = TRUE
      BY <1>1, <1>4, PathFields
    <2>9. CASE o.r = "ok"
      <3>1. o.p = y
        BY <2>8, <2>9
      <3>2. o.p.gate = x.switch
        BY ONLY <2>5, <2>11, <3>1
      <3> QED
        BY <1>4, <2>5, <2>7, <2>9, <3>1, <3>2
    <2>10. CASE o.r = "bus"
      <3>1. PICK z \in {x, y} : Alike(z, o.p) /\ AsTold(z, o.p) /\ AsIs(z, o.p)
        BY <2>8, <2>10
      <3>2. Alike(x, o.p) /\ AsTold(x, o.p) /\ o.p.trip = x.trip /\ o.p.vout = x.vout
        BY <2>5, <3>1 DEF Alike, AsTold, AsIs
      <3> QED
        BY <1>4, <2>8, <2>10, <3>2
    <2> QED
      BY <2>8, <2>9, <2>10
  <1> QED
    BY <1>1, <1>2, <1>3, <1>4

\* A wait for the output.
LEMMA ArrivesHolds ==
    ASSUME NEW x, PathHolds(x), NEW o \in Arrives(x)
    PROVE  /\ PathHolds(o.p) /\ Alike(x, o.p) /\ AsTold(x, o.p) /\ o.p.failed = x.failed
           /\ o.r \in {"ok", "timeout", "tripped"}
           /\ o.r = "ok" => o.p.vout = x.ref /\ o.p.gate = x.gate
           /\ o.r = "timeout" => o.p = x
           /\ o.r = "tripped" => ~o.p.gate \/ o.p = x
  <1>1. x \in PwType /\ Switched(x) /\ Covered(x) /\ Headed(x) /\ (~en_pin => ~x.oe)
    BY DEF PathHolds
  <1>2. CASE o.p = x /\ o.r \in {"timeout", "tripped"}
    BY <1>2 DEF Alike, AsTold
  <1>3. CASE x.oe /\ en_pin /\ o.p = Slewed(x) /\ o.r = "ok"
    <2>1. x \in PwType /\ o.p = Slewed(x)
      BY <1>1, <1>3
    <2>2. Slewed(x) = [x EXCEPT !.vout = x.ref] /\ Slewed(x) \in PwType
      BY <1>1, <1>3, SlewedThere DEF Covered
    <2>3. /\ Alike(x, o.p) /\ AsTold(x, o.p) /\ o.p.failed = x.failed /\ o.p.vout = x.ref
          /\ o.p.gate = x.gate /\ o.p.trip = x.trip
      BY <2>1, <2>2 DEF PwType, Alike, AsTold
    <2>4. x.ref <= Highest(x.ref, 5000)
      BY <1>1, HighestOf, PathFields
    <2>5. PathHolds(o.p)
      BY <1>3, <2>2, <2>3, <2>4 DEF PathHolds, Alike, AsTold, Covered, Headed, Switched
    <2> QED
      BY <1>3, <2>3, <2>5
  <1>4. CASE o.p = Opened([x EXCEPT !.trip = TRUE]) /\ o.r = "tripped" /\ ~tripped(x)
    <2> DEFINE y == [x EXCEPT !.trip = TRUE]
    <2>1. y \in PwType
      BY <1>1 DEF PwType
    <2>2. y.trip = TRUE
      BY <1>1 DEF PwType
    <2>3. Alike(x, y) /\ AsTold(x, y) /\ y.vout = x.vout /\ y.gate = x.gate /\ y.failed = x.failed
      BY <1>1 DEF PwType, Alike, AsTold
    <2> HIDE DEF y
    <2>4. Covered(y) /\ (~en_pin => ~y.oe)
      BY <1>1, <2>3 DEF Covered, Alike, AsTold
    <2>6. /\ Opened(y) \in PwType /\ Alike(y, Opened(y)) /\ AsTold(y, Opened(y))
          /\ Opened(y).gate = FALSE /\ Opened(y).failed = y.failed
          /\ Opened(y).vout = IF y.oe THEN y.ref ELSE y.vout
      BY <2>1, <2>4, OpenedShape
    <2>7. Opened(y).trip = TRUE
      BY <2>1, <2>2, <2>4, OpenedShape
    <2>8. y.ref <= Highest(y.ref, 5000)
      BY <2>1, HighestOf, PathFields
    <2>9. PathHolds(Opened(y))
      BY <1>1, <2>3, <2>4, <2>6, <2>7, <2>8
         DEF PathHolds, Alike, AsTold, Covered, Headed, Switched
    <2>10. o.p = Opened(y)
      BY <1>4 DEF y
    <2>11. Alike(x, o.p) /\ AsTold(x, o.p) /\ o.p.failed = x.failed /\ ~o.p.gate
      BY <2>3, <2>6, <2>10 DEF Alike, AsTold
    <2> QED
      BY <1>4, <2>9, <2>10, <2>11
  <1>5. \/ o.p = x /\ o.r \in {"timeout", "tripped"}
        \/ x.oe /\ en_pin /\ o.p = Slewed(x) /\ o.r = "ok"
        \/ o.p = Opened([x EXCEPT !.trip = TRUE]) /\ o.r = "tripped" /\ ~tripped(x)
    BY DEF Arrives, Stops, Done
  <1> QED
    BY <1>2, <1>3, <1>4, <1>5

------------------------------------------------------------------------------
(* The calls of the power path *)

\* What every call leaves, and what it leaves of a port that is off.
Leaves(x, y) ==
    PathHolds(y) /\ y.port_up = x.port_up /\ y.conv_ready = x.conv_ready

LEMMA DarkHolds ==
    ASSUME NEW x, PathHolds(x)
    PROVE  /\ Leaves(x, Dark(x)) /\ IsDark(Dark(x)) /\ Dark(x).setpoint = 0
           /\ AsTold(x, Dark(x)) /\ AsIs(x, Dark(x)) /\ Dark(x).failed = x.failed
  <1>1. x \in PwType
    BY DEF PathHolds
  <1>2. 0 \in MilliVolts
    BY DEF MilliVolts
  <1>3. Dark(x) \in PwType
    BY ONLY <1>1, <1>2 DEF Dark, PwType
  <1>4. /\ Dark(x).vbus_on = FALSE /\ Dark(x).switch = FALSE /\ Dark(x).setpoint = 0
        /\ Dark(x).port_up = x.port_up /\ Dark(x).conv_ready = x.conv_ready
        /\ Dark(x).threshold = x.threshold /\ Dark(x).failed = x.failed
    BY ONLY <1>1 DEF Dark, PwType
  <1>5. AsTold(x, Dark(x)) /\ AsIs(x, Dark(x))
    BY ONLY <1>1 DEF Dark, PwType, AsTold, AsIs
  <1>6. PathHolds(Dark(x))
    BY <1>3, <1>4, <1>5 DEF PathHolds, Covered, Headed, Switched, AsTold, AsIs
  <1> QED
    BY <1>4, <1>5, <1>6 DEF Leaves, IsDark

\* A write of the control byte of a port that is dark opens its switch,
\* unless it fails.
LEMMA DarkControl ==
    ASSUME NEW x, PathHolds(x), IsDark(x), NEW o \in write_tcpp(x)
    PROVE  /\ Leaves(x, o.p) /\ IsDark(o.p) /\ o.p.setpoint = x.setpoint
           /\ AsTold(x, o.p) /\ (o.p.gate => x.gate)
           /\ ~o.p.gate \/ o.p.failed = x.failed + 1
           /\ o.p.failed \in {x.failed, x.failed + 1}
           /\ o.r = "ok" => ~o.p.gate
  <1>1. x.switch = FALSE /\ ~x.vbus_on
    BY PathFields DEF IsDark, PathHolds
  <1>2. /\ PathHolds(o.p) /\ Alike(x, o.p) /\ AsTold(x, o.p)
        /\ o.r = "ok" => o.p.gate = x.switch
        /\ ~x.switch => /\ ~o.p.gate \/ o.p.failed = x.failed + 1
                        /\ (o.p.gate => x.gate)
        /\ o.p.failed \in {x.failed, x.failed + 1}
    BY <1>1, ControlHolds
  <1> QED
    BY <1>1, <1>2 DEF Alike, Leaves, IsDark

LEMMA ShutdownHolds ==
    ASSUME MaxFailed <= 1, NEW x, PathHolds(x), NEW o \in power_shutdown(x)
    PROVE  /\ Leaves(x, o.p) /\ IsDark(o.p)
           /\ x.conv_ready => ~Carries(o.p)
           /\ ~o.p.gate \/ o.p.failed = 1
  <1>1. PICK c \in IF x.conv_ready THEN conv_mode(x, FALSE) ELSE Done(x) :
             o \in IF c.p.port_up /\ ~tripped(c.p) THEN write_tcpp(Dark(c.p)) ELSE Done(Dark(c.p))
    BY DEF power_shutdown, Regardless
  <1>2. x \in PwType /\ x.failed \in Nat /\ MaxFailed \in Nat
    BY PathFields, BladeAssumption DEF PathHolds, BladeAssumption
  <1>3. /\ Leaves(x, c.p) /\ AsIs(x, c.p) /\ (x.conv_ready => ~c.p.oe \/ c.p.failed = x.failed + 1)
        /\ c.p.failed \in {x.failed, x.failed + 1}
    <2>1. CASE x.conv_ready
      <3>1. c \in conv_mode(x, FALSE)
        BY <1>1, <2>1
      <3> QED
        BY <3>1, ConvOffHolds DEF Leaves, Alike
    <2>2. CASE ~x.conv_ready
      BY <1>1, <2>2 DEF Done, Leaves, AsIs
    <2> QED
      BY <2>1, <2>2
  <1>4. /\ Leaves(c.p, Dark(c.p)) /\ IsDark(Dark(c.p)) /\ AsTold(c.p, Dark(c.p))
        /\ AsIs(c.p, Dark(c.p)) /\ Dark(c.p).failed = c.p.failed
    BY <1>3, DarkHolds DEF Leaves
  <1>5. CASE c.p.port_up /\ ~tripped(c.p)
    <2>1. o \in write_tcpp(Dark(c.p))
      BY <1>1, <1>5
    <2>2. /\ Leaves(Dark(c.p), o.p) /\ IsDark(o.p) /\ AsTold(Dark(c.p), o.p)
          /\ ~o.p.gate \/ o.p.failed = Dark(c.p).failed + 1
          /\ o.p.failed \in {Dark(c.p).failed, Dark(c.p).failed + 1}
      BY <1>4, <2>1, DarkControl DEF Leaves
    <2>3. o.p.failed <= MaxFailed /\ o.p.failed \in Nat
      BY <2>2, PathFields DEF Leaves, PathHolds
    <2>4. ~o.p.gate \/ o.p.failed = 1
      BY <1>2, <1>3, <1>4, <2>2, <2>3
    <2>5. x.conv_ready /\ o.p.gate => ~c.p.oe
      BY <1>2, <1>3, <1>4, <2>2, <2>3
    <2> QED
      BY <1>3, <1>4, <2>2, <2>4, <2>5 DEF Leaves, AsTold, Carries
  <1>6. CASE ~(c.p.port_up /\ ~tripped(c.p))
    <2>1. o.p = Dark(c.p)
      BY <1>1, <1>6 DEF Done
    <2>2. ~c.p.gate
      BY <1>3, <1>6 DEF Leaves, PathHolds, Switched, tripped
    <2> QED
      BY <1>3, <1>4, <2>1, <2>2 DEF Leaves, AsIs, Carries
  <1> QED
    BY <1>5, <1>6

\* The call that leaves a port disarmed leaves its switch open: one write
\* may fail and there is a second.
LEMMA DisarmHolds ==
    ASSUME MaxFailed <= 1, NEW x, PathHolds(x), NEW o \in disarm(x)
    PROVE  Leaves(x, o.p) /\ IsDark(o.p) /\ ~o.p.gate
  <1>1. PICK s \in power_shutdown(x) : o \in write_tcpp(s.p)
    BY DEF disarm, Regardless
  <1>2. Leaves(x, s.p) /\ IsDark(s.p) /\ (~s.p.gate \/ s.p.failed = 1)
    BY ShutdownHolds
  <1>3. /\ Leaves(s.p, o.p) /\ IsDark(o.p) /\ (o.p.gate => s.p.gate)
        /\ ~o.p.gate \/ o.p.failed = s.p.failed + 1
    BY <1>1, <1>2, DarkControl DEF Leaves
  <1>4. o.p.failed <= MaxFailed /\ o.p.failed \in Nat /\ MaxFailed \in Nat
    BY <1>3, PathFields, BladeAssumption DEF Leaves, PathHolds, BladeAssumption
  <1>5. ~o.p.gate
    BY <1>2, <1>3, <1>4
  <1> QED
    BY <1>2, <1>3, <1>5 DEF Leaves

LEMMA FreshHolds ==
    ASSUME NEW x, PathHolds(x)
    PROVE  /\ PathHolds(Fresh(x)) /\ Alike(x, Fresh(x)) /\ AsTold(x, Fresh(x)) /\ AsIs(x, Fresh(x))
           /\ Fresh(x).failed = 0
  <1>1. x \in PwType /\ MaxFailed \in Nat
    BY BladeAssumption DEF PathHolds, BladeAssumption
  <1>2. Fresh(x) \in PwType /\ Fresh(x).failed = 0
    BY ONLY <1>1 DEF Fresh, PwType
  <1>3. Alike(x, Fresh(x)) /\ AsTold(x, Fresh(x)) /\ AsIs(x, Fresh(x))
    BY ONLY <1>1 DEF Fresh, PwType, Alike, AsTold, AsIs
  <1> QED
    BY <1>1, <1>2, <1>3
       DEF PathHolds, Covered, Headed, Switched, Alike, AsTold, AsIs

\* The line goes down.
LEMMA PortDownHolds ==
    ASSUME NEW x, PathHolds(x)
    PROVE  /\ PathHolds(power_port_down(x)) /\ IsDark(power_port_down(x))
           /\ power_port_down(x).port_up = FALSE /\ ~power_port_down(x).gate
           /\ power_port_down(x).conv_ready = x.conv_ready
           /\ power_port_down(x).failed = x.failed
  <1> DEFINE y == [x EXCEPT !.port_up = FALSE, !.vbus_on = FALSE, !.switch = FALSE]
  <1>1. x \in PwType /\ (~en_pin => ~x.oe) /\ x.failed <= MaxFailed
    BY DEF PathHolds
  <1>2. y \in PwType
    <2>1. x \in PwType
      BY <1>1
    <2> QED
      BY ONLY <2>1 DEF PwType
  <1>3. /\ y.port_up = FALSE /\ y.vbus_on = FALSE /\ y.switch = FALSE /\ y.oe = x.oe
        /\ y.conv_ready = x.conv_ready /\ y.failed = x.failed
    <2>1. x \in PwType
      BY <1>1
    <2> QED
      BY ONLY <2>1 DEF PwType
  <1>4. power_port_down(x) = Opened(y)
    BY DEF power_port_down
  <1> HIDE DEF y
  <1>5. Covered(y) /\ (~en_pin => ~y.oe)
    BY <1>1, <1>3 DEF Covered
  <1>6. /\ Opened(y) \in PwType /\ Alike(y, Opened(y)) /\ AsTold(y, Opened(y))
        /\ Opened(y).gate = FALSE /\ Opened(y).failed = y.failed
        /\ Opened(y).vout = IF y.oe THEN y.ref ELSE y.vout
    BY <1>2, <1>5, OpenedShape
  <1>7. y.ref <= Highest(y.ref, 5000)
    BY <1>2, HighestOf, PathFields
  <1>8. PathHolds(Opened(y))
    BY <1>1, <1>3, <1>6, <1>7 DEF PathHolds, Alike, AsTold, Covered, Headed, Switched
  <1> QED
    BY <1>3, <1>4, <1>6, <1>8 DEF Alike, IsDark

LEMMA VoltLevels == 0 \in MilliVolts /\ 5000 \in MilliVolts /\ MilliVolts \subseteq Int
  BY DEF MilliVolts

\* A threshold that is set where it covers what the converter is told keeps
\* the path.
LEMMA ThresholdHolds ==
    ASSUME NEW x, PathHolds(x), NEW mv \in MilliVolts, x.port_up => x.vout <= mv,
           x.oe => x.ref <= mv
    PROVE  /\ Leaves(x, set_threshold(x, mv)) /\ AsTold(x, set_threshold(x, mv))
           /\ AsIs(x, set_threshold(x, mv)) /\ mv <= set_threshold(x, mv).threshold
           /\ set_threshold(x, mv).vbus_on = x.vbus_on
           /\ set_threshold(x, mv).switch = x.switch
           /\ set_threshold(x, mv).setpoint = x.setpoint
           /\ set_threshold(x, mv).failed = x.failed
  <1> DEFINE t == ovp_threshold_mv(mv)
             y == [x EXCEPT !.threshold = t]
  <1>1. x \in PwType /\ x.ref \in Int /\ mv \in Int
    BY PathFields, VoltLevels DEF PathHolds
  <1>2. t \in Nat /\ mv <= t
    BY ThresholdCovers
  <1>3. set_threshold(x, mv) = y /\ y \in PwType
    BY <1>1, SetThreshold
  <1> HIDE DEF t
  <1>4. /\ y.threshold = t /\ AsTold(x, y) /\ AsIs(x, y) /\ y.vbus_on = x.vbus_on
        /\ y.switch = x.switch /\ y.setpoint = x.setpoint /\ y.failed = x.failed
        /\ y.port_up = x.port_up /\ y.conv_ready = x.conv_ready
    BY <1>1 DEF PwType, AsTold, AsIs
  <1> HIDE DEF y
  <1>5. Covered(y)
    BY <1>1, <1>2, <1>4 DEF Covered, AsTold
  <1>6. PathHolds(y)
    BY <1>3, <1>4, <1>5 DEF PathHolds, Headed, Switched, AsTold, AsIs
  <1> QED
    BY <1>2, <1>3, <1>4, <1>6 DEF Leaves

\* The threshold follows the output: it covers a converter that runs onto an
\* open switch.
LEMMA CoverHolds ==
    ASSUME NEW x, PathHolds(x), ~x.gate
    PROVE  /\ Leaves(x, cover_vout(x)) /\ AsTold(x, cover_vout(x)) /\ AsIs(x, cover_vout(x))
           /\ cover_vout(x).vbus_on = x.vbus_on /\ cover_vout(x).switch = x.switch
           /\ cover_vout(x).setpoint = x.setpoint /\ cover_vout(x).failed = x.failed
  <1>1. x \in PwType /\ Headed(x) /\ x.vout \in Int
    BY PathFields DEF PathHolds
  <1>2. Highest(x.vout, 5000) \in MilliVolts /\ x.vout <= Highest(x.vout, 5000)
    <2>1. x.vout \in MilliVolts /\ 5000 \in MilliVolts
      BY <1>1, PathFields, VoltLevels
    <2> QED
      BY <1>1, <2>1, HighestOf
  <1>3. x.oe => x.ref <= Highest(x.vout, 5000)
    BY <1>1 DEF Headed
  <1> QED
    BY <1>2, <1>3, ThresholdHolds DEF cover_vout

\* The line comes up, or is held low.
LEMMA PortUpHolds ==
    ASSUME NEW x, PathHolds(x), ~x.gate, NEW o \in power_port_up(x)
    PROVE  /\ PathHolds(o.p) /\ IsDark(o.p) /\ ~o.p.gate /\ o.p.port_up = TRUE
           /\ o.p.conv_ready = x.conv_ready
  <1> DEFINE c == cover_vout(x)
             up == [c EXCEPT !.trip = FALSE, !.port_up = TRUE, !.vbus_on = FALSE,
                             !.switch = FALSE, !.gate = FALSE]
  <1>1. /\ PathHolds(c) /\ AsTold(x, c) /\ AsIs(x, c) /\ c.conv_ready = x.conv_ready
        /\ Highest(x.vout, 5000) <= c.threshold /\ c \in PwType
    <2>1. x.vout \in MilliVolts /\ 5000 \in MilliVolts /\ x.vout \in Int /\ Headed(x)
      BY PathFields, VoltLevels DEF PathHolds
    <2>2. Highest(x.vout, 5000) \in MilliVolts /\ x.vout <= Highest(x.vout, 5000)
      BY <2>1, HighestOf
    <2>3. x.oe => x.ref <= Highest(x.vout, 5000)
      BY <2>1 DEF Headed
    <2> QED
      BY <2>2, <2>3, ThresholdHolds DEF cover_vout, Leaves, PathHolds
  <1>2. o \in write_tcpp(up) \cup Stops(up, "tripped") \cup Stops(up, "bus")
    BY DEF power_port_up
  <1> HIDE DEF c
  <1>11. c \in PwType
    BY <1>1
  <1>3. up \in PwType
    BY ONLY <1>11 DEF PwType
  <1>4. /\ up.trip = FALSE /\ up.port_up = TRUE /\ up.vbus_on = FALSE /\ up.switch = FALSE
        /\ up.gate = FALSE
    BY ONLY <1>11 DEF PwType
  <1>5. /\ AsTold(c, up) /\ up.vout = c.vout /\ up.threshold = c.threshold
        /\ up.conv_ready = c.conv_ready /\ up.failed = c.failed
    BY ONLY <1>11 DEF PwType, AsTold
  <1> HIDE DEF up
  <1>6. up.oe => up.ref <= Highest(up.vout, 5000)
    BY <1>1, <1>5 DEF PathHolds, Headed, AsTold, AsIs
  <1>7. Covered(up)
    <2>1. up.ref \in Int /\ up.vout \in Int /\ up.threshold \in Int
      BY <1>3, PathFields
    <2>2. Highest(up.vout, 5000) \in Int /\ Highest(up.vout, 5000) <= up.threshold
      BY <1>1, <1>5, <2>1, HighestOf DEF AsIs
    <2> QED
      BY <1>6, <2>1, <2>2 DEF Covered
  <1>8. PathHolds(up) /\ IsDark(up)
    BY <1>1, <1>3, <1>4, <1>5, <1>6, <1>7 DEF PathHolds, Headed, Switched, AsTold, IsDark
  <1>9. CASE o \in write_tcpp(up)
    BY <1>1, <1>4, <1>5, <1>8, <1>9, DarkControl DEF Leaves
  <1>10. CASE o \in Stops(up, "tripped") \cup Stops(up, "bus")
    BY <1>1, <1>4, <1>5, <1>8, <1>10 DEF Stops
  <1> QED
    BY <1>2, <1>9, <1>10

\* VBUS goes off, and nothing is carried, whichever one write fails.
LEMMA VbusOffHolds ==
    ASSUME MaxFailed <= 1, NEW x, PathHolds(x), x.conv_ready, NEW o \in power_vbus_off(x)
    PROVE  Leaves(x, o.p) /\ IsDark(o.p) /\ ~Carries(o.p)
  <1> DEFINE late(z) == [p |-> IF x.setpoint = 0 THEN cover_vout(z) ELSE z, r |-> "failed"]
             discharged(z, c) ==
               {late(w.p) : w \in write_tcpp(z)}
               \cup {[p |-> cover_vout(w.p), r |-> "ok"]
                      : w \in {v \in write_tcpp(z) : v.r = "ok" /\ c.r = "ok"}}
  <1>1. PICK c \in conv_mode(x, FALSE) :
          \E d \in write_tcpp(Dark(c.p)) :
            o \in IF d.r = "ok" THEN discharged(d.p, c) ELSE {d}
    <2>1. o \in UNION {UNION {IF d.r = "ok" THEN discharged(d.p, c) ELSE {d}
                              : d \in write_tcpp(Dark(c.p))}
                       : c \in IF x.conv_ready THEN conv_mode(x, FALSE) ELSE Done(x)}
      BY DEF power_vbus_off, After
    <2> HIDE DEF discharged
    <2>2. PICK c \in conv_mode(x, FALSE) :
             o \in UNION {IF d.r = "ok" THEN discharged(d.p, c) ELSE {d}
                          : d \in write_tcpp(Dark(c.p))}
      BY <2>1
    <2>3. PICK d \in write_tcpp(Dark(c.p)) : o \in IF d.r = "ok" THEN discharged(d.p, c) ELSE {d}
      BY <2>2
    <2> QED
      BY <2>3
  <1>2. PICK d \in write_tcpp(Dark(c.p)) :
          o \in IF d.r = "ok" THEN discharged(d.p, c) ELSE {d}
    BY <1>1
  <1>3. x \in PwType /\ x.failed \in Nat /\ MaxFailed \in Nat
    BY PathFields, BladeAssumption DEF PathHolds, BladeAssumption
  <1>4. Leaves(x, c.p) /\ (~c.p.oe \/ c.p.failed = x.failed + 1)
    BY ConvOffHolds DEF Leaves, Alike
  <1>5. /\ Leaves(c.p, Dark(c.p)) /\ IsDark(Dark(c.p)) /\ AsTold(c.p, Dark(c.p))
        /\ Dark(c.p).failed = c.p.failed
    BY <1>4, DarkHolds DEF Leaves
  <1>6. /\ Leaves(Dark(c.p), d.p) /\ IsDark(d.p) /\ AsTold(Dark(c.p), d.p)
        /\ ~d.p.gate \/ d.p.failed = Dark(c.p).failed + 1
        /\ d.r = "ok" => ~d.p.gate
    BY <1>2, <1>5, DarkControl DEF Leaves
  <1>7. ~Carries(d.p)
    <2>1. d.p.failed <= MaxFailed
      BY <1>6 DEF Leaves, PathHolds
    <2> QED
      BY <1>3, <1>4, <1>5, <1>6, <2>1 DEF AsTold, Carries
  <1>8. CASE d.r # "ok"
    <2>1. o = d
      BY <1>2, <1>8
    <2> QED
      BY <2>1, <1>4, <1>5, <1>6, <1>7 DEF Leaves
  <1>9. CASE d.r = "ok"
    <2>1. o \in discharged(d.p, c)
      BY <1>2, <1>9
    <2>6. PICK w \in write_tcpp(d.p) : o.p \in {w.p, cover_vout(w.p)}
      BY <2>1
    <2>2. Leaves(d.p, w.p) /\ IsDark(w.p) /\ ~w.p.gate
      BY <1>6, <1>9, DarkControl DEF Leaves
    <2>4. /\ Leaves(w.p, cover_vout(w.p)) /\ AsIs(w.p, cover_vout(w.p))
          /\ cover_vout(w.p).vbus_on = w.p.vbus_on /\ cover_vout(w.p).switch = w.p.switch
      BY <2>2, CoverHolds DEF Leaves
    <2>5. Leaves(w.p, o.p) /\ IsDark(o.p) /\ ~o.p.gate
      BY <2>2, <2>6, <2>4 DEF Leaves, IsDark, AsIs
    <2> QED
      BY <1>4, <1>5, <1>6, <2>2, <2>5 DEF Leaves, Carries
  <1> QED
    BY <1>8, <1>9

\* A field of the path that a call sets by itself.
LEMMA SetpointHolds ==
    ASSUME NEW x, PathHolds(x), NEW mv \in MilliVolts, NEW y, y = [x EXCEPT !.setpoint = mv]
    PROVE  /\ Leaves(x, y) /\ AsTold(x, y) /\ AsIs(x, y) /\ y.setpoint = mv
           /\ y.vbus_on = x.vbus_on /\ y.switch = x.switch /\ y.threshold = x.threshold
           /\ y.failed = x.failed
  <1>1. x \in PwType /\ y = [x EXCEPT !.setpoint = mv]
    BY DEF PathHolds
  <1>2. y \in PwType /\ y.setpoint = mv
    BY ONLY <1>1, mv \in MilliVolts DEF PwType
  <1>3. /\ AsTold(x, y) /\ AsIs(x, y) /\ y.vbus_on = x.vbus_on /\ y.switch = x.switch
        /\ y.threshold = x.threshold /\ y.failed = x.failed /\ y.port_up = x.port_up
        /\ y.conv_ready = x.conv_ready
    BY ONLY <1>1 DEF PwType, AsTold, AsIs
  <1>4. PathHolds(y)
    BY <1>2, <1>3 DEF PathHolds, Covered, Headed, Switched, AsTold, AsIs
  <1> QED
    BY <1>2, <1>3, <1>4 DEF Leaves

LEMMA ContractedHolds ==
    ASSUME NEW x, PathHolds(x), NEW b \in BOOLEAN, NEW y, y = [x EXCEPT !.contracted = b]
    PROVE  PathHolds(y) /\ Alike(x, y) /\ AsTold(x, y) /\ AsIs(x, y) /\ y.failed = x.failed
  <1>1. x \in PwType /\ y = [x EXCEPT !.contracted = b]
    BY DEF PathHolds
  <1>2. y \in PwType
    BY ONLY <1>1, b \in BOOLEAN DEF PwType
  <1>3. Alike(x, y) /\ AsTold(x, y) /\ AsIs(x, y) /\ y.failed = x.failed
    BY ONLY <1>1 DEF PwType, Alike, AsTold, AsIs
  <1>4. PathHolds(y)
    BY <1>2, <1>3 DEF PathHolds, Covered, Headed, Switched, Alike, AsTold, AsIs
  <1> QED
    BY <1>3, <1>4

\* The switch closes onto 5 V, and the port is on.
LEMMA CloseHolds ==
    ASSUME NEW z, PathHolds(z), ~z.vbus_on, z.ref = 5000, z.vout = 5000, z.setpoint = 5000,
           NEW c \in write_tcpp([set_threshold(z, 5000) EXCEPT !.switch = TRUE]),
           NEW o, IF c.r = "ok" THEN o \in Arrives([c.p EXCEPT !.vbus_on = TRUE]) ELSE o = c
    PROVE  /\ Leaves(z, o.p)
           /\ o.r = "ok" => o.p.vbus_on /\ Reached(o.p)
  <1> DEFINE t == set_threshold(z, 5000)
             w == [t EXCEPT !.switch = TRUE]
             y == [c.p EXCEPT !.vbus_on = TRUE]
  <1>1. /\ Leaves(z, t) /\ AsTold(z, t) /\ AsIs(z, t) /\ 5000 <= t.threshold
        /\ t.vbus_on = z.vbus_on /\ t.setpoint = z.setpoint /\ t.failed = z.failed
    BY ThresholdHolds, VoltLevels
  <1>2. t \in PwType
    BY <1>1 DEF Leaves, PathHolds
  <1>3. w \in PwType /\ w.switch = TRUE
    BY <1>2, SwitchedOn
  <1>4. /\ AsTold(t, w) /\ AsIs(t, w) /\ w.vbus_on = t.vbus_on /\ w.setpoint = t.setpoint
        /\ w.threshold = t.threshold /\ w.failed = t.failed /\ w.port_up = t.port_up
        /\ w.conv_ready = t.conv_ready
    BY ONLY <1>2 DEF PwType, AsTold, AsIs
  <1>5. c \in write_tcpp(w)
    OBVIOUS
  <1> HIDE DEF w, t
  <1>6. /\ PathHolds(w) /\ w.ref = 5000 /\ w.vout = 5000 /\ w.setpoint = 5000 /\ ~w.vbus_on
        /\ w.port_up = z.port_up /\ w.conv_ready = z.conv_ready
    BY <1>1, <1>3, <1>4
       DEF PathHolds, Covered, Headed, Switched, AsTold, AsIs, Leaves
  <1>7. /\ PathHolds(c.p) /\ Alike(w, c.p) /\ AsTold(w, c.p)
        /\ c.r = "ok" => c.p.gate = w.switch
        /\ w.switch => c.p.vout = w.vout
    <2>1. w.switch => w.gate \/ w.vout = 5000
      BY <1>6
    <2>2. w.switch /\ w.oe => w.ref <= 5000
      BY <1>6
    <2> QED
      BY <1>5, <1>6, <2>1, <2>2, ControlHolds
  <1>8. CASE c.r # "ok"
    BY <1>6, <1>7, <1>8 DEF Leaves, Alike
  <1>9. CASE c.r = "ok"
    <2>1. c.p \in PwType
      BY <1>7 DEF PathHolds
    <2>2. y \in PwType /\ y.vbus_on = TRUE
      BY <2>1, PoweredOn
    <2>3. /\ AsTold(c.p, y) /\ AsIs(c.p, y) /\ y.setpoint = c.p.setpoint
          /\ y.threshold = c.p.threshold /\ y.failed = c.p.failed /\ y.port_up = c.p.port_up
          /\ y.conv_ready = c.p.conv_ready
      BY ONLY <2>1 DEF PwType, AsTold, AsIs
    <2>4. o \in Arrives(y)
      BY <1>9
    <2> HIDE DEF y
    <2>5. c.p.gate /\ c.p.port_up /\ ~c.p.trip
      <3>1. c.p.gate = TRUE
        BY <1>3, <1>7, <1>9
      <3> QED
        BY <1>7, <3>1 DEF PathHolds, Switched
    <2>6. PathHolds(y)
      BY <1>7, <2>2, <2>3, <2>5 DEF PathHolds, Covered, Headed, Switched, AsTold, AsIs
    <2>7. /\ PathHolds(o.p) /\ Alike(y, o.p) /\ AsTold(y, o.p)
          /\ o.r = "ok" => o.p.vout = y.ref
      BY <2>4, <2>6, ArrivesHolds
    <2>8. Leaves(z, o.p)
      BY <1>6, <1>7, <2>3, <2>7 DEF Leaves, Alike
    <2>9. o.p.vbus_on
      BY <2>2, <2>7 DEF Alike
    <2>10. o.p.ref = 5000 /\ o.p.setpoint = 5000
      BY <1>6, <1>7, <2>3, <2>7 DEF Alike, AsTold
    <2>11. o.r = "ok" => o.p.vout = 5000
      BY <1>6, <1>7, <2>3, <2>7 DEF AsTold
    <2> QED
      BY <2>8, <2>9, <2>10, <2>11 DEF Reached
  <1> QED
    BY <1>8, <1>9


\* How a call that goes on ends, when it falls back to dark.
Ended(x, y) == Leaves(x, y) /\ ~y.vbus_on /\ ~Carries(y)
Begun(x, y) == Leaves(x, y) /\ ~y.vbus_on /\ y.ref = 5000

\* A step of a call, with the shutdown that its failure asks for; and what
\* comes of the switch.
FallBack(a) ==
    IF a.r = "ok" THEN {a} ELSE {[p |-> x.p, r |-> a.r] : x \in power_shutdown(a.p)}
Closing(z) == write_tcpp([set_threshold(z, 5000) EXCEPT !.switch = TRUE])
OnceClosed(e) == IF e.r = "ok" THEN Arrives([e.p EXCEPT !.vbus_on = TRUE]) ELSE {e}

LEMMA FallsBack ==
    ASSUME NEW a, NEW o \in FallBack(a)
    PROVE  \/ a.r = "ok" /\ o = a
           \/ a.r # "ok" /\ o.r # "ok" /\ \E d \in power_shutdown(a.p) : o.p = d.p
  <1>1. CASE a.r = "ok"
    BY <1>1 DEF FallBack
  <1>2. CASE a.r # "ok"
    <2>1. PICK d \in power_shutdown(a.p) : o = [p |-> d.p, r |-> a.r]
      BY <1>2 DEF FallBack
    <2>2. o.p = d.p /\ o.r # "ok"
      BY <1>2, <2>1
    <2> QED
      BY <1>2, <2>2
  <1> QED
    BY <1>1, <1>2

LEMMA FallsDark ==
    ASSUME MaxFailed <= 1, NEW x, x.conv_ready, NEW y, Leaves(x, y), NEW d \in power_shutdown(y)
    PROVE  Ended(x, d.p)
  <1>1. PathHolds(y) /\ y.conv_ready
    BY DEF Leaves
  <1>2. Leaves(y, d.p) /\ IsDark(d.p) /\ (y.conv_ready => ~Carries(d.p))
    BY <1>1, ShutdownHolds
  <1> QED
    BY <1>1, <1>2 DEF Leaves, IsDark, Ended

\* The converter is programmed for 5 V.
LEMMA FirstHolds ==
    ASSUME NEW x, PathHolds(x), ~x.vbus_on, ~Carries(x), NEW first, first = cover_vout(x)
    PROVE  /\ Leaves(x, first) /\ ~first.vbus_on /\ ~Carries(first) /\ 5000 <= first.threshold
           /\ PathHolds(first)
  <1>1. x.vout \in MilliVolts /\ 5000 \in MilliVolts /\ x.vout \in Int /\ Headed(x)
    BY PathFields, VoltLevels DEF PathHolds
  <1>2. /\ Highest(x.vout, 5000) \in MilliVolts /\ x.vout <= Highest(x.vout, 5000)
        /\ 5000 <= Highest(x.vout, 5000)
    BY <1>1, HighestOf
  <1>3. x.oe => x.ref <= Highest(x.vout, 5000)
    BY <1>1 DEF Headed, Carries
  <1>4. /\ Leaves(x, first) /\ AsTold(x, first) /\ AsIs(x, first)
        /\ Highest(x.vout, 5000) <= first.threshold /\ first.vbus_on = x.vbus_on
    BY <1>2, <1>3, ThresholdHolds DEF cover_vout
  <1>5. PathHolds(first)
    BY <1>4 DEF Leaves
  <1>6. first.threshold \in Int /\ Highest(x.vout, 5000) \in Int
    <2>1. first.threshold \in Nat
      BY <1>5, PathFields DEF PathHolds
    <2>2. Highest(x.vout, 5000) \in {x.vout, 5000}
      BY <1>1, HighestOf
    <2> QED
      BY <1>1, <2>1, <2>2
  <1>7. 5000 <= first.threshold
    BY <1>2, <1>4, <1>6
  <1> QED
    BY <1>4, <1>5, <1>7 DEF AsTold, AsIs, Carries

LEMMA ProgramHolds ==
    ASSUME NEW x, PathHolds(x), NEW y, Leaves(x, y), ~y.vbus_on, ~Carries(y),
           5000 <= y.threshold, NEW a \in After(set_mv(y, 5000), set_limit_ma)
    PROVE  /\ a.r = "ok" => Begun(x, a.p) /\ 5000 <= a.p.threshold
           /\ a.r # "ok" => Ended(x, a.p)
  <1>1. PICK e \in set_mv(y, 5000) : a \in IF e.r = "ok" THEN set_limit_ma(e.p) ELSE {e}
    BY DEF After
  <1>2. PathHolds(y)
    BY DEF Leaves
  <1>3. /\ PathHolds(e.p) /\ Alike(y, e.p) /\ AsIs(y, e.p) /\ e.p.oe = y.oe
        /\ e.r = "ok" => e.p.ref = 5000
    <2>1. y.vout \in Int
      BY <1>2, PathFields DEF PathHolds
    <2>2. 5000 <= Highest(y.vout, 5000)
      BY <2>1, HighestOf
    <2>3. 5000 \in MilliVolts
      BY VoltLevels
    <2> QED
      BY <1>1, <1>2, <2>2, <2>3, SetMvHolds
  <1>4. /\ PathHolds(e.p) /\ e.p.port_up = x.port_up /\ e.p.conv_ready = x.conv_ready
        /\ ~e.p.vbus_on /\ ~Carries(e.p) /\ e.p.threshold = y.threshold
    BY <1>3 DEF Carries, AsIs, Alike, Leaves
  <1>5. CASE e.r # "ok"
    <2>1. a = e
      BY <1>1, <1>5
    <2> QED
      BY <1>4, <1>5, <2>1 DEF Ended, Leaves
  <1>6. CASE e.r = "ok"
    <2>1. a \in set_limit_ma(e.p)
      BY <1>1, <1>6
    <2>2. PathHolds(a.p) /\ Alike(e.p, a.p) /\ AsIs(e.p, a.p) /\ AsTold(e.p, a.p)
      BY <1>3, <2>1, SetLimitHolds
    <2>3. /\ Leaves(x, a.p) /\ ~a.p.vbus_on /\ a.p.threshold = y.threshold
          /\ ~Carries(a.p) /\ a.p.ref = 5000
      BY <1>3, <1>4, <1>6, <2>2 DEF Leaves, Alike, AsIs, AsTold, Carries
    <2> QED
      BY <2>3 DEF Begun, Ended
  <1> QED
    BY <1>5, <1>6

LEMMA StartHolds ==
    ASSUME MaxFailed <= 1, NEW x, x.conv_ready, NEW y, Begun(x, y), 5000 <= y.threshold,
           NEW a \in ConvOn(y), NEW b \in FallBack(a)
    PROVE  (b.r = "ok" => Begun(x, b.p)) /\ (b.r # "ok" => Ended(x, b.p))
  <1>1. PathHolds(y) /\ y.ref = 5000 /\ ~y.vbus_on
    BY DEF Begun, Leaves
  <1>2. \/ a.r = "ok" /\ b = a
        \/ a.r # "ok" /\ b.r # "ok" /\ \E d \in power_shutdown(a.p) : b.p = d.p
    BY FallsBack
  <1>3. PathHolds(a.p) /\ Alike(y, a.p) /\ a.p.ref = y.ref
    <2>1. y.vout \in Int
      BY <1>1, PathFields DEF PathHolds
    <2>2. y.ref <= y.threshold /\ y.ref <= Highest(y.vout, 5000)
      BY <1>1, <2>1, HighestOf
    <2>3. /\ PathHolds(y) /\ (y.port_up => y.ref <= y.threshold)
          /\ ~y.gate => y.ref <= Highest(y.vout, 5000)
      BY <1>1, <2>2
    <2> QED
      BY <2>3, ConvOnHolds
  <1>4. Begun(x, a.p)
    BY <1>1, <1>3 DEF Begun, Leaves, Alike
  <1>5. CASE a.r = "ok" /\ b = a
    BY <1>4, <1>5
  <1>6. CASE a.r # "ok" /\ b.r # "ok" /\ \E d \in power_shutdown(a.p) : b.p = d.p
    <2>1. PICK d \in power_shutdown(a.p) : b.p = d.p
      BY <1>6
    <2>2. Leaves(x, a.p)
      BY <1>4 DEF Begun
    <2> QED
      BY <1>6, <2>1, <2>2, FallsDark
  <1> QED
    BY <1>2, <1>5, <1>6

LEMMA ComeUpHolds ==
    ASSUME MaxFailed <= 1, NEW x, x.conv_ready, NEW y, Begun(x, y),
           NEW a \in Arrives([y EXCEPT !.setpoint = 5000]), NEW c \in FallBack(a)
    PROVE  /\ c.r = "ok" => Begun(x, c.p) /\ c.p.vout = 5000 /\ c.p.setpoint = 5000
           /\ c.r # "ok" => Ended(x, c.p)
  <1>1. PICK z : z = [y EXCEPT !.setpoint = 5000]
    OBVIOUS
  <1>2. /\ a \in Arrives(z)
        /\ \/ a.r = "ok" /\ c = a
           \/ a.r # "ok" /\ c.r # "ok" /\ \E d \in power_shutdown(a.p) : c.p = d.p
    BY <1>1, FallsBack
  <1>3. PathHolds(y) /\ y.ref = 5000 /\ ~y.vbus_on /\ 5000 \in MilliVolts
    BY VoltLevels DEF Begun, Leaves
  <1>4. Leaves(y, z) /\ AsTold(y, z) /\ z.setpoint = 5000 /\ z.vbus_on = y.vbus_on
    BY <1>1, <1>3, SetpointHolds
  <1>5. PathHolds(z)
    BY <1>4 DEF Leaves
  <1>6. /\ PathHolds(a.p) /\ Alike(z, a.p) /\ AsTold(z, a.p)
        /\ a.r = "ok" => a.p.vout = z.ref
    BY <1>2, <1>5, ArrivesHolds
  <1>7. Begun(x, a.p) /\ a.p.setpoint = 5000
    BY <1>3, <1>4, <1>6 DEF Leaves, Alike, AsTold, Begun
  <1>8. CASE a.r = "ok" /\ c = a
    <2>1. a.p.vout = 5000
      BY <1>3, <1>4, <1>6, <1>8 DEF AsTold
    <2> QED
      BY <1>7, <1>8, <2>1
  <1>9. CASE a.r # "ok" /\ c.r # "ok" /\ \E d \in power_shutdown(a.p) : c.p = d.p
    <2>1. PICK d \in power_shutdown(a.p) : c.p = d.p
      BY <1>9
    <2>2. Leaves(x, a.p)
      BY <1>7 DEF Begun
    <2> QED
      BY <1>9, <2>1, <2>2, FallsDark
  <1> QED
    BY <1>2, <1>8, <1>9

LEMMA ClosedHolds ==
    ASSUME MaxFailed <= 1, NEW x, x.conv_ready,
           NEW z, Begun(x, z), z.vout = 5000, z.setpoint = 5000,
           NEW e \in Closing(z), NEW a \in OnceClosed(e), NEW c \in FallBack(a)
    PROVE  /\ c.r = "ok" => Leaves(x, c.p) /\ c.p.vbus_on /\ Reached(c.p)
           /\ c.r # "ok" => Ended(x, c.p)
  <1>1. \/ a.r = "ok" /\ c = a
        \/ a.r # "ok" /\ c.r # "ok" /\ \E d \in power_shutdown(a.p) : c.p = d.p
    BY FallsBack
  <1>2. /\ e \in write_tcpp([set_threshold(z, 5000) EXCEPT !.switch = TRUE])
        /\ IF e.r = "ok" THEN a \in Arrives([e.p EXCEPT !.vbus_on = TRUE]) ELSE a = e
    BY DEF Closing, OnceClosed
  <1>3. PathHolds(z) /\ ~z.vbus_on /\ z.ref = 5000
    BY DEF Begun, Leaves
  <1>4. Leaves(z, a.p) /\ (a.r = "ok" => a.p.vbus_on /\ Reached(a.p))
    BY <1>2, <1>3, CloseHolds
  <1>5. Leaves(x, a.p)
    BY <1>4 DEF Begun, Leaves
  <1>6. CASE a.r = "ok" /\ c = a
    BY <1>4, <1>5, <1>6
  <1>7. CASE a.r # "ok" /\ c.r # "ok" /\ \E d \in power_shutdown(a.p) : c.p = d.p
    <2>1. PICK d \in power_shutdown(a.p) : c.p = d.p
      BY <1>7
    <2> QED
      BY <1>5, <1>7, <2>1, FallsDark
  <1> QED
    BY <1>1, <1>6, <1>7

\* VBUS goes on at 5 V, or off again with nothing carried.
LEMMA VbusOnHolds ==
    ASSUME MaxFailed <= 1, NEW x, PathHolds(x), x.conv_ready, ~x.vbus_on, ~Carries(x),
           NEW o \in power_vbus_on(x)
    PROVE  /\ Leaves(x, o.p)
           /\ o.p.vbus_on => Reached(o.p)
           /\ ~o.p.vbus_on => ~Carries(o.p)
  <1> DEFINE x0 == [x EXCEPT !.contracted = FALSE]
             first == cover_vout(x0)
             program == After(set_mv(first, 5000), set_limit_ma)
             start(y) == UNION {FallBack(a) : a \in ConvOn(y)}
             come_up(y) == UNION {FallBack(a) : a \in Arrives([y EXCEPT !.setpoint = 5000])}
             close(z) == UNION {OnceClosed(e) : e \in Closing(z)}
             closed(z) == UNION {FallBack(a) : a \in close(z)}
             rest(y) == UNION {IF b.r = "ok"
                                 THEN UNION {IF c.r = "ok" THEN closed(c.p) ELSE {c} : c \in come_up(b.p)}
                                 ELSE {b} : b \in start(y)}
  <1>1. o \in UNION {IF a.r = "ok" THEN rest(a.p) ELSE {a} : a \in program}
    <2>1. power_vbus_on(x) =
            IF ~x.conv_ready THEN Stops(x, "not_ready")
            ELSE UNION {IF a.r = "ok" THEN rest(a.p) ELSE {a} : a \in program}
      BY DEF power_vbus_on, After, IfNot, FallBack, Closing, OnceClosed, ConvOn
    <2> HIDE DEF rest, program
    <2> QED
      BY <2>1
  <1>2. PathHolds(x0) /\ Alike(x, x0) /\ AsTold(x, x0) /\ AsIs(x, x0)
    BY ContractedHolds
  <1> HIDE DEF x0
  <1>3. Leaves(x0, first) /\ ~first.vbus_on /\ ~Carries(first) /\ 5000 <= first.threshold
    BY <1>2, FirstHolds DEF Alike, AsTold, AsIs, Carries
  <1>4. x0.conv_ready /\ x0.port_up = x.port_up /\ x0.conv_ready = x.conv_ready
    BY <1>2 DEF Alike
  <1> HIDE DEF first
  <1> SUFFICES \/ Leaves(x0, o.p) /\ o.p.vbus_on /\ Reached(o.p)
               \/ Ended(x0, o.p)
    BY <1>4 DEF Leaves, Ended
  <1>5. PICK a \in program : o \in IF a.r = "ok" THEN rest(a.p) ELSE {a}
    <2> HIDE DEF rest, program
    <2> QED
      BY <1>1
  <1>6. /\ a.r = "ok" => Begun(x0, a.p) /\ 5000 <= a.p.threshold
        /\ a.r # "ok" => Ended(x0, a.p)
    BY <1>2, <1>3, ProgramHolds
  <1> HIDE DEF program
  <1>7. CASE a.r # "ok"
    <2> HIDE DEF rest
    <2>1. o = a
      BY <1>5, <1>7
    <2> QED
      BY <1>6, <1>7, <2>1
  <1>8. CASE a.r = "ok"
    <2>1. o \in rest(a.p)
      <3> HIDE DEF rest
      <3> QED
        BY <1>5, <1>8
    <2>2. PICK b \in start(a.p) :
             o \in IF b.r = "ok" THEN UNION {IF c.r = "ok" THEN closed(c.p) ELSE {c} : c \in come_up(b.p)}
                   ELSE {b}
      <3> HIDE DEF start, come_up, closed
      <3> QED
        BY <2>1
    <2>3. (b.r = "ok" => Begun(x0, b.p)) /\ (b.r # "ok" => Ended(x0, b.p))
      <3> HIDE DEF come_up, closed, rest
      <3>1. PICK d \in ConvOn(a.p) : b \in FallBack(d)
        OBVIOUS
      <3> HIDE DEF start
      <3>2. Begun(x0, a.p) /\ 5000 <= a.p.threshold /\ x0.conv_ready
        BY <1>4, <1>6, <1>8
      <3> QED
        BY <3>1, <3>2, StartHolds
    <2> HIDE DEF start, rest
    <2>4. CASE b.r # "ok"
      <3> HIDE DEF come_up, closed
      <3>1. o = b
        BY <2>2, <2>4
      <3> QED
        BY <2>3, <2>4, <3>1
    <2>5. CASE b.r = "ok"
      <3>1. PICK c \in come_up(b.p) : o \in IF c.r = "ok" THEN closed(c.p) ELSE {c}
        <4> HIDE DEF come_up, closed
        <4> QED
          BY <2>2, <2>5
      <3>2. /\ c.r = "ok" => Begun(x0, c.p) /\ c.p.vout = 5000 /\ c.p.setpoint = 5000
            /\ c.r # "ok" => Ended(x0, c.p)
        <4> HIDE DEF closed
        <4>1. PICK d \in Arrives([b.p EXCEPT !.setpoint = 5000]) : c \in FallBack(d)
          OBVIOUS
        <4> HIDE DEF come_up
        <4>2. Begun(x0, b.p) /\ x0.conv_ready
          BY <1>4, <2>3, <2>5
        <4> QED
          BY <4>1, <4>2, ComeUpHolds
      <3> HIDE DEF come_up
      <3>3. CASE c.r # "ok"
        <4> HIDE DEF closed
        <4>1. o = c
          BY <3>1, <3>3
        <4> QED
          BY <3>2, <3>3, <4>1
      <3>4. CASE c.r = "ok"
        <4>1. o \in closed(c.p)
          <5> HIDE DEF closed
          <5> QED
            BY <3>1, <3>4
        <4>2. PICK d \in close(c.p) : o \in FallBack(d)
          <5> HIDE DEF close
          <5> QED
            BY <4>1
        <4> HIDE DEF closed
        <4>3. PICK e \in Closing(c.p) : d \in OnceClosed(e)
          OBVIOUS
        <4> HIDE DEF close
        <4>4. Begun(x0, c.p) /\ c.p.vout = 5000 /\ c.p.setpoint = 5000 /\ x0.conv_ready
          BY <1>4, <3>2, <3>4
        <4>5. /\ o.r = "ok" => Leaves(x0, o.p) /\ o.p.vbus_on /\ Reached(o.p)
              /\ o.r # "ok" => Ended(x0, o.p)
          BY <4>2, <4>3, <4>4, ClosedHolds
        <4> QED
          BY <4>5
      <3> QED
        BY <3>3, <3>4
    <2> QED
      BY <2>4, <2>5
  <1> QED
    BY <1>7, <1>8

\* A new voltage: the converter set to follow down when it is lower, and the
\* threshold brought to it once the output is there.
SlowMode(y, mv, s) == IF mv < s THEN ConvOn(y) ELSE Done(y)
FinishOf(a, mv, s) ==
    IF a.r = "ok"
      THEN {[o EXCEPT !.p = IF o.r = "ok" THEN set_threshold(@, mv) ELSE @] : o \in SlowMode(a.p, mv, s)}
      ELSE {[a EXCEPT !.p = o.p] : o \in SlowMode(a.p, mv, s)}

LEMMA SlowHolds ==
    ASSUME NEW y, PathHolds(y), NEW mv, NEW s, y.port_up => y.ref <= y.threshold,
           mv < s => y.gate \/ y.oe, NEW o \in SlowMode(y, mv, s)
    PROVE  /\ PathHolds(o.p) /\ Alike(y, o.p) /\ AsIs(y, o.p) /\ o.p.ref = y.ref
           /\ o.r = "ok" /\ mv < s => o.p.oe
  <1>1. CASE ~(mv < s)
    <2>1. o \in Done(y)
      BY <1>1 DEF SlowMode
    <2>2. o.p = y
      BY <2>1 DEF Done
    <2> QED
      BY <1>1, <2>2 DEF Alike, AsIs
  <1>2. CASE mv < s
    <2>1. o \in ConvOn(y)
      BY <1>2 DEF SlowMode
    <2>2. ~y.gate => y.ref <= Highest(y.vout, 5000)
      BY <1>2 DEF PathHolds, Headed
    <2> QED
      BY <2>1, <2>2, ConvOnHolds
  <1> QED
    BY <1>1, <1>2

\* Outcomes are pairs of a state and a result.
LEMMA TransferShape ==
    ASSUME NEW x, NEW y, NEW o \in Transfer(x, y)
    PROVE  o = [p |-> o.p, r |-> o.r]
  <1>1. CASE o \in Done(y)
    BY <1>1 DEF Done
  <1>2. CASE o \notin Done(y)
    <2>1. o \in {[p |-> [z EXCEPT !.failed = @ + 1], r |-> "bus"] : z \in {x, y}}
      BY <1>2 DEF Transfer
    <2> QED
      BY <2>1
  <1> QED
    BY <1>1, <1>2

LEMMA SlowShape ==
    ASSUME NEW y, NEW mv, NEW s, NEW o \in SlowMode(y, mv, s)
    PROVE  o = [p |-> o.p, r |-> o.r]
  <1>1. CASE ~(mv < s)
    BY <1>1 DEF SlowMode, Done
  <1>2. CASE mv < s
    <2>1. o \in Converter(y, [y EXCEPT !.oe = TRUE])
      BY <1>2 DEF SlowMode, ConvOn, conv_mode
    <2>2. CASE en_pin
      <3>1. o \in Transfer(y, [y EXCEPT !.oe = TRUE])
        BY <2>1, <2>2 DEF Converter
      <3> QED
        BY <3>1, TransferShape
    <2>3. CASE ~en_pin
      BY <2>1, <2>3 DEF Converter, Stops
    <2> QED
      BY <2>2, <2>3
  <1> QED
    BY <1>1, <1>2

LEMMA ArrivesShape ==
    ASSUME NEW x, NEW o \in Arrives(x)
    PROVE  o = [p |-> o.p, r |-> o.r]
BY DEF Arrives, Done, Stops

LEMMA FinishOut ==
    ASSUME NEW x, NEW a \in Arrives(x), NEW mv, NEW s, NEW o \in FinishOf(a, mv, s)
    PROVE  \E d \in SlowMode(a.p, mv, s) :
             /\ o.r = IF a.r = "ok" THEN d.r ELSE a.r
             /\ o.p = IF a.r = "ok" /\ d.r = "ok" THEN set_threshold(d.p, mv) ELSE d.p
  <1>1. CASE a.r = "ok"
    <2>1. PICK d \in SlowMode(a.p, mv, s) :
             o = [d EXCEPT !.p = IF d.r = "ok" THEN set_threshold(@, mv) ELSE @]
      BY <1>1 DEF FinishOf
    <2>2. d = [p |-> d.p, r |-> d.r]
      BY SlowShape
    <2>3. o.r = d.r /\ o.p = IF d.r = "ok" THEN set_threshold(d.p, mv) ELSE d.p
      BY <2>1, <2>2
    <2> QED
      BY <1>1, <2>3
  <1>2. CASE a.r # "ok"
    <2>1. PICK d \in SlowMode(a.p, mv, s) : o = [a EXCEPT !.p = d.p]
      BY <1>2 DEF FinishOf
    <2>2. a = [p |-> a.p, r |-> a.r]
      BY ArrivesShape
    <2>3. o.r = a.r /\ o.p = d.p
      BY <2>1, <2>2
    <2> QED
      BY <1>2, <2>3
  <1> QED
    BY <1>1, <1>2

LEMMA SettleHolds ==
    ASSUME NEW x, PathHolds(x), NEW mv \in MilliVolts, NEW s, x.vbus_on, x.gate, x.ref = mv,
           mv <= x.threshold, mv < s => x.oe,
           NEW a \in Arrives([x EXCEPT !.setpoint = mv]), NEW o \in FinishOf(a, mv, s)
    PROVE  Leaves(x, o.p) /\ o.p.vbus_on /\ (o.r = "ok" => Reached(o.p))
  <1>1. PICK z : z = [x EXCEPT !.setpoint = mv]
    OBVIOUS
  <1>2. /\ Leaves(x, z) /\ AsTold(x, z) /\ AsIs(x, z) /\ z.setpoint = mv
        /\ z.vbus_on = x.vbus_on /\ z.threshold = x.threshold
    <2>1. PathHolds(x) /\ mv \in MilliVolts
      OBVIOUS
    <2> QED
      BY ONLY <1>1, <2>1, SetpointHolds
  <1>3. PathHolds(z) /\ a \in Arrives(z)
    BY <1>1, <1>2 DEF Leaves
  <1>4. /\ PathHolds(a.p) /\ Alike(z, a.p) /\ AsTold(z, a.p)
        /\ a.r = "ok" => a.p.vout = z.ref /\ a.p.gate = z.gate
        /\ a.r \in {"ok", "timeout", "tripped"}
        /\ a.r = "timeout" => a.p = z
        /\ a.r = "tripped" => ~a.p.gate \/ a.p = z
    BY <1>3, ArrivesHolds
  <1>5. /\ PathHolds(a.p) /\ (a.p.port_up => a.p.ref <= a.p.threshold)
        /\ mv < s => a.p.gate \/ a.p.oe
    BY <1>2, <1>4 DEF Alike, AsTold
  <1>6. PICK d \in SlowMode(a.p, mv, s) :
           /\ o.r = IF a.r = "ok" THEN d.r ELSE a.r
           /\ o.p = IF a.r = "ok" /\ d.r = "ok" THEN set_threshold(d.p, mv) ELSE d.p
    BY <1>3, FinishOut
  <1>7. PathHolds(d.p) /\ Alike(a.p, d.p) /\ AsIs(a.p, d.p) /\ d.p.ref = a.p.ref
    BY <1>5, SlowHolds
  <1>8. Leaves(x, d.p) /\ d.p.vbus_on
    BY <1>2, <1>4, <1>7 DEF Leaves, Alike
  <1>9. CASE ~(a.r = "ok" /\ d.r = "ok")
    <2>1. o.p = d.p /\ o.r # "ok"
      BY <1>6, <1>9
    <2> QED
      BY <1>8, <2>1
  <1>10. CASE a.r = "ok" /\ d.r = "ok"
    <2>1. d.p.ref = mv /\ d.p.vout = mv /\ d.p.setpoint = mv
      BY <1>2, <1>4, <1>7, <1>10 DEF Alike, AsTold, AsIs
    <2>2. mv \in Int
      BY VoltLevels
    <2>3. mv <= mv
      BY <2>2
    <2>4. /\ Leaves(d.p, set_threshold(d.p, mv)) /\ AsTold(d.p, set_threshold(d.p, mv))
          /\ AsIs(d.p, set_threshold(d.p, mv)) /\ set_threshold(d.p, mv).vbus_on = d.p.vbus_on
          /\ set_threshold(d.p, mv).setpoint = d.p.setpoint
      BY <1>7, <2>1, <2>3, ThresholdHolds
    <2>5. o.p = set_threshold(d.p, mv)
      BY <1>6, <1>10
    <2>6. Leaves(x, o.p) /\ o.p.vbus_on
      BY <1>8, <2>4, <2>5 DEF Leaves
    <2>7. o.p.ref = mv /\ o.p.vout = mv /\ o.p.setpoint = mv
      BY <2>1, <2>4, <2>5 DEF AsTold, AsIs
    <2> QED
      BY <2>3, <2>6, <2>7 DEF Reached
  <1> QED
    BY <1>9, <1>10

\* The part of the call that the path is on for.
LEMMA SetCovers ==
    ASSUME NEW x, PathHolds(x), NEW mv \in MilliVolts, x.vbus_on, x.gate, Reached(x),
           NEW y, y = set_threshold([x EXCEPT !.contracted = TRUE], Highest(x.setpoint, mv))
    PROVE  /\ Leaves(x, y) /\ PathHolds(y) /\ y.vbus_on /\ y.gate /\ mv <= y.threshold
           /\ y.ref <= y.threshold
  <1>1. PICK z : z = [x EXCEPT !.contracted = TRUE]
    OBVIOUS
  <1>2. PathHolds(z) /\ Alike(x, z) /\ AsTold(x, z) /\ AsIs(x, z)
    BY <1>1, ContractedHolds
  <1>3. PICK h : h = Highest(x.setpoint, mv)
    OBVIOUS
  <1>4. x.setpoint \in MilliVolts /\ x.setpoint \in Int /\ x.vout \in Int /\ mv \in Int
    BY PathFields, VoltLevels DEF PathHolds
  <1>5. h \in MilliVolts /\ h \in Int /\ x.setpoint <= h /\ mv <= h
    BY <1>3, <1>4, HighestOf
  <1>6. z.vout <= h /\ z.ref <= h
    BY <1>2, <1>4, <1>5 DEF Reached, AsTold, AsIs
  <1>7. /\ Leaves(z, set_threshold(z, h)) /\ AsTold(z, set_threshold(z, h))
        /\ AsIs(z, set_threshold(z, h)) /\ h <= set_threshold(z, h).threshold
        /\ set_threshold(z, h).vbus_on = z.vbus_on
    BY <1>2, <1>5, <1>6, ThresholdHolds
  <1>8. y = set_threshold(z, h)
    BY <1>1, <1>3
  <1>9. Leaves(x, y) /\ PathHolds(y) /\ y.vbus_on /\ y.gate /\ y.ref = z.ref /\ h <= y.threshold
    BY <1>2, <1>7, <1>8 DEF Leaves, Alike, AsTold, AsIs
  <1>10. y.threshold \in Nat /\ z.ref \in Int
    BY <1>2, <1>9, PathFields DEF PathHolds
  <1>11. mv <= y.threshold /\ y.ref <= y.threshold
    BY <1>4, <1>5, <1>6, <1>9, <1>10
  <1> QED
    BY <1>9, <1>11

\* A new voltage leaves the port on, and when it is taken the output is there.
LEMMA PowerSetHolds ==
    ASSUME NEW x, PathHolds(x), NEW mv \in MilliVolts, x.vbus_on /\ x.conv_ready => Reached(x),
           NEW o \in power_set(x, mv)
    PROVE  /\ Leaves(x, o.p) /\ (o.r = "ok" => Reached(o.p))
           /\ o.p = x \/ (x.vbus_on /\ o.p.vbus_on)
  <1> DEFINE s == x.setpoint
             covered == set_threshold([x EXCEPT !.contracted = TRUE], Highest(x.setpoint, mv))
             program(y) == UNION {IF e.r = "ok" THEN set_mv(e.p, mv) ELSE {e} : e \in set_limit_ma(y)}
             settle(y) == UNION {FinishOf(a, mv, s) : a \in Arrives([y EXCEPT !.setpoint = mv])}
             rest(y) == UNION {IF c.r = "ok" THEN settle(c.p) ELSE {c} : c \in program(y)}
             all == UNION {IF b.r = "ok" THEN rest(b.p) ELSE {b} : b \in SlowMode(covered, mv, s)}
  <1>1. o \in IF ~x.conv_ready \/ ~x.vbus_on THEN Stops(x, "not_ready")
              ELSE IF tripped(x) THEN Stops(x, "tripped") ELSE all
    BY DEF power_set, After, FinishOf, SlowMode, ConvOn
  <1>2. CASE ~x.conv_ready \/ ~x.vbus_on \/ tripped(x)
    <2> HIDE DEF all
    <2>1. o \in Stops(x, "not_ready") \cup Stops(x, "tripped")
      BY <1>1, <1>2
    <2>2. o.p = x /\ o.r # "ok"
      BY <2>1 DEF Stops
    <2> QED
      BY <2>2 DEF Leaves
  <1>3. CASE ~(~x.conv_ready \/ ~x.vbus_on \/ tripped(x))
    <2>1. o \in all
      <3> HIDE DEF all
      <3> QED
        BY <1>1, <1>3
    <2>2. x.vbus_on /\ x.gate /\ Reached(x)
      BY <1>3 DEF tripped, PathHolds, Switched
    <2>3. /\ Leaves(x, covered) /\ PathHolds(covered) /\ covered.vbus_on /\ covered.gate
          /\ mv <= covered.threshold /\ covered.ref <= covered.threshold
      BY <2>2, SetCovers
    <2> SUFFICES Leaves(x, o.p) /\ o.p.vbus_on /\ (o.r = "ok" => Reached(o.p))
      BY <2>2
    <2> HIDE DEF covered
    <2>4. PICK b \in SlowMode(covered, mv, s) : o \in IF b.r = "ok" THEN rest(b.p) ELSE {b}
      <3> HIDE DEF rest, s
      <3> QED
        BY <2>1
    <2> HIDE DEF s
    <2>5. /\ PathHolds(b.p) /\ Alike(covered, b.p) /\ AsIs(covered, b.p) /\ b.p.ref = covered.ref
          /\ b.r = "ok" /\ mv < s => b.p.oe
      BY <2>3, SlowHolds
    <2>6. /\ Leaves(x, b.p) /\ b.p.vbus_on /\ b.p.gate /\ b.p.threshold = covered.threshold
      BY <2>3, <2>5 DEF Leaves, Alike, AsIs
    <2>7. CASE b.r # "ok"
      <3> HIDE DEF rest
      <3>1. o = b
        BY <2>4, <2>7
      <3> QED
        BY <2>6, <2>7, <3>1
    <2>8. CASE b.r = "ok"
      <3>1. PICK c \in program(b.p) : o \in IF c.r = "ok" THEN settle(c.p) ELSE {c}
        <4>1. o \in rest(b.p)
          <5> HIDE DEF rest
          <5> QED
            BY <2>4, <2>8
        <4> HIDE DEF program, settle
        <4> QED
          BY <4>1
      <3>2. PICK e \in set_limit_ma(b.p) : c \in IF e.r = "ok" THEN set_mv(e.p, mv) ELSE {e}
        <4> HIDE DEF settle
        <4> QED
          OBVIOUS
      <3> HIDE DEF program
      <3>3. PathHolds(e.p) /\ Alike(b.p, e.p) /\ AsIs(b.p, e.p) /\ AsTold(b.p, e.p)
        BY <2>5, SetLimitHolds
      <3>4. /\ Leaves(x, e.p) /\ e.p.vbus_on /\ e.p.gate /\ mv <= e.p.threshold
            /\ mv < s => e.p.oe
        BY <2>3, <2>5, <2>6, <2>8, <3>3 DEF Leaves, Alike, AsIs, AsTold
      <3>5. /\ Leaves(x, c.p) /\ c.p.vbus_on /\ c.p.gate /\ mv <= c.p.threshold
            /\ (mv < s => c.p.oe) /\ (c.r = "ok" => c.p.ref = mv)
        <4> HIDE DEF settle
        <4>1. CASE e.r # "ok"
          <5>1. c = e
            BY <3>2, <4>1
          <5> QED
            BY <3>4, <4>1, <5>1
        <4>2. CASE e.r = "ok"
          <5>1. c \in set_mv(e.p, mv)
            BY <3>2, <4>2
          <5>2. /\ PathHolds(e.p) /\ (e.p.port_up => mv <= e.p.threshold)
                /\ ~e.p.gate => mv <= Highest(e.p.vout, 5000)
            BY <3>3, <3>4
          <5>3. /\ PathHolds(c.p) /\ Alike(e.p, c.p) /\ AsIs(e.p, c.p) /\ c.p.oe = e.p.oe
                /\ c.r = "ok" => c.p.ref = mv
            BY <5>1, <5>2, SetMvHolds
          <5> QED
            BY <3>4, <5>3 DEF Leaves, Alike, AsIs
        <4> QED
          BY <4>1, <4>2
      <3>6. CASE c.r # "ok"
        <4> HIDE DEF settle
        <4>1. o = c
          BY <3>1, <3>6
        <4> QED
          BY <3>5, <3>6, <4>1
      <3>7. CASE c.r = "ok"
        <4>1. o \in settle(c.p)
          <5> HIDE DEF settle
          <5> QED
            BY <3>1, <3>7
        <4>2. PICK a \in Arrives([c.p EXCEPT !.setpoint = mv]) : o \in FinishOf(a, mv, s)
          BY <4>1
        <4> HIDE DEF settle
        <4>3. /\ PathHolds(c.p) /\ c.p.vbus_on /\ c.p.gate /\ c.p.ref = mv
              /\ mv <= c.p.threshold /\ (mv < s => c.p.oe)
          BY <3>5, <3>7 DEF Leaves
        <4>4. Leaves(c.p, o.p) /\ o.p.vbus_on /\ (o.r = "ok" => Reached(o.p))
          BY <4>2, <4>3, SettleHolds
        <4> QED
          BY <3>5, <4>4 DEF Leaves
      <3> QED
        BY <3>6, <3>7
    <2> QED
      BY <2>7, <2>8
  <1> QED
    BY <1>2, <1>3

------------------------------------------------------------------------------
(* What a blade's port offers and grants *)

LEMMA LeastOfThree ==
    ASSUME NEW a \in Nat, NEW b \in Nat, NEW c \in Nat
    PROVE  /\ Least({a, b, c}) \in {a, b, c} /\ Least({a, b, c}) \in Nat
           /\ Least({a, b, c}) <= a /\ Least({a, b, c}) <= b /\ Least({a, b, c}) <= c
  <1>1. \E x \in {a, b, c} : \A y \in {a, b, c} : x <= y
    <2>1. CASE a <= b /\ a <= c
      BY <2>1
    <2>2. CASE b <= a /\ b <= c
      BY <2>2
    <2>3. CASE c <= a /\ c <= b
      BY <2>3
    <2> QED
      BY <2>1, <2>2, <2>3
  <1>2. /\ Least({a, b, c}) \in {a, b, c}
        /\ \A y \in {a, b, c} : Least({a, b, c}) <= y
    BY <1>1 DEF Least
  <1> QED
    BY <1>2

\* A current is what the power gives at a voltage, in whole steps.
LEMMA CurrentFor ==
    ASSUME NEW lim, lim.cable_ma \in Nat, NEW power \in Nat, NEW mv \in Nat \ {0},
           NEW step \in Nat \ {0}
    PROVE  /\ current_for(lim, power, mv, step) \in Nat
           /\ current_for(lim, power, mv, step) <= power_ma(power, mv)
           /\ current_for(lim, power, mv, step) <= 5000
           /\ current_for(lim, power, mv, step) % step = 0
  <1> DEFINE ma == Least({BLADE_MAX_MA_LIMIT, lim.cable_ma, power_ma(power, mv)})
  <1>1. power_ma(power, mv) \in Nat
    BY DEF power_ma
  <1>2. BLADE_MAX_MA_LIMIT \in Nat
    BY DEF BLADE_MAX_MA_LIMIT
  <1>3. ma \in Nat /\ ma <= power_ma(power, mv) /\ ma <= BLADE_MAX_MA_LIMIT
    BY <1>1, <1>2, LeastOfThree
  <1>4. current_for(lim, power, mv, step) = ma - (ma % step)
    BY DEF current_for
  <1> HIDE DEF ma
  <1>5. ma % step \in Nat /\ ma % step <= ma /\ (ma - (ma % step)) % step = 0
    BY <1>3
  <1> QED
    BY <1>1, <1>3, <1>4, <1>5 DEF BLADE_MAX_MA_LIMIT

LEMMA ObjectFields ==
    ASSUME NEW obj \in Objects
    PROVE  /\ obj.kind \in {"FIXED", "PPS", "AVS"}
           /\ obj.kind = "FIXED" => obj.mv \in MilliVolts /\ obj.ma \in Nat
           /\ obj.kind = "PPS" => obj.max_mv \in MilliVolts /\ obj.ma \in Nat
           /\ obj.kind = "AVS" => obj.ma_15v \in Nat /\ obj.ma_20v \in Nat
BY DEF Objects

LEMMA LimitsFields ==
    ASSUME NEW lim \in LimitsType
    PROVE  lim.max_w \in 0..100 /\ lim.cable_ma \in Nat /\ lim.max_mv \in Nat
  <1>1. lim.max_w \in Watts /\ lim.cable_ma \in Nat /\ lim.max_mv \in Caps
    BY DEF LimitsType
  <1>2. Caps \subseteq Nat
    BY DEF Caps, BLADE_MAX_MV_ALL
  <1> QED
    BY <1>1, <1>2 DEF Watts

LEMMA LeastOfNats ==
    ASSUME NEW a \in Nat, NEW b \in Nat
    PROVE  Least({a, b}) \in Nat /\ Least({a, b}) <= a /\ Least({a, b}) <= b
BY LeastOfTwo

LEMMA VoltsOf ==
    ASSUME NEW n \in Nat, n <= 23000
    PROVE  n \in MilliVolts
BY DEF MilliVolts

LEMMA MilliVoltsNat == \A mv \in MilliVolts : mv \in Nat /\ mv <= 23000
BY DEF MilliVolts

LEMMA UpToSize ==
    ASSUME NEW n \in Nat
    PROVE  IsFiniteSet(1..n) /\ Cardinality(1..n) = n
BY FS_Interval

LEMMA LeastOfSome ==
    ASSUME NEW S, S \subseteq {1, 2}, S # {}
    PROVE  Least(S) \in {1, 2}
  <1>1. \E x \in S : \A y \in S : x <= y
    <2>1. CASE 1 \in S
      BY <2>1
    <2>2. CASE 1 \notin S
      <3>1. S = {2}
        BY <2>2
      <3> QED
        BY <3>1
    <2> QED
      BY <2>1, <2>2
  <1> QED
    BY <1>1 DEF Least

\* The table is made of objects.
\* A fixed object is within the power of its table.
Affords(power, obj) == obj.kind = "FIXED" => obj.ma <= 5000 /\ obj.mv * obj.ma <= power * 1000
Within(power) == {obj \in Objects : Affords(power, obj)}

LEMMA RangeObject ==
    ASSUME NEW mv \in MilliVolts, NEW ma, ma \in Nat, NEW least, NEW power,
           NEW y, y = [kind |-> "PPS", max_mv |-> mv, ma |-> ma, limited |-> mv * ma > least]
    PROVE  y \in Within(power)
  <1>1. (mv * ma > least) \in BOOLEAN
    OBVIOUS
  <1>2. y \in Objects
    BY <1>1 DEF Objects
  <1>3. y.kind # "FIXED"
    OBVIOUS
  <1> QED
    BY <1>2, <1>3 DEF Within, Affords

LEMMA OthersWithin ==
    ASSUME NEW a \in Nat, NEW b \in Nat, NEW power
    PROVE  [kind |-> "AVS", ma_15v |-> a, ma_20v |-> b] \in Within(power)
  <1>1. PICK y : y = [kind |-> "AVS", ma_15v |-> a, ma_20v |-> b]
    OBVIOUS
  <1>2. y \in Objects
    BY <1>1 DEF Objects
  <1>3. y.kind # "FIXED"
    BY <1>1
  <1> QED
    BY <1>1, <1>2, <1>3 DEF Within, Affords

LEMMA FixedWithin ==
    ASSUME NEW power \in Nat, NEW mv \in MilliVolts, mv \in Nat \ {0}, NEW ma, ma \in Nat,
           ma <= power_ma(power, mv), ma <= 5000,
           NEW y, y = [kind |-> "FIXED", mv |-> mv, ma |-> ma]
    PROVE  y \in Within(power)
  <1>1. PICK a \in Nat : a = power * 1000
    OBVIOUS
  <1>2. ma <= a \div mv
    BY <1>1 DEF power_ma
  <1>3. mv * ma <= a
    BY ONLY <1>1, <1>2, ma \in Nat, mv \in Nat \ {0}
  <1>4. y \in Objects
    BY DEF Objects
  <1>5. y.kind = "FIXED" /\ y.mv = mv /\ y.ma = ma
    OBVIOUS
  <1> QED
    BY <1>1, <1>3, <1>4, <1>5 DEF Within, Affords

LEMMA TableOfObjects ==
    ASSUME NEW lim \in LimitsType
    PROVE  /\ pdo_build(lim).obj \in Seq(Within(pdo_build(lim).power_mw))
           /\ Len(pdo_build(lim).obj) <= 7
  <1> DEFINE power == Least({lim.max_w * 1000, PORT_POWER_MAX_MW})
             cap == IF lim.max_mv >= BLADE_MAX_MV_ALL THEN 21000 ELSE lim.max_mv
             under == {i \in DOMAIN FIXED_MV : i = 1 \/ FIXED_MV[i] <= cap}
             Fixed(mv) == [kind |-> "FIXED", mv |-> mv, ma |-> current_for(lim, power, mv, 10)]
             fixed == [i \in 1..Cardinality(under) |-> Fixed(FIXED_MV[i])]
             avs == IF 15000 > cap THEN <<>>
                    ELSE <<[kind |-> "AVS", ma_15v |-> current_for(lim, power, 15000, 10),
                            ma_20v |-> IF 20000 > cap THEN 0 ELSE current_for(lim, power, 20000, 10)]>>
             RangeOf(r) == LET ma == current_for(lim, power, r.prog_mv, 50)
                           IN  [kind |-> "PPS", max_mv |-> r.max_mv, ma |-> ma,
                                limited |-> r.max_mv * ma > power * 1000]
             fitting == {i \in DOMAIN PPS_RANGES : PPS_RANGES[i].max_mv <= cap}
             pps == IF fitting = {} THEN <<>> ELSE <<RangeOf(PPS_RANGES[Least(fitting)])>>
  <1>1. /\ pdo_build(lim).obj = IF power = 0 THEN <<>> ELSE fixed \o avs \o pps
        /\ pdo_build(lim).power_mw = power
    BY DEF pdo_build
  <1>2. lim.max_w \in 0..100 /\ lim.cable_ma \in Nat /\ lim.max_mv \in Nat
    BY LimitsFields
  <1>3. power \in Nat
    <2>1. PICK w \in Nat : w = lim.max_w * 1000
      <3>1. lim.max_w * 1000 \in Nat
        BY <1>2
      <3> QED
        BY <3>1
    <2>2. PICK m \in Nat : m = PORT_POWER_MAX_MW
      BY DEF PORT_POWER_MAX_MW
    <2>3. Least({w, m}) \in Nat
      BY LeastOfNats
    <2> QED
      BY <2>1, <2>2, <2>3
  <1> HIDE DEF power
  <1>4. \A mv \in Nat \ {0}, step \in {10, 50} :
           /\ current_for(lim, power, mv, step) \in Nat
           /\ current_for(lim, power, mv, step) <= power_ma(power, mv)
           /\ current_for(lim, power, mv, step) <= 5000
    BY <1>2, <1>3, CurrentFor
  <1>5. fixed \in Seq(Within(power)) /\ Len(fixed) <= 5
    <2>1. DOMAIN FIXED_MV = 1..5 /\ \A i \in 1..5 : FIXED_MV[i] \in MilliVolts /\ FIXED_MV[i] \in Nat \ {0}
      BY DEF FIXED_MV, MilliVolts
    <2>2. Cardinality(under) \in Nat /\ Cardinality(under) <= 5
      <3>1. IsFiniteSet(1..5) /\ Cardinality(1..5) = 5
        BY UpToSize
      <3>2. under \in SUBSET (1..5)
        BY <2>1
      <3> HIDE DEF under
      <3>3. IsFiniteSet(under) /\ Cardinality(under) <= Cardinality(1..5)
        BY <3>1, <3>2, FS_Subset
      <3>4. Cardinality(under) \in Nat
        BY <3>3, FS_CardinalityType
      <3> QED
        BY <3>1, <3>3, <3>4
    <2>3. ASSUME NEW i \in 1..Cardinality(under)
          PROVE  Fixed(FIXED_MV[i]) \in Within(power)
      <3>1. i \in 1..5
        BY <2>2, <2>3
      <3>2. FIXED_MV[i] \in MilliVolts /\ FIXED_MV[i] \in Nat \ {0}
        BY <2>1, <3>1
      <3>3. PICK mv \in MilliVolts : mv = FIXED_MV[i] /\ mv \in Nat \ {0}
        BY <3>2
      <3>4. /\ current_for(lim, power, mv, 10) \in Nat
            /\ current_for(lim, power, mv, 10) <= power_ma(power, mv)
            /\ current_for(lim, power, mv, 10) <= 5000
        BY <1>4, <3>3
      <3>5. Fixed(FIXED_MV[i]) = [kind |-> "FIXED", mv |-> mv, ma |-> current_for(lim, power, mv, 10)]
        BY <3>3
      <3> HIDE DEF Fixed
      <3> QED
        BY <1>3, <3>3, <3>4, <3>5, FixedWithin
    <2> HIDE DEF Fixed, under
    <2>4. fixed \in [1..Cardinality(under) -> Within(power)]
      BY <2>3
    <2> QED
      BY <2>2, <2>4
  <1>6. avs \in Seq(Within(power)) /\ Len(avs) <= 1
    <2>1. 15000 \in Nat \ {0} /\ 20000 \in Nat \ {0}
      OBVIOUS
    <2>2. current_for(lim, power, 15000, 10) \in Nat /\ current_for(lim, power, 20000, 10) \in Nat
      BY <1>4, <2>1
    <2>3. (IF 20000 > cap THEN 0 ELSE current_for(lim, power, 20000, 10)) \in Nat
      BY <2>2
    <2> HIDE DEF cap
    <2>4. [kind |-> "AVS", ma_15v |-> current_for(lim, power, 15000, 10),
           ma_20v |-> IF 20000 > cap THEN 0 ELSE current_for(lim, power, 20000, 10)] \in Within(power)
      BY <2>2, <2>3, OthersWithin
    <2> QED
      BY <2>4
  <1>7. pps \in Seq(Within(power)) /\ Len(pps) <= 1
    <2>1. CASE fitting = {}
      BY <2>1
    <2>2. CASE fitting # {}
      <3>1. DOMAIN PPS_RANGES = {1, 2}
        BY DEF PPS_RANGES
      <3>2. Least(fitting) \in {1, 2}
        <4>1. fitting \subseteq {1, 2}
          BY <3>1
        <4> HIDE DEF fitting
        <4> QED
          BY <2>2, <4>1, LeastOfSome
      <3> DEFINE r == PPS_RANGES[Least(fitting)]
      <3>3. r \in {[max_mv |-> 21000, prog_mv |-> 20000], [max_mv |-> 11000, prog_mv |-> 9000]}
        BY <3>2 DEF PPS_RANGES
      <3>4. r.max_mv \in MilliVolts /\ r.prog_mv \in Nat \ {0}
        <4>1. 21000 \in MilliVolts /\ 11000 \in MilliVolts
          BY VoltsOf
        <4>2. r.max_mv \in {21000, 11000} /\ r.prog_mv \in {20000, 9000}
          BY <3>3
        <4> QED
          BY <4>1, <4>2
      <3>5. current_for(lim, power, r.prog_mv, 50) \in Nat
        BY <1>4, <3>4
      <3>6. RangeOf(r) \in Within(power)
        <4> HIDE DEF r
        <4>1. PICK ma \in Nat : ma = current_for(lim, power, r.prog_mv, 50)
          BY <3>5
        <4>2. RangeOf(r) = [kind |-> "PPS", max_mv |-> r.max_mv, ma |-> ma,
                            limited |-> r.max_mv * ma > power * 1000]
          BY <4>1
        <4>3. r.max_mv \in MilliVolts
          BY <3>4
        <4> HIDE DEF RangeOf
        <4> QED
          BY <4>1, <4>2, <4>3, RangeObject
      <3> HIDE DEF RangeOf
      <3>7. pps = <<RangeOf(r)>>
        <4> HIDE DEF fitting
        <4> QED
          BY <2>2
      <3> HIDE DEF pps, r
      <3> QED
        BY <3>6, <3>7
    <2> QED
      BY <2>1, <2>2
  <1> HIDE DEF fixed, avs, pps
  <1> QED
    BY <1>1, <1>5, <1>6, <1>7

\* A request is a number, and what is granted is a voltage of the bus.
LEMMA FieldsOfRequest ==
    ASSUME NEW rdo \in Int
    PROVE  /\ rdo_position(rdo) \in Nat /\ rdo_voltage(rdo) \in Nat /\ rdo_apdo_ma(rdo) \in Nat
           /\ rdo_fixed_ma(rdo) \in Nat
  <1>1. /\ rdo \div 2^28 \in Int /\ rdo \div 2^9 \in Int /\ rdo \div 2^10 \in Int
    OBVIOUS
  <1> QED
    BY <1>1 DEF rdo_position, rdo_voltage, rdo_apdo_ma, rdo_fixed_ma

LEMMA RequestIsNumber ==
    ASSUME NEW obj \in Objects, NEW pos \in Nat, NEW mv \in Nat, NEW ma \in Nat
    PROVE  RequestFor(obj, pos, mv, ma) \in Int
  <1>1. obj.kind \in {"FIXED", "PPS", "AVS"}
    BY DEF Objects
  <1>2. (ma \div 10) * 2^10 + ma \div 10 \in Int
    OBVIOUS
  <1>3. (mv \div 20) * 2^9 + ma \div 50 \in Int /\ (mv \div 25) * 2^9 + ma \div 50 \in Int
    OBVIOUS
  <1>4. pos * 2^28 \in Int
    OBVIOUS
  <1> QED
    BY <1>1, <1>2, <1>3, <1>4 DEF RequestFor

\* What a sink asks of one object.
AskOf(obj, i) ==
    CASE obj.kind = "FIXED" -> [rdo |-> RequestFor(obj, i, obj.mv, obj.ma), mv |-> obj.mv]
      [] obj.kind = "PPS" -> [rdo |-> RequestFor(obj, i, obj.max_mv, obj.ma), mv |-> obj.max_mv]
      [] obj.kind = "AVS" -> [rdo |-> RequestFor(obj, i, 9000, obj.ma_15v), mv |-> 9000]

LEMMA AsksOut ==
    ASSUME NEW t, NEW a \in Asks(t)
    PROVE  \E i \in DOMAIN t.obj : t.obj[i].kind \in Takes /\ a = AskOf(t.obj[i], i)
  <1> DEFINE of(i, mv, ma) == [rdo |-> RequestFor(t.obj[i], i, mv, ma), mv |-> mv]
             All(i) == CASE t.obj[i].kind = "FIXED" -> of(i, t.obj[i].mv, t.obj[i].ma)
                         [] t.obj[i].kind = "PPS" -> of(i, t.obj[i].max_mv, t.obj[i].ma)
                         [] t.obj[i].kind = "AVS" -> of(i, 9000, t.obj[i].ma_15v)
  <1>1. Asks(t) = {All(i) : i \in {j \in DOMAIN t.obj : t.obj[j].kind \in Takes}}
    BY DEF Asks
  <1>2. \A i : All(i) = AskOf(t.obj[i], i)
    BY DEF AskOf
  <1> HIDE DEF All
  <1>3. PICK i \in {j \in DOMAIN t.obj : t.obj[j].kind \in Takes} : a = All(i)
    BY <1>1
  <1> QED
    BY <1>2, <1>3

LEMMA AskedIsNumber ==
    ASSUME NEW t, t.obj \in Seq(Objects), NEW a \in Asks(t)
    PROVE  a.rdo \in Int
  <1>1. PICK i \in DOMAIN t.obj : a = AskOf(t.obj[i], i)
    BY AsksOut
  <1> DEFINE obj == t.obj[i]
  <1>2. i \in Nat /\ obj \in Objects
    OBVIOUS
  <1> HIDE DEF obj
  <1>3. CASE obj.kind = "FIXED"
    <2>1. obj.mv \in Nat /\ obj.ma \in Nat
      BY <1>2, <1>3, ObjectFields, MilliVoltsNat
    <2>2. a.rdo = RequestFor(obj, i, obj.mv, obj.ma)
      BY <1>1, <1>3 DEF obj, AskOf
    <2> QED
      BY <1>2, <2>1, <2>2, RequestIsNumber
  <1>4. CASE obj.kind = "PPS"
    <2>1. obj.max_mv \in Nat /\ obj.ma \in Nat
      BY <1>2, <1>4, ObjectFields, MilliVoltsNat
    <2>2. a.rdo = RequestFor(obj, i, obj.max_mv, obj.ma)
      BY <1>1, <1>4 DEF obj, AskOf
    <2> QED
      BY <1>2, <2>1, <2>2, RequestIsNumber
  <1>5. CASE obj.kind = "AVS"
    <2>1. obj.ma_15v \in Nat
      BY <1>2, <1>5, ObjectFields
    <2>2. PICK v \in Nat : v = 9000
      OBVIOUS
    <2>3. a.rdo = RequestFor(obj, i, v, obj.ma_15v)
      <3>1. a = [rdo |-> RequestFor(obj, i, 9000, obj.ma_15v), mv |-> 9000]
        BY <1>1, <1>5 DEF obj, AskOf
      <3> QED
        BY <2>2, <3>1
    <2>4. RequestFor(obj, i, v, obj.ma_15v) \in Int
      BY <1>2, <2>1, RequestIsNumber
    <2> QED
      BY <2>3, <2>4
  <1> QED
    BY <1>2, <1>3, <1>4, <1>5, ObjectFields

LEMMA GrantOut ==
    ASSUME NEW ok, NEW pos, NEW kind, NEW mv, NEW op, NEW limit, NEW g \in Grant(ok, pos, kind, mv, op, limit)
    PROVE  ok /\ g.mv = mv /\ g.limit_ma = limit /\ g.kind = kind
BY DEF Grant

LEMMA GrantedVoltage ==
    ASSUME NEW t, t.obj \in Seq(Objects), NEW rdo \in Int, NEW g \in check_request(t, rdo)
    PROVE  g.mv \in MilliVolts
  <1> DEFINE pos == rdo_position(rdo)
             obj == t.obj[pos]
  <1>1. pos \in Nat /\ rdo_voltage(rdo) \in Nat
    BY FieldsOfRequest
  <1>2. /\ ~(pos = 0 \/ pos > Len(t.obj))
        /\ g \in CASE obj.kind = "PPS" -> check_pps(t, obj, pos, rdo)
                   [] obj.kind = "AVS" -> check_avs(obj, pos, rdo)
                   [] obj.kind = "FIXED" ->
                        Grant(rdo_fixed_ma(rdo) <= obj.ma, pos, "FIXED", obj.mv, rdo_fixed_ma(rdo),
                              obj.ma)
    BY DEF check_request
  <1>3. obj \in Objects
    BY <1>1, <1>2
  <1> HIDE DEF obj, pos
  <1>4. obj.kind \in {"FIXED", "PPS", "AVS"}
    BY <1>3 DEF Objects
  <1>5. CASE obj.kind = "FIXED"
    <2>1. g.mv = obj.mv
      BY <1>2, <1>5, GrantOut
    <2> QED
      BY <1>3, <1>5, <2>1 DEF Objects
  <1>6. CASE obj.kind = "PPS"
    <2>1. g \in check_pps(t, obj, pos, rdo)
      BY <1>2, <1>6
    <2>2. /\ ~(rdo_voltage(rdo) * 20 < 5000 \/ rdo_voltage(rdo) * 20 > obj.max_mv)
          /\ g.mv = rdo_voltage(rdo) * 20
      BY <2>1, GrantOut DEF check_pps
    <2>3. obj.max_mv \in Nat /\ obj.max_mv <= 23000
      BY <1>3, <1>6, ObjectFields, MilliVoltsNat
    <2>4. g.mv \in Nat /\ g.mv <= 23000
      BY <1>1, <2>2, <2>3
    <2> QED
      BY <2>4, VoltsOf
  <1>7. CASE obj.kind = "AVS"
    <2>1. g \in check_avs(obj, pos, rdo)
      BY <1>2, <1>7
    <2>2. PICK top \in {15000, 20000} : g.mv = rdo_voltage(rdo) * 25 /\ g.mv >= 9000 /\ g.mv <= top
      <3>1. /\ g.mv = rdo_voltage(rdo) * 25 /\ rdo_voltage(rdo) * 25 >= 9000
            /\ rdo_voltage(rdo) * 25 <= IF obj.ma_20v > 0 THEN 20000 ELSE 15000
        BY <2>1 DEF check_avs, Grant
      <3> QED
        BY <3>1
    <2>3. g.mv \in Nat /\ g.mv <= 23000
      BY <1>1, <2>2
    <2> QED
      BY <2>3, VoltsOf
  <1> QED
    BY <1>4, <1>5, <1>6, <1>7

------------------------------------------------------------------------------
(* What is offered, asked for and granted keeps its shape *)

LEMMA ImageFields ==
    ASSUME NEW c \in Configs \cup {Off}
    PROVE  c.max_w \in Watts /\ c.max_mv \in Caps
  <1>1. CASE c = Off
    <2>1. 0 \in Watts /\ 0 \in Caps
      BY DEF Watts, Caps, BLADE_MAX_MV_ALL
    <2> QED
      BY <1>1, <2>1 DEF Off
  <1>2. CASE c \in Configs
    <2>1. Configs \subseteq [port_en : BOOLEAN, max_w : Watts, max_mv : Caps]
      <3>1. Configs \subseteq [port_en : BOOLEAN, max_w : 0..100, max_mv : 0..BLADE_MAX_MV_ALL]
        BY BladeAssumption
      <3>2. Watts = 0..100 /\ Caps = 0..BLADE_MAX_MV_ALL
        BY Zenon DEF Watts, Caps
      <3> QED
        BY <3>1, <3>2, Zenon
    <2> QED
      BY <1>2, <2>1
  <1> QED
    BY <1>1, <1>2

LEMMA CablesNat == 3000 \in Nat /\ \A c \in Cables : c \in Nat
BY BladeAssumption DEF BladeAssumption

LEMMA NewImage ==
    ASSUME NEW lim \in LimitsType, NEW c \in Configs \cup {Off},
           NEW y, y = [lim EXCEPT !.max_w = c.max_w, !.max_mv = c.max_mv]
    PROVE  y \in LimitsType
  <1>1. c.max_w \in Watts /\ c.max_mv \in Caps
    BY ImageFields
  <1> QED
    BY ONLY <1>1, lim \in LimitsType, y = [lim EXCEPT !.max_w = c.max_w, !.max_mv = c.max_mv]
       DEF LimitsType

LEMMA NewCable ==
    ASSUME NEW lim \in LimitsType, NEW c \in Nat, NEW y, y = [lim EXCEPT !.cable_ma = c]
    PROVE  y \in LimitsType
BY DEF LimitsType

LEMMA TableShape ==
    ASSUME limits \in LimitsType
    PROVE  /\ table.obj \in Seq(Objects) /\ Len(table.obj) <= 7
           /\ \A i \in DOMAIN table.obj : Affords(table.power_mw, table.obj[i])
  <1>1. table.obj \in Seq(Within(table.power_mw)) /\ Len(table.obj) <= 7
    BY TableOfObjects DEF table
  <1>2. \A i \in 1..Len(table.obj) : table.obj[i] \in Within(table.power_mw)
    BY <1>1
  <1>3. \A i \in 1..Len(table.obj) :
           table.obj[i] \in Objects /\ Affords(table.power_mw, table.obj[i])
    BY <1>2 DEF Within
  <1>4. table.obj = [i \in 1..Len(table.obj) |-> table.obj[i]] /\ Len(table.obj) \in Nat
    BY <1>1
  <1> QED
    BY <1>1, <1>3, <1>4

LEMMA TakeInputOffers ==
    ASSUME Offered, TakeInput
    PROVE  Offered'
  <1>1. /\ limits' = IF changed THEN [limits EXCEPT !.max_w = image.max_w, !.max_mv = image.max_mv]
                     ELSE limits
        /\ image' = image /\ told' = told /\ asked' = asked /\ pending' = pending
    BY DEF TakeInput
  <1>2. limits' \in LimitsType
    BY <1>1, NewImage DEF Offered
  <1> QED
    BY <1>1, <1>2 DEF Offered

LEMMA DecideOffers ==
    ASSUME Offered, Decide
    PROVE  Offered'
  <1>1. /\ limits' = limits /\ image' = image
        /\ told' \in {told, {}} /\ asked' \in {asked, {}} /\ pending' \in {pending, {}}
    BY DEF Decide, ask_the_engine, input_vars
  <1> QED
    BY <1>1 DEF Offered

LEMMA StackOffers ==
    ASSUME Offered, Stack
    PROVE  Offered'
  <1>1. Callback /\ image' = image
    BY StackLeaves DEF Callback, input_vars
  <1>2. limits \in LimitsType
    BY DEF Offered
  <1>3. CASE NoCallback
    BY <1>1, <1>3 DEF NoCallback, KeepsPort, port_vars, Offered
  <1>4. CASE CadSees
    BY <1>1, <1>4 DEF CadSees, Offered
  <1>5. CASE Attach
    BY <1>1, <1>5 DEF Attach, Offered
  <1>6. CASE Detach
    <2>1. limits' = [limits EXCEPT !.cable_ma = 3000]
      BY <1>6 DEF Detach
    <2>2. limits' \in LimitsType
      BY <1>2, <2>1, NewCable, CablesNat
    <2> QED
      BY <1>1, <1>6, <2>2 DEF Detach, Offered
  <1>7. CASE CableAnswers
    <2>1. PICK c \in Cables : limits' = [limits EXCEPT !.cable_ma = c]
      BY <1>7 DEF CableAnswers
    <2>2. limits' \in LimitsType
      BY <1>2, <2>1, NewCable, CablesNat
    <2> QED
      BY <1>1, <1>7, <2>2 DEF CableAnswers, Offered
  <1>8. CASE GetPortPDOs
    <2>1. told' = {table} /\ asked' = {} /\ limits' = limits /\ pending' = pending
      BY <1>8 DEF GetPortPDOs
    <2>2. table.obj \in Seq(Objects)
      BY <1>2, TableShape
    <2> QED
      BY <1>1, <2>1, <2>2 DEF Offered
  <1>9. CASE Request
    <2>1. PICK t \in told : \E a \in Asks(t) : asked' = {a}
      BY <1>9 DEF Request
    <2>2. PICK a \in Asks(t) : asked' = {a}
      BY <2>1
    <2>3. t.obj \in Seq(Objects)
      BY <2>1 DEF Offered
    <2>4. a.rdo \in Int
      BY <2>2, <2>3, AskedIsNumber
    <2>5. told' = {} /\ limits' = limits /\ pending' = pending
      BY <1>9 DEF Request
    <2> QED
      BY <1>1, <2>2, <2>4, <2>5 DEF Offered
  <1>10. CASE EvaluateRequest
    <2>1. /\ limits' = limits /\ told' = told /\ asked' \in {asked, {}}
          /\ \/ pending' = pending
             \/ pending' = IF ~sup.armed THEN {} ELSE UNION {check_request(table, a.rdo) : a \in asked}
      BY <1>10 DEF EvaluateRequest
    <2>2. table.obj \in Seq(Objects)
      BY <1>2, TableShape
    <2>3. ASSUME NEW g \in pending'
          PROVE  g.mv \in MilliVolts
      <3>1. CASE pending' = pending
        BY <2>3, <3>1 DEF Offered
      <3>2. CASE pending' # pending
        <4>1. g \in UNION {check_request(table, a.rdo) : a \in asked}
          BY <2>1, <2>3, <3>2
        <4>2. PICK a \in asked : g \in check_request(table, a.rdo)
          BY <4>1
        <4>3. a.rdo \in Int
          BY <4>2 DEF Offered
        <4> QED
          BY <2>2, <4>2, <4>3, GrantedVoltage
      <3> QED
        BY <3>1, <3>2
    <2> QED
      BY <1>1, <2>1, <2>3 DEF Offered
  <1>11. CASE SetupNewPower
    <2>1. pending' = {} /\ asked' = {} /\ limits' = limits /\ told' = told
      BY <1>11 DEF SetupNewPower
    <2> QED
      BY <1>1, <2>1 DEF Offered
  <1>12. CASE HardReset
    BY <1>1, <1>12 DEF HardReset, Offered
  <1>13. CASE HardResetOff
    BY <1>1, <1>13 DEF HardResetOff, Offered
  <1>14. CASE HardResetOn
    BY <1>1, <1>14 DEF HardResetOn, Offered
  <1> QED
    BY <1>3, <1>4, <1>5, <1>6, <1>7, <1>8, <1>9, <1>10, <1>11, <1>12, <1>13, <1>14 DEF Stack

LEMMA NothingOffered ==
    ASSUME limits' = NoLimits, image' = Off, told' = {}, asked' = {}, pending' = {}
    PROVE  Offered'
  <1>1. 0 \in Watts /\ 0 \in Caps
    BY DEF Watts, Caps, BLADE_MAX_MV_ALL
  <1>2. NoLimits \in LimitsType
    BY <1>1, CablesNat DEF NoLimits, LimitsType
  <1> QED
    BY <1>2 DEF Offered

LEMMA OutsideOffers ==
    ASSUME Offered, FromOutside
    PROVE  Offered'
  <1>1. CASE EnChanges \/ push_command \/ OverVoltage \/ Slew
    BY <1>1 DEF EnChanges, push_command, OverVoltage, Slew, Outside, port_vars, input_vars, Offered
  <1>2. CASE Configure
    BY <1>2 DEF Configure, Outside, port_vars, Offered
  <1>3. CASE Restart
    BY <1>3, NothingOffered DEF Restart, Started
  <1> QED
    BY <1>1, <1>2, <1>3 DEF FromOutside

LEMMA OfferedStays ==
    ASSUME Offered, [BladeNext]_blade_vars
    PROVE  Offered'
  <1>1. CASE Follow \/ Poll
    BY <1>1 DEF Follow, Poll, port_vars, input_vars, Offered
  <1>2. CASE TakeInput
    BY <1>2, TakeInputOffers
  <1>3. CASE Decide
    BY <1>3, DecideOffers
  <1>4. CASE Stack
    BY <1>4, StackOffers
  <1>5. CASE FromOutside
    BY <1>5, OutsideOffers
  <1>6. CASE UNCHANGED blade_vars
    BY <1>6 DEF blade_vars, Offered
  <1> QED
    BY <1>1, <1>2, <1>3, <1>4, <1>5, <1>6 DEF BladeNext, Turn

------------------------------------------------------------------------------
(* The steps of the supervisor and of the stack, and what comes between *)

\* A step that turns no port on.
StaysOff == pw'.vbus_on => pw.vbus_on

\* A state of the path that a step goes to, in a step that leaves EN alone.
LEMMA KeptNext ==
    ASSUME en_pin' = en_pin, Kept(pw')
    PROVE  Kept(pw)'
BY DEF Kept, PathHolds, Covered, Headed, Switched, Carries

LEMMA FreshKept ==
    ASSUME NEW x, PathHolds(x), ~x.vbus_on => ~Carries(x), NEW y, y = Fresh(x)
    PROVE  /\ Kept(y) /\ Alike(x, y) /\ AsTold(x, y) /\ AsIs(x, y)
  <1>1. /\ PathHolds(y) /\ Alike(x, y) /\ AsTold(x, y) /\ AsIs(x, y) /\ y.failed = 0
    BY FreshHolds
  <1> QED
    BY <1>1 DEF Kept, Carries, Alike, AsTold, AsIs

\* A port whose line goes down.
LEMMA DownKept ==
    ASSUME NEW x, PathHolds(x), NEW y, y = power_port_down(Fresh(x))
    PROVE  /\ Kept(y) /\ IsDark(y) /\ y.port_up = FALSE /\ ~y.gate /\ y.conv_ready = x.conv_ready
  <1>1. PICK z : z = Fresh(x)
    OBVIOUS
  <1>2. PathHolds(z) /\ Alike(x, z) /\ z.failed = 0
    BY <1>1, FreshHolds
  <1>3. y = power_port_down(z)
    BY <1>1
  <1>4. /\ PathHolds(y) /\ IsDark(y) /\ y.port_up = FALSE /\ ~y.gate
        /\ y.conv_ready = z.conv_ready /\ y.failed = z.failed
    BY <1>2, <1>3, PortDownHolds
  <1> QED
    BY <1>2, <1>4 DEF Kept, Carries, Alike

\* A step that only moves the turn on, with what it reads.
LEMMA Supervises ==
    ASSUME PowerInv, pw' = pw, pe' = pe, en_pin' = en_pin, alerting' \in BOOLEAN,
           sup' \in SupType, pc # "left", pc' \in {"input", "poll", "decide"},
           sup'.line_up = sup.line_up, sup'.armed = sup.armed, sup'.en = sup.en,
           sup'.conv_pending = sup.conv_pending
    PROVE  PowerInv' /\ StaysOff
  <1>1. Kept(pw)'
    BY KeptNext DEF PowerInv
  <1>2. Supervised'
    BY DEF PowerInv, Supervised, IsDark
  <1>3. Powered'
    BY DEF PowerInv, Powered, Reached
  <1> QED
    BY <1>1, <1>2, <1>3 DEF PowerInv, StaysOff

LEMMA PollPowers ==
    ASSUME PowerInv, Poll
    PROVE  PowerInv' /\ StaysOff
  <1>1. /\ pw' = pw /\ pe' = pe /\ en_pin' = en_pin /\ sup' = sup /\ pc = "poll" /\ pc' = "decide"
        /\ sup \in SupType
    BY DEF Poll, port_vars, PowerInv
  <1>2. alerting' \in BOOLEAN
    <2>1. alerting' \in {alerting \/ tripped(pw), TRUE}
      BY DEF Poll
    <2> QED
      BY <2>1
  <1> QED
    BY <1>1, <1>2, Supervises

\* What the supervisor finds of the converter at EN.
LEMMA ConverterLost ==
    ASSUME NEW x, Kept(x), NEW y, y = [x EXCEPT !.conv_ready = FALSE, !.setpoint = 0]
    PROVE  /\ Kept(y) /\ AsIs(x, y) /\ y.vbus_on = x.vbus_on /\ y.switch = x.switch
           /\ y.port_up = x.port_up /\ y.conv_ready = FALSE
  <1>1. x \in PwType /\ 0 \in MilliVolts
    BY VoltLevels DEF Kept, PathHolds
  <1>2. y \in PwType /\ y.conv_ready = FALSE
    BY ONLY <1>1, y = [x EXCEPT !.conv_ready = FALSE, !.setpoint = 0] DEF PwType
  <1>3. /\ AsIs(x, y) /\ AsTold(x, y) /\ y.vbus_on = x.vbus_on /\ y.switch = x.switch
        /\ y.port_up = x.port_up /\ y.threshold = x.threshold /\ y.failed = x.failed
    BY ONLY <1>1, y = [x EXCEPT !.conv_ready = FALSE, !.setpoint = 0] DEF PwType, AsIs, AsTold
  <1>4. PathHolds(y)
    BY <1>2, <1>3 DEF Kept, PathHolds, Covered, Headed, Switched, AsIs, AsTold
  <1> QED
    BY <1>2, <1>3, <1>4 DEF Kept, Carries, AsIs, AsTold

LEMMA ConverterFound ==
    ASSUME NEW x, Kept(x), NEW y \in PwType, ~y.oe, AsIs(x, y), y.vbus_on = x.vbus_on,
           y.switch = x.switch, y.port_up = x.port_up, y.failed = x.failed
    PROVE  Kept(y)
  <1>1. PathHolds(y)
    BY DEF Kept, PathHolds, Covered, Headed, Switched, AsIs
  <1> QED
    BY <1>1 DEF Kept, Carries, AsIs

LEMMA FollowPowers ==
    ASSUME PowerInv, Follow
    PROVE  PowerInv' /\ StaysOff
  <1>1. /\ pc = "follow" /\ pc' = "input" /\ en_pin' = en_pin /\ pe' = pe
        /\ en_pin \in BOOLEAN /\ alerting \in BOOLEAN /\ sup \in SupType /\ Kept(pw)
        /\ Supervised /\ Powered
    BY DEF Follow, port_vars, PowerInv
  <1>2. CASE en_pin # sup.en
    <2>1. /\ sup' = [sup EXCEPT !.en = en_pin, !.conv_pending = en_pin] /\ alerting' = alerting
          /\ pw' = IF en_pin THEN pw ELSE [pw EXCEPT !.conv_ready = FALSE, !.setpoint = 0]
      BY <1>2 DEF Follow
    <2>2. /\ sup' \in SupType /\ sup'.line_up = sup.line_up /\ sup'.armed = sup.armed
          /\ sup'.en = en_pin /\ sup'.conv_pending = en_pin
      BY ONLY <1>1, <2>1 DEF SupType
    <2>3. CASE en_pin
      <3>1. pw' = pw
        BY <2>1, <2>3
      <3>2. ~sup.en
        BY <1>1, <1>2, <2>3 DEF SupType
      <3>3. Supervised'
        BY <1>1, <2>2, <2>3, <3>1, <3>2 DEF Supervised, IsDark
      <3>4. Kept(pw)' /\ Powered'
        BY <1>1, <3>1, KeptNext DEF Powered, Reached
      <3> QED
        BY <1>1, <2>1, <2>2, <3>1, <3>3, <3>4 DEF PowerInv, StaysOff
    <2>4. CASE ~en_pin
      <3>1. pw' = [pw EXCEPT !.conv_ready = FALSE, !.setpoint = 0]
        BY <2>1, <2>4
      <3>2. /\ Kept(pw') /\ AsIs(pw, pw') /\ pw'.vbus_on = pw.vbus_on /\ pw'.switch = pw.switch
            /\ pw'.port_up = pw.port_up /\ pw'.conv_ready = FALSE
        BY <1>1, <3>1, ConverterLost
      <3>3. Supervised'
        BY <1>1, <2>2, <2>4, <3>2 DEF Supervised, IsDark, AsIs
      <3>4. Kept(pw)' /\ Powered'
        BY <1>1, <3>2, KeptNext DEF Powered
      <3> QED
        BY <1>1, <2>1, <2>2, <3>2, <3>3, <3>4 DEF PowerInv, StaysOff
    <2> QED
      BY <1>1, <2>3, <2>4
  <1>3. CASE en_pin = sup.en /\ UNCHANGED <<sup, pw, alerting>>
    BY <1>1, <1>3, Supervises
  <1>4. CASE en_pin = sup.en /\ ~UNCHANGED <<sup, pw, alerting>>
    <2>1. /\ sup.conv_pending /\ sup' = [sup EXCEPT !.conv_pending = FALSE]
          /\ \E up \in BOOLEAN :
               /\ up => en_pin
               /\ pw' = [pw EXCEPT !.conv_ready = up, !.setpoint = 0, !.oe = FALSE, !.ref = 5000]
               /\ alerting' = (alerting \/ ~up)
      BY <1>4 DEF Follow
    <2>2. PICK up \in BOOLEAN :
            /\ up => en_pin
            /\ pw' = [pw EXCEPT !.conv_ready = up, !.setpoint = 0, !.oe = FALSE, !.ref = 5000]
            /\ alerting' = (alerting \/ ~up)
      BY <2>1
    <2>3. /\ sup' \in SupType /\ sup'.line_up = sup.line_up /\ sup'.armed = sup.armed
          /\ sup'.en = sup.en /\ sup'.conv_pending = FALSE
      <3>1. sup \in SupType /\ sup' = [sup EXCEPT !.conv_pending = FALSE]
        BY <1>1, <2>1
      <3> QED
        BY ONLY <3>1 DEF SupType
    <2>4. /\ Kept(pw') /\ AsIs(pw, pw') /\ pw'.vbus_on = pw.vbus_on /\ pw'.switch = pw.switch
          /\ pw'.port_up = pw.port_up /\ pw'.conv_ready = up
      <3>1. pw \in PwType
        BY <1>1 DEF Kept, PathHolds
      <3>2. PICK a \in MilliVolts : a = 0
        BY VoltLevels
      <3>3. PICK b \in MilliVolts : b = 5000
        BY VoltLevels
      <3>4. pw' = [pw EXCEPT !.conv_ready = up, !.setpoint = a, !.oe = FALSE, !.ref = b]
        BY <2>2, <3>2, <3>3
      <3>5. up \in BOOLEAN /\ a \in MilliVolts /\ b \in MilliVolts
        OBVIOUS
      <3>6. pw' \in PwType
        BY ONLY <3>1, <3>4, <3>5 DEF PwType
      <3>7. pw'.oe = FALSE
        BY ONLY <3>1, <3>4, <3>5 DEF PwType
      <3>8. pw'.conv_ready = up
        BY ONLY <3>1, <3>4, <3>5 DEF PwType
      <3>9. /\ AsIs(pw, pw') /\ pw'.vbus_on = pw.vbus_on /\ pw'.switch = pw.switch
            /\ pw'.port_up = pw.port_up /\ pw'.failed = pw.failed
        BY ONLY <3>1, <3>4, <3>5 DEF PwType, AsIs
      <3> QED
        BY <1>1, <3>6, <3>7, <3>8, <3>9, ConverterFound
    <2>5. ~sup.armed /\ ~pw.vbus_on
      BY <1>1, <2>1 DEF Supervised, IsDark
    <2>6. Supervised'
      BY <1>1, <1>4, <2>2, <2>3, <2>4 DEF Supervised, IsDark, AsIs
    <2>7. Kept(pw)' /\ Powered'
      BY <1>1, <2>4, <2>5, KeptNext DEF Powered
    <2>8. alerting' \in BOOLEAN
      BY <2>2
    <2> QED
      BY <1>1, <2>3, <2>4, <2>6, <2>7, <2>8 DEF PowerInv, StaysOff
  <1> QED
    BY <1>2, <1>3, <1>4

\* A step that ends with the port dark.
LEMMA DarkNext ==
    ASSUME PowerInv, en_pin' = en_pin, alerting' \in BOOLEAN, sup' \in SupType,
           pc' \in {"follow", "input", "poll", "decide", "stack", "left"},
           Kept(pw'), IsDark(pw'), Supervised'
    PROVE  PowerInv' /\ StaysOff
  <1>1. Kept(pw)'
    BY KeptNext
  <1>2. Powered'
    BY DEF Powered, IsDark
  <1> QED
    BY <1>1, <1>2 DEF PowerInv, IsDark, StaysOff

\* Disarming, and the line with it.
LEMMA DisarmDown ==
    ASSUME MaxFailed <= 1, NEW x, PathHolds(x), NEW o \in disarm(x),
           NEW y, y = power_port_down(Fresh(o.p))
    PROVE  /\ Kept(y) /\ IsDark(y) /\ y.port_up = FALSE /\ ~y.gate /\ y.conv_ready = x.conv_ready
  <1>1. Leaves(x, o.p)
    BY DisarmHolds
  <1>2. PathHolds(o.p) /\ o.p.conv_ready = x.conv_ready
    BY <1>1 DEF Leaves
  <1> QED
    BY <1>2, DownKept

LEMMA DisarmFresh ==
    ASSUME MaxFailed <= 1, NEW x, PathHolds(x), NEW o \in disarm(x), NEW y, y = Fresh(o.p)
    PROVE  /\ Kept(y) /\ IsDark(y) /\ ~y.gate /\ y.conv_ready = x.conv_ready
           /\ y.port_up = x.port_up
  <1>1. Leaves(x, o.p) /\ IsDark(o.p) /\ ~o.p.gate
    BY DisarmHolds
  <1>2. PathHolds(o.p) /\ (~o.p.vbus_on => ~Carries(o.p))
    BY <1>1 DEF Leaves, Carries
  <1>3. Kept(y) /\ Alike(o.p, y) /\ AsIs(o.p, y)
    BY <1>2, FreshKept
  <1> QED
    BY <1>1, <1>3 DEF Leaves, IsDark, Alike, AsIs

LEMMA TakeInputPowers ==
    ASSUME MaxFailed <= 1, PowerInv, image \in Configs \cup {Off}, TakeInput
    PROVE  PowerInv' /\ StaysOff
  <1> DEFINE cmd == IF cmds = <<>> THEN "none" ELSE Head(cmds)
  <1>1. /\ pc = "input" /\ en_pin' = en_pin /\ pe' = pe /\ alerting \in BOOLEAN /\ sup \in SupType
        /\ Kept(pw) /\ Supervised /\ Powered /\ PathHolds(pw)
    BY DEF TakeInput, PowerInv, Kept
  <1>2. PICK silent \in {FALSE, ~sup.en /\ image # Off} :
          LET leaves == cmd = "RESET" \/ silent
          IN  /\ pc' = IF leaves THEN "left" ELSE "poll"
              /\ CASE leaves -> leave_for_loader
                   [] ~leaves /\ raises(cmd) -> line_raise
                   [] OTHER -> Keep
    BY DEF TakeInput
  <1> HIDE DEF cmd
  <1>3. CASE cmd = "RESET" \/ silent
    <2>1. pc' = "left" /\ leave_for_loader
      BY <1>2, <1>3
    <2>2. PICK o \in disarm(pw) :
            /\ pw' = power_port_down(Fresh(o.p))
            /\ sup' = [sup EXCEPT !.armed = FALSE, !.cfg = image]
            /\ alerting' = alerting
      BY <2>1 DEF leave_for_loader
    <2>3. /\ sup' \in SupType /\ sup'.line_up = sup.line_up /\ sup'.armed = FALSE
          /\ sup'.en = sup.en /\ sup'.conv_pending = sup.conv_pending
      BY <1>1, <2>2, LeavingFields
    <2>4. /\ Kept(pw') /\ IsDark(pw') /\ pw'.port_up = FALSE /\ ~pw'.gate
          /\ pw'.conv_ready = pw.conv_ready
      BY <1>1, <2>2, DisarmDown
    <2>5. Supervised'
      BY <1>1, <2>1, <2>3, <2>4 DEF Supervised, IsDark
    <2> QED
      BY <1>1, <2>1, <2>2, <2>3, <2>4, <2>5, DarkNext
  <1>4. CASE ~(cmd = "RESET" \/ silent) /\ raises(cmd)
    <2>1. pc' = "poll" /\ line_raise /\ ~sup.line_up
      BY <1>2, <1>4 DEF raises
    <2>2. PICK o \in power_port_up(pw) :
            /\ pw' = IF o.r = "ok" THEN Fresh(o.p) ELSE power_port_down(Fresh(o.p))
            /\ sup' = [sup EXCEPT !.line_up = o.r = "ok", !.cfg = image]
            /\ alerting' = (alerting \/ o.r # "ok")
      BY <2>1, Zenon DEF line_raise
    <2>3. ~sup.armed /\ ~pw.gate
      BY <1>1, <2>1 DEF Supervised
    <2>4. /\ PathHolds(o.p) /\ IsDark(o.p) /\ ~o.p.gate /\ o.p.port_up = TRUE
          /\ o.p.conv_ready = pw.conv_ready
      BY <1>1, <2>2, <2>3, PortUpHolds
    <2>5. PICK up \in BOOLEAN : sup' = [sup EXCEPT !.line_up = up, !.cfg = image] /\ up = (o.r = "ok")
      BY <2>2
    <2>6. /\ sup' \in SupType /\ sup'.line_up = up /\ sup'.armed = sup.armed
          /\ sup'.en = sup.en /\ sup'.conv_pending = sup.conv_pending
      <3>1. /\ sup \in SupType /\ up \in BOOLEAN /\ image \in Configs \cup {Off}
            /\ sup' = [sup EXCEPT !.line_up = up, !.cfg = image]
        BY <1>1, <2>5
      <3>2. sup' \in SupType
        BY ONLY <3>1 DEF SupType
      <3>3. sup'.line_up = up
        BY ONLY <3>1 DEF SupType
      <3>4. /\ sup'.armed = sup.armed /\ sup'.en = sup.en
            /\ sup'.conv_pending = sup.conv_pending
        BY ONLY <3>1 DEF SupType
      <3> QED
        BY <3>2, <3>3, <3>4
    <2>7. /\ Kept(pw') /\ IsDark(pw') /\ ~pw'.gate /\ pw'.conv_ready = pw.conv_ready
          /\ pw'.port_up = up
      <3>1. CASE o.r = "ok"
        <4>1. Kept(pw') /\ Alike(o.p, pw') /\ AsIs(o.p, pw')
          BY <2>2, <2>4, <3>1, FreshKept DEF Carries
        <4> QED
          BY <2>4, <2>5, <3>1, <4>1 DEF Alike, AsIs, IsDark
      <3>2. CASE o.r # "ok"
        <4>1. /\ Kept(pw') /\ IsDark(pw') /\ pw'.port_up = FALSE /\ ~pw'.gate
              /\ pw'.conv_ready = o.p.conv_ready
          BY <2>2, <2>4, <3>2, DownKept
        <4> QED
          BY <2>4, <2>5, <3>2, <4>1
      <3> QED
        BY <3>1, <3>2
    <2>8. Supervised'
      BY <1>1, <2>1, <2>3, <2>6, <2>7 DEF Supervised, IsDark
    <2>9. alerting' \in BOOLEAN
      BY <2>2
    <2> QED
      BY <1>1, <2>1, <2>6, <2>7, <2>8, <2>9, DarkNext
  <1>5. CASE ~(cmd = "RESET" \/ silent) /\ ~raises(cmd)
    <2>1. pc' = "poll" /\ Keep
      BY <1>2, <1>5
    <2>2. pw' = pw /\ sup' = [sup EXCEPT !.cfg = image] /\ alerting' \in BOOLEAN
      BY <1>1, <2>1 DEF Keep
    <2>3. /\ sup' \in SupType /\ sup'.line_up = sup.line_up /\ sup'.armed = sup.armed
          /\ sup'.en = sup.en /\ sup'.conv_pending = sup.conv_pending
      BY <1>1, <2>2, CfgFields
    <2> QED
      BY <1>1, <2>1, <2>2, <2>3, Supervises
  <1> QED
    BY <1>3, <1>4, <1>5

LEMMA DecidePowers ==
    ASSUME MaxFailed <= 1, PowerInv, Decide
    PROVE  PowerInv' /\ StaysOff
  <1>1. /\ pc = "decide" /\ pc' = "stack" /\ en_pin' = en_pin /\ alerting' = alerting
        /\ alerting \in BOOLEAN /\ sup \in SupType
        /\ Kept(pw) /\ Supervised /\ Powered /\ PathHolds(pw)
        /\ pe' = pe \/ pe' = "hr_off"
    BY DEF Decide, ask_the_engine, PowerInv, Kept
  <1>2. allowed \in BOOLEAN
    BY DEF allowed
  <1>3. CASE sup.line_up /\ \E o \in disarm(pw) :
                  /\ pw' = power_port_down(Fresh(o.p))
                  /\ sup' = [sup EXCEPT !.armed = FALSE, !.line_up = FALSE]
    <2>1. PICK o \in disarm(pw) :
             /\ pw' = power_port_down(Fresh(o.p))
             /\ sup' = [sup EXCEPT !.armed = FALSE, !.line_up = FALSE]
      BY <1>3
    <2>2. /\ sup' \in SupType /\ sup'.line_up = FALSE /\ sup'.armed = FALSE
          /\ sup'.en = sup.en /\ sup'.conv_pending = sup.conv_pending
      BY <1>1, <2>1, DarkFields
    <2>3. /\ Kept(pw') /\ IsDark(pw') /\ pw'.port_up = FALSE /\ ~pw'.gate
          /\ pw'.conv_ready = pw.conv_ready
      BY <1>1, <2>1, DisarmDown
    <2>4. Supervised'
      BY <1>1, <2>2, <2>3 DEF Supervised, IsDark
    <2> QED
      BY <1>1, <2>2, <2>3, <2>4, DarkNext
  <1>4. CASE /\ allowed # sup.armed
             /\ \E o \in IF allowed THEN write_tcpp(pw) ELSE disarm(pw) : pw' = Fresh(o.p)
             /\ sup' = [sup EXCEPT !.armed = allowed]
    <2>1. PICK o \in IF allowed THEN write_tcpp(pw) ELSE disarm(pw) : pw' = Fresh(o.p)
      BY <1>4
    <2>2. PICK a \in BOOLEAN : a = allowed /\ sup' = [sup EXCEPT !.armed = a]
      BY <1>2, <1>4
    <2>3. /\ sup' \in SupType /\ sup'.line_up = sup.line_up /\ sup'.armed = a
          /\ sup'.en = sup.en /\ sup'.conv_pending = sup.conv_pending
      BY <1>1, <2>2, ArmedFields
    <2>4. /\ Kept(pw') /\ IsDark(pw') /\ ~pw'.gate /\ pw'.conv_ready = pw.conv_ready
          /\ pw'.port_up = pw.port_up
      <3>1. CASE allowed
        <4>1. o \in write_tcpp(pw) /\ ~sup.armed
          BY <1>1, <1>4, <2>1, <3>1 DEF SupType
        <4>2. IsDark(pw) /\ ~pw.gate
          BY <1>1, <4>1 DEF Supervised
        <4>3. /\ Leaves(pw, o.p) /\ IsDark(o.p) /\ (o.p.gate => pw.gate)
          BY <1>1, <4>1, <4>2, DarkControl
        <4>4. PathHolds(o.p) /\ (~o.p.vbus_on => ~Carries(o.p))
          BY <4>2, <4>3 DEF Leaves, Carries
        <4>5. Kept(pw') /\ Alike(o.p, pw') /\ AsIs(o.p, pw')
          BY <2>1, <4>4, FreshKept
        <4> QED
          BY <4>2, <4>3, <4>5 DEF Leaves, Alike, AsIs, IsDark
      <3>2. CASE ~allowed
        <4>1. o \in disarm(pw)
          BY <2>1, <3>2
        <4> QED
          BY <1>1, <2>1, <4>1, DisarmFresh
      <3> QED
        BY <3>1, <3>2
    <2>5. a => sup.line_up /\ sup.en /\ pw.conv_ready
      BY <2>2 DEF allowed
    <2>6. Supervised'
      BY <1>1, <2>3, <2>4, <2>5 DEF Supervised, IsDark
    <2> QED
      BY <1>1, <2>3, <2>4, <2>6, DarkNext
  <1>5. CASE allowed = sup.armed /\ UNCHANGED <<pw, sup>>
    <2>1. sup.armed => sup.en /\ pw.conv_ready
      BY <1>5 DEF allowed
    <2>2. Supervised'
      BY <1>1, <1>5, <2>1 DEF Supervised, IsDark
    <2>3. Kept(pw)'
      BY <1>1, <1>5, KeptNext
    <2>4. Powered'
      BY <1>1, <1>5 DEF Powered, Reached
    <2> QED
      BY <1>1, <1>5, <2>2, <2>3, <2>4 DEF PowerInv, StaysOff
  <1> QED
    BY <1>3, <1>4, <1>5 DEF Decide


------------------------------------------------------------------------------
(* The callbacks of the stack *)

LEMMA StackAlerts ==
    ASSUME PowerInv, Stack
    PROVE  /\ pc = "stack" /\ pc' = "follow" /\ en_pin' = en_pin /\ image' = image /\ sup' = sup
           /\ alerting' \in BOOLEAN
  <1>1. Callback /\ sup' = sup /\ (alerting' = alerting \/ \E to : VBUSEnable(to))
    BY StackLeaves
  <1>2. alerting \in BOOLEAN
    BY DEF PowerInv
  <1>3. alerting' \in BOOLEAN
    <2>1. CASE alerting' = alerting
      BY <1>2, <2>1
    <2>2. CASE \E to : VBUSEnable(to)
      <3>1. \E o : alerting' = (alerting \/ o.r # "ok")
        BY <2>2, Zenon DEF VBUSEnable
      <3> QED
        BY <3>1
    <2> QED
      BY <1>1, <2>1, <2>2
  <1> QED
    BY <1>1, <1>3 DEF Callback, input_vars

\* Where a callback leaves the path.
Left(x) ==
    /\ Kept(x) /\ x.port_up = pw.port_up /\ x.conv_ready = pw.conv_ready
    /\ ~sup.armed => ~x.gate /\ IsDark(x)

LEMMA StackNext ==
    ASSUME PowerInv, Stack, Left(pw'), Powered'
    PROVE  PowerInv'
  <1>1. /\ pc = "stack" /\ pc' = "follow" /\ en_pin' = en_pin /\ sup' = sup
        /\ alerting' \in BOOLEAN
    BY StackAlerts
  <1>2. Kept(pw)'
    BY <1>1, KeptNext DEF Left
  <1>3. Supervised'
    BY <1>1 DEF PowerInv, Supervised, IsDark, Left
  <1> QED
    BY <1>1, <1>2, <1>3 DEF PowerInv

LEMMA LeftAlone ==
    ASSUME PowerInv, Stack
    PROVE  Left(pw)
  <1>1. pc = "stack"
    BY StackAlerts
  <1> QED
    BY <1>1 DEF PowerInv, Supervised, Left

\* VBUS is asked for on a port that is off.
LEMMA EnablePowers ==
    ASSUME MaxFailed <= 1, PowerInv, Stack, ~pw.vbus_on, VBUSEnable("startup")
    PROVE  PowerInv'
  <1>1. Kept(pw) /\ PathHolds(pw) /\ ~Carries(pw) /\ pc = "stack" /\ Left(pw)
    BY StackAlerts, LeftAlone DEF PowerInv, Kept
  <1>2. PICK o \in IF sup.armed THEN power_vbus_on(pw) ELSE Stops(pw, "not_ready") :
           pw' = Fresh(o.p) /\ pe' = "startup"
    BY Zenon DEF VBUSEnable
  <1>3. CASE sup.armed
    <2>1. pw.conv_ready
      BY <1>1, <1>3 DEF PowerInv, Supervised
    <2>2. /\ Leaves(pw, o.p) /\ (o.p.vbus_on => Reached(o.p))
          /\ (~o.p.vbus_on => ~Carries(o.p))
      BY <1>1, <1>2, <1>3, <2>1, VbusOnHolds
    <2>3. Kept(pw') /\ Alike(o.p, pw') /\ AsTold(o.p, pw') /\ AsIs(o.p, pw')
      BY <1>2, <2>2, FreshKept DEF Leaves
    <2>4. Left(pw')
      BY <1>3, <2>2, <2>3 DEF Left, Leaves, Alike
    <2>5. Powered'
      BY <1>2, <2>2, <2>3 DEF Powered, Reached, Alike, AsTold, AsIs
    <2> QED
      BY <2>4, <2>5, StackNext
  <1>4. CASE ~sup.armed
    <2>1. pw' = Fresh(pw)
      BY <1>2, <1>4 DEF Stops
    <2>2. Kept(pw') /\ Alike(pw, pw') /\ AsTold(pw, pw') /\ AsIs(pw, pw')
      BY <1>1, <2>1, FreshKept
    <2>3. Left(pw')
      BY <1>1, <2>2 DEF Left, IsDark, Alike, AsIs
    <2>4. Powered'
      BY <1>4, <2>3 DEF Powered, Left, IsDark
    <2> QED
      BY <2>3, <2>4, StackNext
  <1> QED
    BY <1>3, <1>4

LEMMA DisablePowers ==
    ASSUME MaxFailed <= 1, PowerInv, Stack, VBUSDisable
    PROVE  PowerInv' /\ StaysOff
  <1>1. Kept(pw) /\ PathHolds(pw) /\ pc = "stack" /\ Left(pw)
    BY StackAlerts, LeftAlone DEF PowerInv, Kept
  <1>2. PICK o \in IF sup.armed THEN power_vbus_off(pw) ELSE Done(pw) : pw' = Fresh(o.p)
    BY DEF VBUSDisable
  <1>3. Left(pw') /\ IsDark(pw')
    <2>1. CASE sup.armed
      <3>1. pw.conv_ready
        BY <1>1, <2>1 DEF PowerInv, Supervised
      <3>2. Leaves(pw, o.p) /\ IsDark(o.p) /\ ~Carries(o.p)
        BY <1>1, <1>2, <2>1, <3>1, VbusOffHolds
      <3>3. Kept(pw') /\ Alike(o.p, pw') /\ AsIs(o.p, pw')
        BY <1>2, <3>2, FreshKept DEF Leaves
      <3> QED
        BY <2>1, <3>2, <3>3 DEF Left, Leaves, IsDark, Alike
    <2>2. CASE ~sup.armed
      <3>1. pw' = Fresh(pw)
        BY <1>2, <2>2 DEF Done
      <3>2. Kept(pw') /\ Alike(pw, pw') /\ AsIs(pw, pw')
        BY <1>1, <3>1, FreshKept DEF Kept
      <3> QED
        BY <1>1, <2>2, <3>2 DEF Left, IsDark, Alike, AsIs
    <2> QED
      BY <2>1, <2>2
  <1>4. Powered'
    BY <1>3 DEF Powered, IsDark
  <1> QED
    BY <1>3, <1>4, StackNext DEF IsDark, StaysOff

LEMMA SetupPowers ==
    ASSUME PowerInv, Offered, SetupNewPower
    PROVE  PowerInv' /\ StaysOff
  <1>1. Stack
    BY DEF Stack
  <1>2. /\ Kept(pw) /\ PathHolds(pw) /\ pc = "stack" /\ Left(pw)
        /\ pw.vbus_on /\ pw.conv_ready => Reached(pw)
    BY <1>1, StackAlerts, LeftAlone DEF PowerInv, Kept, Powered, SetupNewPower
  <1>3. PICK req \in pending : \E o \in power_set(pw, req.mv) :
           /\ pw' = Fresh(o.p)
           /\ pe' = IF o.r = "ok" THEN "ready" ELSE "hr_off"
    BY Zenon DEF SetupNewPower
  <1>4. PICK o \in power_set(pw, req.mv) :
           /\ pw' = Fresh(o.p)
           /\ pe' = IF o.r = "ok" THEN "ready" ELSE "hr_off"
    BY <1>3, Zenon
  <1>5. req.mv \in MilliVolts
    BY <1>3 DEF Offered
  <1>6. /\ Leaves(pw, o.p) /\ (o.r = "ok" => Reached(o.p))
        /\ o.p = pw \/ (pw.vbus_on /\ o.p.vbus_on)
    BY <1>2, <1>4, <1>5, PowerSetHolds
  <1>7. /\ Kept(pw') /\ Alike(o.p, pw') /\ AsTold(o.p, pw') /\ AsIs(o.p, pw')
    <2>1. PathHolds(o.p) /\ (~o.p.vbus_on => ~Carries(o.p))
      BY <1>2, <1>6 DEF Leaves, Kept
    <2> QED
      BY <1>4, <2>1, FreshKept
  <1>8. Left(pw')
    <2>1. CASE o.p = pw
      BY <1>2, <1>7, <2>1 DEF Left, IsDark, Alike, AsIs
    <2>2. CASE pw.vbus_on /\ o.p.vbus_on
      BY <1>2, <1>6, <1>7, <2>2 DEF Left, IsDark, Leaves, Alike
    <2> QED
      BY <1>6, <2>1, <2>2
  <1>9. Powered'
    <2>1. pe' \in {"ready", "hr_off"} /\ (pe' = "ready" => o.r = "ok")
      BY <1>4
    <2> QED
      BY <1>6, <1>7, <2>1 DEF Powered, Reached, Alike, AsTold, AsIs
  <1> QED
    <2>1. StaysOff
      BY <1>6, <1>7 DEF Alike, StaysOff
    <2> QED
      BY <1>1, <1>8, <1>9, <2>1, StackNext

LEMMA StackPowers ==
    ASSUME MaxFailed <= 1, PowerInv, Offered, Stack
    PROVE  PowerInv' /\ (StaysOff \/ Attach \/ HardResetOn)
  <1>1. Left(pw) /\ Powered
    BY LeftAlone DEF PowerInv
  <1>2. CASE NoCallback
    <2>1. Powered'
      BY <1>1, <1>2 DEF NoCallback, KeepsPort, port_vars, Powered, Reached
    <2> QED
      BY <1>1, <1>2, <2>1, StackNext DEF NoCallback, StaysOff
  <1>3. CASE CadSees
    <2>1. Powered'
      BY <1>1, <1>3 DEF CadSees, Powered
    <2> QED
      BY <1>1, <1>3, <2>1, StackNext DEF CadSees, StaysOff
  <1>4. CASE Attach \/ HardResetOn
    <2>1. ~pw.vbus_on /\ VBUSEnable("startup")
      BY <1>1, <1>4 DEF Attach, HardResetOn, Powered
    <2> QED
      BY <1>4, <2>1, EnablePowers
  <1>5. CASE Detach \/ HardResetOff
    <2>1. VBUSDisable
      BY <1>5 DEF Detach, HardResetOff
    <2> QED
      BY <2>1, DisablePowers
  <1>6. CASE CableAnswers \/ GetPortPDOs \/ Request \/ EvaluateRequest
    <2>1. /\ pw' = pw /\ pe \notin {"none", "cad", "hr_on", "hr_off"}
          /\ pe' \notin {"none", "cad", "hr_on", "hr_off"}
      BY <1>6 DEF CableAnswers, GetPortPDOs, Request, EvaluateRequest
    <2>2. Powered'
      BY <1>1, <2>1 DEF Powered, Reached
    <2> QED
      BY <1>1, <2>1, <2>2, StackNext DEF StaysOff
  <1>7. CASE SetupNewPower
    BY <1>7, SetupPowers
  <1>8. CASE HardReset
    <2>1. Powered'
      BY <1>1, <1>8 DEF HardReset, Powered
    <2> QED
      BY <1>1, <1>8, <2>1, StackNext DEF HardReset, StaysOff
  <1> QED
    BY <1>2, <1>3, <1>4, <1>5, <1>6, <1>7, <1>8 DEF Stack

------------------------------------------------------------------------------
(* What comes from outside *)

LEMMA OutsideNext ==
    ASSUME PowerInv, Outside, en_pin' \in BOOLEAN, alerting' \in BOOLEAN, Kept(pw)', Alike(pw, pw'),
           pw'.gate => pw.gate, Reached(pw) => Reached(pw')
    PROVE  PowerInv' /\ StaysOff
  <1>1. pc' = pc /\ sup' = sup /\ pe' = pe
    BY DEF Outside, port_vars
  <1>2. Supervised'
    BY <1>1 DEF PowerInv, Supervised, IsDark, Alike
  <1>3. Powered'
    BY <1>1 DEF PowerInv, Powered, Alike, Reached
  <1> QED
    BY <1>1, <1>2, <1>3 DEF PowerInv, Alike, StaysOff

\* EN moves, and the converter is off in either case.
LEMMA OffByEn ==
    ASSUME NEW x \in PwType, NEW y, y = [x EXCEPT !.oe = FALSE]
    PROVE  /\ y \in PwType /\ ~y.oe /\ Alike(x, y) /\ AsIs(x, y) /\ y.ref = x.ref
           /\ y.failed = x.failed
  <1>1. y \in PwType /\ y.oe = FALSE
    BY DEF PwType
  <1>2. Alike(x, y) /\ AsIs(x, y) /\ y.ref = x.ref /\ y.failed = x.failed
    BY DEF PwType, Alike, AsIs
  <1> QED
    BY <1>1, <1>2

LEMMA EnPowers ==
    ASSUME PowerInv, EnChanges
    PROVE  PowerInv' /\ StaysOff
  <1>1. /\ pw' = [pw EXCEPT !.oe = FALSE] /\ en_pin' \in BOOLEAN /\ alerting' = alerting /\ Outside
        /\ alerting \in BOOLEAN /\ Kept(pw) /\ pw \in PwType
    BY DEF EnChanges, PowerInv, Kept, PathHolds
  <1>2. /\ pw' \in PwType /\ ~pw'.oe /\ Alike(pw, pw') /\ AsIs(pw, pw') /\ pw'.ref = pw.ref
        /\ pw'.failed = pw.failed
    BY <1>1, OffByEn
  <1>3. Kept(pw)'
    BY <1>1, <1>2 DEF Kept, PathHolds, Covered, Headed, Switched, Carries, Alike, AsIs
  <1>4. Reached(pw) => Reached(pw')
    BY <1>2 DEF Reached, Alike, AsIs
  <1> QED
    BY <1>1, <1>2, <1>3, <1>4, OutsideNext DEF AsIs

LEMMA TripPowers ==
    ASSUME PowerInv, OverVoltage
    PROVE  PowerInv' /\ StaysOff
  <1> DEFINE x == [pw EXCEPT !.trip = TRUE]
             o == [p |-> Opened(x), r |-> "tripped"]
  <1>1. /\ pw' = Opened(x) /\ en_pin' = en_pin /\ alerting' = alerting /\ Outside
        /\ en_pin \in BOOLEAN /\ alerting \in BOOLEAN /\ Kept(pw) /\ PathHolds(pw) /\ ~pw.trip
    BY DEF OverVoltage, PowerInv, Kept
  <1>2. o \in Arrives(pw)
    <2>1. ~tripped(pw)
      BY <1>1 DEF tripped
    <2> QED
      BY <2>1, Zenon DEF Arrives, Stops
  <1>3. /\ PathHolds(o.p) /\ Alike(pw, o.p) /\ AsTold(pw, o.p) /\ o.p.failed = pw.failed
        /\ ~o.p.gate \/ o.p = pw
    <2> HIDE DEF x
    <2>1. o.r = "tripped"
      OBVIOUS
    <2> HIDE DEF o
    <2> QED
      BY <1>1, <1>2, <2>1, ArrivesHolds
  <1>4. pw'.vout \in {pw.ref, pw.vout}
    <2>1. pw \in PwType /\ Covered(pw) /\ (~en_pin => ~pw.oe)
      BY <1>1 DEF PathHolds
    <2>2. /\ x \in PwType /\ x.oe = pw.oe /\ x.port_up = pw.port_up /\ x.ref = pw.ref
          /\ x.threshold = pw.threshold /\ x.vout = pw.vout
      BY <2>1 DEF PwType
    <2> HIDE DEF x
    <2>3. Covered(x)
      BY <2>1, <2>2 DEF Covered
    <2>4. pw'.vout = IF x.oe THEN x.ref ELSE x.vout
      BY <1>1, <2>1, <2>2, <2>3, OpenedShape
    <2> QED
      BY <2>2, <2>4
  <1>5. pw' = o.p
    BY <1>1
  <1> HIDE DEF x, o
  <1>6. Reached(pw) => Reached(pw')
    <2>1. pw.ref \in Int /\ pw.vout \in Int /\ pw.setpoint \in Int
      BY <1>1, PathFields DEF PathHolds
    <2> QED
      BY <1>3, <1>4, <1>5, <2>1 DEF Reached, AsTold, Alike
  <1>7. Kept(pw')
    BY <1>1, <1>3, <1>5 DEF Kept, Carries, Alike, AsTold
  <1>8. Kept(pw)'
    BY <1>1, <1>7, KeptNext
  <1> QED
    BY <1>1, <1>3, <1>5, <1>6, <1>8, OutsideNext

LEMMA VoltsAreMilliVolts == Volts \subseteq MilliVolts
  <1>1. 0 \in MilliVolts /\ 11000 \in MilliVolts /\ 21000 \in MilliVolts
    BY DEF MilliVolts
  <1>2. \A i \in DOMAIN FIXED_MV : FIXED_MV[i] \in MilliVolts
    BY DEF FIXED_MV, MilliVolts
  <1> QED
    BY <1>1, <1>2 DEF Volts

LEMMA OutputMoves ==
    ASSUME NEW x \in PwType, NEW v \in MilliVolts, NEW y, y = [x EXCEPT !.vout = v]
    PROVE  /\ y \in PwType /\ y.vout = v /\ Alike(x, y) /\ AsTold(x, y) /\ y.gate = x.gate
           /\ y.trip = x.trip /\ y.failed = x.failed
  <1>1. y \in PwType
    BY DEF PwType
  <1>2. /\ y.vout = v /\ Alike(x, y) /\ AsTold(x, y) /\ y.gate = x.gate /\ y.trip = x.trip
        /\ y.failed = x.failed
    BY DEF PwType, Alike, AsTold
  <1> QED
    BY <1>1, <1>2

LEMMA SlewPowers ==
    ASSUME PowerInv, Slew
    PROVE  PowerInv' /\ StaysOff
  <1>1. /\ en_pin' = en_pin /\ alerting' = alerting /\ Outside /\ en_pin \in BOOLEAN
        /\ alerting \in BOOLEAN /\ Kept(pw) /\ PathHolds(pw) /\ pw \in PwType /\ Covered(pw)
        /\ pw.vout \in Int /\ pw.ref \in MilliVolts /\ pw.ref \in Int /\ pw.setpoint \in Int
    BY PathFields DEF Slew, PowerInv, Kept, PathHolds
  <1>2. PICK v \in MilliVolts :
           /\ pw' = [pw EXCEPT !.vout = v]
           /\ IF pw.oe THEN v = pw.ref ELSE v < pw.vout
    <2>1. CASE pw.oe
      <3>1. pw' = [pw EXCEPT !.vout = pw.ref]
        BY <1>1, <2>1, SlewedThere DEF Slew, Covered
      <3> QED
        BY <1>1, <2>1, <3>1
    <2>2. CASE ~pw.oe
      BY <2>2, VoltsAreMilliVolts DEF Slew
    <2> QED
      BY <2>1, <2>2
  <1>3. /\ pw' \in PwType /\ pw'.vout = v /\ Alike(pw, pw') /\ AsTold(pw, pw')
        /\ pw'.gate = pw.gate /\ pw'.trip = pw.trip /\ pw'.failed = pw.failed
    BY <1>1, <1>2, OutputMoves
  <1>4. v \in Int /\ 5000 \in Int
    BY VoltLevels
  <1>5. Headed(pw')
    <2>1. CASE pw.oe
      BY <1>1, <1>2, <1>3, <1>4, <2>1, HighestOf DEF Headed, AsTold
    <2>2. CASE ~pw.oe
      BY <1>3, <2>2 DEF Headed, AsTold
    <2> QED
      BY <2>1, <2>2
  <1>6. Kept(pw')
    BY <1>1, <1>3, <1>5 DEF Kept, PathHolds, Covered, Switched, Carries, Alike, AsTold
  <1>7. Reached(pw) => Reached(pw')
    BY <1>1, <1>2, <1>3, <1>4 DEF Reached, Alike, AsTold
  <1>8. Kept(pw)'
    BY <1>1, <1>6, KeptNext
  <1> QED
    BY <1>1, <1>3, <1>7, <1>8, OutsideNext

\* What the firmware finds when it starts: a converter as it was left.
Found(q) ==
    [port_up |-> FALSE, conv_ready |-> FALSE, vbus_on |-> FALSE, contracted |-> FALSE,
     setpoint |-> 0, switch |-> FALSE, gate |-> FALSE, oe |-> q.oe, ref |-> q.ref,
     vout |-> q.vout, threshold |-> 0, trip |-> FALSE, failed |-> 0, wrong |-> q.wrong]

\* EN and the output, as a running converter has them.
Runs(q) ==
    /\ en_pin \in BOOLEAN /\ (~en_pin => ~q.oe)
    /\ q.oe => q.ref <= Highest(q.vout, 5000)

LEMMA FoundHolds ==
    ASSUME NEW q \in PwType, Runs(q), NEW x, x = Found(q)
    PROVE  PathHolds(x) /\ ~x.gate /\ IsDark(x) /\ x.conv_ready = FALSE
  <1>1. PICK z \in MilliVolts : z = 0
    BY VoltLevels
  <1>2. PICK n \in Nat : n = 0
    OBVIOUS
  <1>3. x = [port_up |-> FALSE, conv_ready |-> FALSE, vbus_on |-> FALSE, contracted |-> FALSE,
             setpoint |-> z, switch |-> FALSE, gate |-> FALSE, oe |-> q.oe, ref |-> q.ref,
             vout |-> q.vout, threshold |-> n, trip |-> FALSE, failed |-> n, wrong |-> q.wrong]
    BY <1>1, <1>2 DEF Found
  <1>4. z \in MilliVolts /\ n \in Nat /\ q \in PwType
    BY <1>1, <1>2
  <1>5. x \in PwType
    BY ONLY <1>3, <1>4 DEF PwType
  <1>6. /\ x.port_up = FALSE /\ x.gate = FALSE /\ x.vbus_on = FALSE /\ x.switch = FALSE
        /\ x.conv_ready = FALSE
    BY ONLY <1>3
  <1>7. x.oe = q.oe /\ x.ref = q.ref /\ x.vout = q.vout /\ x.failed = n
    BY ONLY <1>3
  <1>8. n <= MaxFailed
    BY <1>2, BladeAssumption
  <1>9. PathHolds(x)
    BY <1>5, <1>6, <1>7, <1>8 DEF PathHolds, Covered, Headed, Switched, Runs
  <1> QED
    BY <1>6, <1>9 DEF IsDark

LEMMA RestartPowers ==
    ASSUME PowerInv, Restart
    PROVE  PowerInv' /\ StaysOff
  <1>1. /\ pc = "left" /\ en_pin' = en_pin /\ en_pin \in BOOLEAN /\ pc' = "follow" /\ pe' = "none"
        /\ Kept(pw) /\ PathHolds(pw) /\ pw \in PwType /\ ~pw.gate
    BY DEF Restart, Started, PowerInv, Kept, PathHolds, Supervised
  <1>2. PICK x : x = Found(pw)
    OBVIOUS
  <1>3. PICK o \in power_port_up(x) :
           /\ pw' = IF o.r = "ok" THEN Fresh(o.p) ELSE power_port_down(Fresh(o.p))
           /\ sup' = [en |-> FALSE, conv_pending |-> FALSE, line_up |-> o.r = "ok", cfg |-> Off,
                      armed |-> FALSE]
           /\ alerting' = (o.r # "ok")
    BY <1>2, Zenon DEF Restart, Started, Found
  <1>4. PathHolds(x) /\ ~x.gate /\ IsDark(x) /\ x.conv_ready = FALSE
    <2>1. Runs(pw)
      BY <1>1 DEF PathHolds, Headed, Runs
    <2>2. pw \in PwType /\ x = Found(pw)
      BY <1>1, <1>2
    <2> QED
      BY ONLY <2>1, <2>2, FoundHolds
  <1>5. /\ PathHolds(o.p) /\ IsDark(o.p) /\ ~o.p.gate /\ o.p.port_up = TRUE
        /\ o.p.conv_ready = FALSE
    BY <1>3, <1>4, PortUpHolds
  <1>6. PICK up \in BOOLEAN :
           /\ up = (o.r = "ok")
           /\ sup' = [en |-> FALSE, conv_pending |-> FALSE, line_up |-> up, cfg |-> Off,
                      armed |-> FALSE]
    BY <1>3
  <1>7. sup' \in SupType
    <2>1. Off \in Configs \cup {Off}
      OBVIOUS
    <2>2. up \in BOOLEAN
      BY <1>6
    <2> HIDE DEF Off
    <2>3. sup' = [en |-> FALSE, conv_pending |-> FALSE, line_up |-> up, cfg |-> Off,
                  armed |-> FALSE]
      BY <1>6
    <2> QED
      BY ONLY <2>1, <2>2, <2>3 DEF SupType
  <1>8. sup'.line_up = up
    BY <1>6
  <1>9. sup'.armed = FALSE /\ sup'.en = FALSE /\ sup'.conv_pending = FALSE
    BY <1>6
  <1>10. /\ Kept(pw') /\ IsDark(pw') /\ ~pw'.gate /\ pw'.conv_ready = FALSE /\ pw'.port_up = up
    <2>1. CASE o.r = "ok"
      <3>1. Kept(pw') /\ Alike(o.p, pw') /\ AsIs(o.p, pw')
        BY <1>3, <1>5, <2>1, FreshKept DEF Carries
      <3> QED
        BY <1>5, <1>6, <2>1, <3>1 DEF Alike, AsIs, IsDark
    <2>2. CASE o.r # "ok"
      <3>1. /\ Kept(pw') /\ IsDark(pw') /\ pw'.port_up = FALSE /\ ~pw'.gate
            /\ pw'.conv_ready = o.p.conv_ready
        BY <1>3, <1>5, <2>2, DownKept
      <3> QED
        BY <1>5, <1>6, <2>2, <3>1
    <2> QED
      BY <2>1, <2>2
  <1>11. Supervised'
    BY <1>1, <1>8, <1>9, <1>10 DEF Supervised, IsDark
  <1>12. alerting' \in BOOLEAN
    BY <1>3
  <1> QED
    BY <1>1, <1>7, <1>10, <1>11, <1>12, DarkNext

LEMMA OutsidePowers ==
    ASSUME PowerInv, FromOutside
    PROVE  PowerInv' /\ StaysOff
  <1>1. CASE EnChanges
    BY <1>1, EnPowers
  <1>2. CASE Configure \/ push_command
    <2>1. /\ pw' = pw /\ en_pin' = en_pin /\ Outside /\ en_pin \in BOOLEAN /\ Kept(pw)
          /\ alerting \in BOOLEAN
      BY <1>2 DEF Configure, push_command, PowerInv
    <2>2. alerting' \in BOOLEAN
      <3>1. CASE Configure
        BY <2>1, <3>1 DEF Configure
      <3>2. CASE push_command
        <4>1. \E c \in Commands : alerting' = (alerting /\ c # "CLEAR_FAULTS")
          BY <3>2 DEF push_command
        <4> QED
          BY <4>1
      <3> QED
        BY <1>2, <3>1, <3>2
    <2>3. Kept(pw)' /\ Alike(pw, pw')
      BY <2>1, KeptNext DEF Alike
    <2> QED
      BY <2>1, <2>2, <2>3, OutsideNext
  <1>3. CASE OverVoltage
    BY <1>3, TripPowers
  <1>4. CASE Slew
    BY <1>4, SlewPowers
  <1>5. CASE Restart
    BY <1>5, RestartPowers
  <1> QED
    BY <1>1, <1>2, <1>3, <1>4, <1>5 DEF FromOutside

LEMMA PathStays ==
    ASSUME MaxFailed <= 1, PathInv, [BladeNext]_blade_vars
    PROVE  PathInv'
  <1>1. PowerInv /\ Offered /\ image \in Configs \cup {Off}
    BY DEF PathInv, Offered
  <1>2. Offered'
    BY <1>1, OfferedStays
  <1>3. CASE Turn
    BY <1>1, <1>2, <1>3, FollowPowers, TakeInputPowers, PollPowers, DecidePowers DEF Turn, PathInv
  <1>4. CASE Stack
    BY <1>1, <1>2, <1>4, StackPowers DEF PathInv
  <1>5. CASE FromOutside
    BY <1>1, <1>2, <1>5, OutsidePowers DEF PathInv
  <1>6. CASE UNCHANGED blade_vars
    <2>1. PowerInv'
      <3>1. Kept(pw)'
        BY <1>1, <1>6, KeptNext DEF PowerInv, blade_vars
      <3>2. Supervised'
        BY <1>1, <1>6 DEF PowerInv, Supervised, IsDark, blade_vars
      <3>3. Powered'
        BY <1>1, <1>6 DEF PowerInv, Powered, Reached, blade_vars
      <3> QED
        BY <1>1, <1>6, <3>1, <3>2, <3>3 DEF PowerInv, blade_vars
    <2> QED
      BY <1>2, <2>1 DEF PathInv
  <1> QED
    BY <1>3, <1>4, <1>5, <1>6 DEF BladeNext

AtRest(a, b, n, w) ==
    [port_up |-> FALSE, conv_ready |-> FALSE, vbus_on |-> FALSE, contracted |-> FALSE,
     setpoint |-> a, switch |-> FALSE, gate |-> FALSE, oe |-> FALSE, ref |-> b, vout |-> a,
     threshold |-> n, trip |-> FALSE, failed |-> n, wrong |-> w]

LEMMA RestTyped ==
    ASSUME NEW a \in MilliVolts, NEW b \in MilliVolts, NEW n \in Nat, NEW w \in {{}}
    PROVE  AtRest(a, b, n, w) \in PwType
  <1>1. PICK x : x = AtRest(a, b, n, w)
    OBVIOUS
  <1>2. x \in PwType
    BY <1>1 DEF PwType, AtRest
  <1> QED
    BY <1>1, <1>2

LEMMA PathStarts ==
    ASSUME BladeInit
    PROVE  PathInv
  <1>1. /\ pc = "left" /\ en_pin = FALSE /\ alerting = FALSE /\ pe = "none" /\ image = Off
        /\ limits = NoLimits /\ told = {} /\ asked = {} /\ pending = {}
        /\ sup = [en |-> FALSE, conv_pending |-> FALSE, line_up |-> FALSE, cfg |-> Off,
                  armed |-> FALSE]
        /\ pw = [port_up |-> FALSE, conv_ready |-> FALSE, vbus_on |-> FALSE, contracted |-> FALSE,
                 setpoint |-> 0, switch |-> FALSE, gate |-> FALSE, oe |-> FALSE, ref |-> 5000,
                 vout |-> 0, threshold |-> 0, trip |-> FALSE, failed |-> 0, wrong |-> {}]
    BY DEF BladeInit
  <1>2. PathHolds(pw) /\ ~pw.gate /\ IsDark(pw) /\ pw.conv_ready = FALSE
    <2>1. pw.oe = FALSE /\ pw = Found(pw)
      BY <1>1 DEF Found
    <2>2. 0 \in MilliVolts /\ 5000 \in MilliVolts /\ 0 \in Nat /\ {} \in {{}}
      BY VoltLevels
    <2>3. AtRest(0, 5000, 0, {}) \in PwType
      BY ONLY <2>2, RestTyped
    <2>4. pw = AtRest(0, 5000, 0, {})
      BY <1>1 DEF AtRest
    <2>5. pw \in PwType
      BY <2>3, <2>4
    <2>6. Runs(pw)
      <3>1. en_pin \in BOOLEAN
        BY <1>1
      <3> QED
        BY ONLY <2>1, <3>1 DEF Runs
    <2>7. PICK x : x = Found(pw)
      OBVIOUS
    <2>8. PathHolds(x) /\ ~x.gate /\ IsDark(x) /\ x.conv_ready = FALSE
      BY ONLY <2>5, <2>6, <2>7, FoundHolds
    <2>9. x = pw
      BY <2>1, <2>7
    <2> QED
      BY <2>8, <2>9
  <1>3. pw.failed = 0 /\ pw.port_up = FALSE
    BY <1>1
  <1>4. sup \in SupType /\ sup.armed = FALSE /\ sup.en = FALSE /\ sup.conv_pending = FALSE
    BY <1>1 DEF SupType
  <1>5. Kept(pw)
    BY <1>2, <1>3 DEF Kept, Carries
  <1>6. Supervised /\ Powered
    BY <1>1, <1>2, <1>3, <1>4 DEF Supervised, Powered, IsDark
  <1>7. PowerInv
    BY <1>1, <1>4, <1>5, <1>6 DEF PowerInv
  <1>8. Offered
    <2>1. 0 \in Watts /\ 0 \in Caps
      BY DEF Watts, Caps, BLADE_MAX_MV_ALL
    <2>2. NoLimits \in LimitsType
      BY <2>1, CablesNat DEF NoLimits, LimitsType
    <2> QED
      BY <1>1, <2>2 DEF Offered
  <1> QED
    BY <1>7, <1>8 DEF PathInv

LEMMA PathPromises ==
    ASSUME PathInv
    PROVE  PowerPromises
  <1>1. pw \in PwType /\ (~pw.vbus_on => ~Carries(pw))
    BY DEF PathInv, PowerInv, Kept, PathHolds
  <1>2. pw.wrong = {}
    BY <1>1, PathFields
  <1> QED
    BY <1>1, <1>2 DEF PowerPromises, Carries

\* With one transfer of a call failing at most, whichever it is, the threshold
\* covers wherever the output of a blade is sent, the switch closes only onto
\* 5 V, and a port that is not on carries nothing (power.h; power.c).
THEOREM PortKeepsPromises ==
    ASSUME MaxFailed <= 1
    PROVE  BladeSpec => []PowerPromises
<1>1. BladeInit => PathInv
  BY PathStarts
<1>2. PathInv /\ [BladeNext]_blade_vars => PathInv'
  BY PathStays
<1>3. PathInv => PowerPromises
  BY PathPromises
<1> QED
  BY <1>1, <1>2, <1>3, PTL DEF BladeSpec

------------------------------------------------------------------------------
(* What is agreed stays within what is offered *)

\* A contract is one that a fixed object gives; a request is for all that one gives.
Backs(objs, c) ==
    \E i \in DOMAIN objs :
      objs[i].kind = "FIXED" /\ c.mv = objs[i].mv /\ c.limit_ma = objs[i].ma
Means(objs, a) ==
    \E i \in DOMAIN objs :
      objs[i].kind = "FIXED" /\ a.rdo = RequestFor(objs[i], i, objs[i].mv, objs[i].ma)

\* As long as no change of the table waits to be told, what is under way
\* between the blade and the sink is about the table of the moment; and
\* where there can be no contract there is none.
AgreedInv ==
    /\ pe \in {"none", "cad", "startup", "hr_off", "hr_on"} => contract = {}
    /\ pe = "asked" => asked # {}
    /\ ~stale /\ pe = "offered" => \A t \in told : t.obj = table.obj
    /\ ~stale /\ pe = "asked" => \A a \in asked : Means(table.obj, a)
    /\ ~stale /\ pe = "granted" => \A g \in pending : Backs(table.obj, g)
    /\ ~stale /\ pe = "ready" /\ pw.vbus_on => \A c \in contract : Backs(table.obj, c)

\* The fields of a request come out as they went in.
LEMMA RoundTrip ==
    ASSUME NEW i \in Nat, i <= 7, NEW k \in Nat, k <= 500,
           NEW rdo, rdo = i * 2^28 + (k * 2^10 + k)
    PROVE  rdo_position(rdo) = i /\ rdo_fixed_ma(rdo) = k * 10
  <1>1. 2^28 = 268435456 /\ 2^10 = 1024
    OBVIOUS
  <1>2. rdo = i * 268435456 + (k * 1024 + k)
    BY <1>1
  <1>3. (rdo \div 268435456) % 16 = i
    BY ONLY <1>2, i \in Nat, i <= 7, k \in Nat, k <= 500
  <1>4. (rdo \div 1024) % 1024 = k
    BY ONLY <1>2, i \in Nat, i <= 7, k \in Nat, k <= 500
  <1> QED
    BY <1>1, <1>3, <1>4 DEF rdo_position, rdo_fixed_ma

\* A request for all of a fixed object is granted, and gives what the object does.
InFull(t, i, rdo) ==
    /\ t.obj \in Seq(Objects) /\ Len(t.obj) <= 7 /\ i \in DOMAIN t.obj
    /\ t.obj[i].kind = "FIXED" /\ t.obj[i].ma <= 5000
    /\ rdo = RequestFor(t.obj[i], i, t.obj[i].mv, t.obj[i].ma)
Granted(t, rdo) ==
    check_request(t, rdo) # {} /\ \A g \in check_request(t, rdo) : Backs(t.obj, g)

LEMMA AnswerTo ==
    ASSUME NEW t, NEW i, NEW rdo, InFull(t, i, rdo)
    PROVE  Granted(t, rdo)
  <1>0. /\ t.obj \in Seq(Objects) /\ Len(t.obj) <= 7 /\ i \in DOMAIN t.obj
        /\ t.obj[i].kind = "FIXED" /\ t.obj[i].ma <= 5000
        /\ rdo = RequestFor(t.obj[i], i, t.obj[i].mv, t.obj[i].ma)
    BY DEF InFull
  <1>1. i \in Nat /\ i <= 7 /\ i # 0 /\ i <= Len(t.obj) /\ t.obj[i] \in Objects
    BY <1>0
  <1>2. PICK ma \in Nat : ma = t.obj[i].ma /\ ma <= 5000
    BY <1>0, <1>1, ObjectFields
  <1>3. PICK k \in Nat : k = ma \div 10 /\ k <= 500 /\ k * 10 <= ma
    BY <1>2
  <1>4. rdo = i * 2^28 + (k * 2^10 + k)
    <2>1. rdo = i * 2^28 + ((ma \div 10) * 2^10 + ma \div 10)
      BY <1>0, <1>2 DEF RequestFor
    <2> QED
      BY <1>3, <2>1
  <1>5. rdo_position(rdo) = i /\ rdo_fixed_ma(rdo) = k * 10
    BY <1>1, <1>3, <1>4, RoundTrip
  <1>6. check_request(t, rdo) = Grant(k * 10 <= ma, i, "FIXED", t.obj[i].mv, k * 10, ma)
    BY <1>0, <1>1, <1>2, <1>5 DEF check_request
  <1>7. check_request(t, rdo) =
          {[position |-> i, kind |-> "FIXED", mv |-> t.obj[i].mv, op_ma |-> k * 10,
            limit_ma |-> ma]}
    BY <1>3, <1>6 DEF Grant
  <1> QED
    BY <1>0, <1>2, <1>7 DEF Backs, Granted

LEMMA AnswersBack ==
    ASSUME limits \in LimitsType, NEW a, Means(table.obj, a)
    PROVE  /\ check_request(table, a.rdo) # {}
           /\ \A g \in check_request(table, a.rdo) : Backs(table.obj, g)
  <1>1. PICK t : t = table
    OBVIOUS
  <1>2. /\ t.obj \in Seq(Objects) /\ Len(t.obj) <= 7
        /\ \A i \in DOMAIN t.obj : Affords(t.power_mw, t.obj[i])
    BY <1>1, TableShape
  <1>3. PICK i \in DOMAIN t.obj :
           /\ t.obj[i].kind = "FIXED"
           /\ a.rdo = RequestFor(t.obj[i], i, t.obj[i].mv, t.obj[i].ma)
    BY <1>1 DEF Means
  <1>4. t.obj[i].ma <= 5000
    BY <1>2, <1>3 DEF Affords
  <1>5. PICK rdo : rdo = a.rdo
    OBVIOUS
  <1>6. rdo = RequestFor(t.obj[i], i, t.obj[i].mv, t.obj[i].ma)
    BY <1>3, <1>5
  <1>7. t.obj \in Seq(Objects) /\ Len(t.obj) <= 7
    BY <1>2
  <1>8. i \in DOMAIN t.obj /\ t.obj[i].kind = "FIXED"
    BY <1>3
  <1>9. InFull(t, i, rdo)
    BY <1>4, <1>6, <1>7, <1>8 DEF InFull
  <1>10. Granted(t, rdo)
    BY <1>9, AnswerTo
  <1> QED
    BY <1>1, <1>5, <1>10 DEF Granted

\* What a sink that takes fixed objects asks of a table.
LEMMA AskMeans ==
    ASSUME Takes \subseteq {"FIXED"}, NEW t, NEW a \in Asks(t)
    PROVE  Means(t.obj, a)
  <1>1. PICK i \in DOMAIN t.obj : t.obj[i].kind \in Takes /\ a = AskOf(t.obj[i], i)
    BY AsksOut
  <1>2. t.obj[i].kind = "FIXED"
    BY <1>1
  <1>3. a.rdo = RequestFor(t.obj[i], i, t.obj[i].mv, t.obj[i].ma)
    BY <1>1, <1>2 DEF AskOf
  <1> QED
    BY <1>2, <1>3 DEF Means

LEMMA TableNext ==
    ASSUME limits' = limits
    PROVE  table' = table
BY DEF table

\* A step that leaves the talk where it is.
LEMMA AgreedKept ==
    ASSUME AgreedInv, pe' = pe, contract' = contract, asked' = asked, told' = told,
           pending' = pending, StaysOff, ~stale' => ~stale /\ table'.obj = table.obj
    PROVE  AgreedInv'
BY DEF AgreedInv, StaysOff

LEMMA TakeInputAgrees ==
    ASSUME AgreedInv, TakeInput, StaysOff
    PROVE  AgreedInv'
  <1> DEFINE new == [limits EXCEPT !.max_w = image.max_w, !.max_mv = image.max_mv]
  <1>1. /\ limits' = IF changed THEN new ELSE limits
        /\ stale' = (stale \/ (changed /\ rebuilt(new)) \/ (IF cmds = <<>> THEN "none" ELSE Head(cmds)) = "SRC_CAP")
        /\ pe' = pe /\ contract' = contract /\ asked' = asked /\ told' = told
        /\ pending' = pending
    BY DEF TakeInput
  <1> HIDE DEF new
  <1>2. ASSUME ~stale'
        PROVE  ~stale /\ table'.obj = table.obj
    <2>1. ~stale /\ ~(changed /\ rebuilt(new))
      BY <1>1, <1>2
    <2>2. CASE changed
      <3>1. limits' = new /\ pdo_build(new).obj = table.obj
        BY <1>1, <2>1, <2>2 DEF rebuilt
      <3> QED
        BY <2>1, <3>1 DEF table
    <2>3. CASE ~changed
      BY <1>1, <2>1, <2>3, TableNext
    <2> QED
      BY <2>2, <2>3
  <1> QED
    BY <1>1, <1>2, AgreedKept

LEMMA DecideAgrees ==
    ASSUME AgreedInv, Decide, StaysOff
    PROVE  AgreedInv'
  <1>1. limits' = limits /\ ask_the_engine
    BY DEF Decide
  <1>2. CASE ~Attached /\ pe' = pe /\ contract' = contract
    BY <1>2 DEF AgreedInv, Attached
  <1>3. CASE UNCHANGED <<stale, reset_wanted, pe, contract, pending, told, asked>>
    BY <1>1, <1>3, TableNext, AgreedKept
  <1>4. CASE pe' = "hr_off" /\ contract' = {}
    BY <1>4 DEF AgreedInv
  <1> QED
    BY <1>1, <1>2, <1>3, <1>4 DEF ask_the_engine

\* A request that is not granted: no port that is on refuses what a fixed
\* object gives.
LEMMA EvaluateAgrees ==
    ASSUME PathInv, AgreedInv, EvaluateRequest
    PROVE  AgreedInv'
  <1>1. /\ limits \in LimitsType /\ Supervised /\ pc = "stack" /\ pe = "asked" /\ asked # {}
        /\ limits' = limits /\ pw' = pw /\ stale' = stale /\ contract' = contract
        /\ told' = told
    BY DEF PathInv, PowerInv, Offered, EvaluateRequest, Callback, AgreedInv
  <1>2. table' = table
    BY <1>1, TableNext
  <1>3. ~stale => \A a \in asked : Means(table.obj, a)
    BY <1>1 DEF AgreedInv
  <1>4. PICK granted :
           granted = IF ~sup.armed THEN {} ELSE UNION {check_request(table, a.rdo) : a \in asked}
    OBVIOUS
  <1>5. IF granted # {} THEN pending' = granted /\ pe' = "granted" /\ asked' = asked
        ELSE pending' = pending /\ asked' = {} /\ pe' = IF contract = {} THEN "startup" ELSE "ready"
    BY <1>4 DEF EvaluateRequest
  <1>6. CASE granted # {}
    <2>1. sup.armed
      BY <1>4, <1>6
    <2>2. granted = UNION {check_request(table, a.rdo) : a \in asked}
      BY <1>4, <2>1
    <2>3. ~stale => \A g \in granted : Backs(table.obj, g)
      <3>1. SUFFICES ASSUME ~stale, NEW g \in granted
                     PROVE  Backs(table.obj, g)
        OBVIOUS
      <3>2. PICK a \in asked : g \in check_request(table, a.rdo)
        BY <2>2
      <3>3. Means(table.obj, a)
        BY <1>3, <3>1, <3>2
      <3> QED
        BY <1>1, <3>2, <3>3, AnswersBack
    <2>4. pe' = "granted" /\ pending' = granted
      BY <1>5, <1>6
    <2> QED
      BY <1>1, <1>2, <2>3, <2>4 DEF AgreedInv
  <1>7. CASE granted = {}
    <2>1. asked' = {} /\ pe' = IF contract = {} THEN "startup" ELSE "ready"
      BY <1>5, <1>7
    <2>2. ~stale /\ pw.vbus_on => FALSE
      <3>1. SUFFICES ASSUME ~stale, pw.vbus_on
                     PROVE  FALSE
        OBVIOUS
      <3>2. sup.armed
        BY <1>1, <3>1 DEF Supervised, IsDark
      <3>3. PICK a \in asked : TRUE
        BY <1>1
      <3>4. Means(table.obj, a)
        BY <1>3, <3>1, <3>3
      <3>5. check_request(table, a.rdo) # {}
        BY <1>1, <3>4, AnswersBack
      <3>6. check_request(table, a.rdo) \subseteq granted
        BY <1>4, <3>2, <3>3
      <3> QED
        BY <1>7, <3>5, <3>6
    <2>3. pe' \in {"startup", "ready"} /\ (pe' = "startup" => contract' = {})
      BY <1>1, <2>1
    <2> QED
      BY <1>1, <2>2, <2>3 DEF AgreedInv
  <1> QED
    BY <1>6, <1>7

LEMMA SetupAgrees ==
    ASSUME AgreedInv, SetupNewPower
    PROVE  AgreedInv'
  <1>1. /\ pe = "granted" /\ limits' = limits /\ stale' = stale
        /\ \E req \in pending : \E o \in power_set(pw, req.mv) :
             /\ contract' = IF o.r = "ok" THEN pending ELSE {}
             /\ pe' = IF o.r = "ok" THEN "ready" ELSE "hr_off"
    BY Zenon DEF SetupNewPower
  <1>2. table' = table
    BY <1>1, TableNext
  <1>3. ~stale => \A g \in pending : Backs(table.obj, g)
    BY <1>1 DEF AgreedInv
  <1>4. CASE pe' = "ready" /\ contract' = pending
    BY <1>1, <1>2, <1>3, <1>4 DEF AgreedInv
  <1>5. CASE pe' = "hr_off" /\ contract' = {}
    BY <1>5 DEF AgreedInv
  <1> QED
    BY <1>1, <1>4, <1>5

LEMMA CableAgrees ==
    ASSUME AgreedInv, CableAnswers
    PROVE  AgreedInv'
  <1>1. /\ pw' = pw /\ contract' = contract /\ pe' = pe /\ told' = told /\ asked' = asked
        /\ pending' = pending /\ StaysOff
    BY DEF CableAnswers, StaysOff
  <1>2. PICK new : limits' = new /\ stale' = (stale \/ rebuilt(new))
    BY DEF CableAnswers
  <1>3. ~stale' => ~stale /\ table'.obj = table.obj
    BY <1>2 DEF rebuilt, table
  <1> QED
    BY <1>1, <1>3, AgreedKept

LEMMA RequestAgrees ==
    ASSUME Takes \subseteq {"FIXED"}, AgreedInv, Request
    PROVE  AgreedInv'
  <1>1. /\ pe = "offered" /\ pe' = "asked" /\ limits' = limits /\ stale' = stale
        /\ contract' = contract
    BY DEF Request
  <1>2. PICK t \in told : \E a \in Asks(t) : asked' = {a}
    BY Zenon DEF Request
  <1>3. PICK a \in Asks(t) : asked' = {a}
    BY <1>2
  <1>4. table' = table
    BY <1>1, TableNext
  <1>5. Means(t.obj, a)
    BY <1>3, AskMeans
  <1>6. ~stale => t.obj = table.obj
    BY <1>1, <1>2 DEF AgreedInv
  <1> QED
    BY <1>1, <1>3, <1>4, <1>5, <1>6 DEF AgreedInv

LEMMA StackAgrees ==
    ASSUME Takes \subseteq {"FIXED"}, PathInv, AgreedInv, Stack, StaysOff \/ Attach \/ HardResetOn
    PROVE  AgreedInv'
  <1>1. CASE NoCallback
    <2>1. /\ pe' = pe /\ contract' = contract /\ asked' = asked /\ told' = told /\ stale' = stale
          /\ pending' = pending /\ StaysOff /\ limits' = limits
      BY <1>1 DEF NoCallback, KeepsPort, port_vars, StaysOff
    <2> QED
      BY <2>1, TableNext, AgreedKept
  <1>2. CASE CadSees \/ HardResetOff \/ HardResetOn
    BY <1>2 DEF CadSees, HardResetOff, HardResetOn, VBUSEnable, AgreedInv
  <1>3. CASE Attach \/ Detach \/ HardReset
    <2>1. contract' = {} /\ pe' \in {"startup", "none", "hr_off"}
      BY <1>3 DEF Attach, Detach, HardReset, VBUSEnable
    <2> QED
      BY <2>1 DEF AgreedInv
  <1>4. CASE GetPortPDOs
    <2>1. told' = {table} /\ pe' = "offered" /\ limits' = limits /\ contract' = contract
      BY <1>4 DEF GetPortPDOs
    <2> QED
      BY <2>1, TableNext DEF AgreedInv
  <1> QED
    BY <1>1, <1>2, <1>3, <1>4, CableAgrees, RequestAgrees, EvaluateAgrees, SetupAgrees DEF Stack

\* A step that is not the port's.
LEMMA OthersAgree ==
    ASSUME AgreedInv, UNCHANGED port_vars, StaysOff
    PROVE  AgreedInv'
  <1>1. /\ pe' = pe /\ contract' = contract /\ asked' = asked /\ told' = told /\ stale' = stale
        /\ pending' = pending /\ limits' = limits
    BY DEF port_vars
  <1> QED
    BY <1>1, TableNext, AgreedKept

LEMMA AgreedStays ==
    ASSUME Takes \subseteq {"FIXED"}, MaxFailed <= 1, PathInv, AgreedInv, [BladeNext]_blade_vars
    PROVE  AgreedInv'
  <1>1. CASE UNCHANGED blade_vars
    BY <1>1, OthersAgree DEF blade_vars, port_vars, StaysOff
  <1>2. CASE Stack
    <2>1. StaysOff \/ Attach \/ HardResetOn
      BY <1>2, StackPowers DEF PathInv
    <2> QED
      BY <1>2, <2>1, StackAgrees
  <1>3. CASE Turn
    <2>1. StaysOff
      <3>1. PowerInv /\ image \in Configs \cup {Off}
        BY DEF PathInv, Offered
      <3> QED
        BY <1>3, <3>1, FollowPowers, TakeInputPowers, PollPowers, DecidePowers DEF Turn
    <2>2. CASE Follow \/ Poll
      BY <2>1, <2>2, OthersAgree DEF Follow, Poll
    <2> QED
      BY <1>3, <2>1, <2>2, TakeInputAgrees, DecideAgrees DEF Turn
  <1>4. CASE FromOutside
    <2>1. StaysOff
      BY <1>4, OutsidePowers DEF PathInv
    <2>2. CASE Restart
      <3>1. pe' = "none" /\ contract' = {}
        BY <2>2 DEF Restart, Started
      <3> QED
        BY <3>1 DEF AgreedInv
    <2>3. CASE ~Restart
      <3>1. UNCHANGED port_vars
        BY <1>4, <2>3 DEF FromOutside, EnChanges, Configure, push_command, OverVoltage, Slew, Outside
      <3> QED
        BY <2>1, <3>1, OthersAgree
    <2> QED
      BY <2>2, <2>3
  <1> QED
    BY <1>1, <1>2, <1>3, <1>4 DEF BladeNext

LEMMA AgreedWithin ==
    ASSUME PathInv, AgreedInv
    PROVE  ContractWithinLimit
  <1>1. SUFFICES ASSUME pe = "ready", pw.vbus_on, ~stale, NEW c \in contract
                 PROVE  c.mv * c.limit_ma <= table.power_mw * 1000
    BY DEF ContractWithinLimit
  <1>2. \A i \in DOMAIN table.obj : Affords(table.power_mw, table.obj[i])
    BY TableShape DEF PathInv, Offered
  <1>3. Backs(table.obj, c)
    BY <1>1 DEF AgreedInv
  <1>4. PICK i \in DOMAIN table.obj :
           table.obj[i].kind = "FIXED" /\ c.mv = table.obj[i].mv /\ c.limit_ma = table.obj[i].ma
    BY <1>3 DEF Backs
  <1> QED
    BY <1>2, <1>4 DEF Affords

\* Where sinks ask for fixed objects, a sink whose contract is settled and
\* that knows the table of the moment holds a contract within the power limit
\* of the moment: whatever limits, cables, resets and refusals come between,
\* and in whatever order (port.c; pdo.c).
THEOREM ContractsStayWithin ==
    ASSUME Takes \subseteq {"FIXED"}, MaxFailed <= 1
    PROVE  BladeSpec => []ContractWithinLimit
<1>1. BladeInit => PathInv /\ AgreedInv
  <2>1. BladeInit => AgreedInv
    BY DEF BladeInit, AgreedInv
  <2> QED
    BY <2>1, PathStarts
<1>2. PathInv /\ AgreedInv /\ [BladeNext]_blade_vars => PathInv' /\ AgreedInv'
  BY PathStays, AgreedStays
<1>3. PathInv /\ AgreedInv => ContractWithinLimit
  BY AgreedWithin
<1> QED
  BY <1>1, <1>2, <1>3, PTL DEF BladeSpec

==============================================================================
