------------------------------- MODULE BladeLoader -------------------------------
(***************************************************************************)
(* A trip of a blade through its ROM bootloader (blade_update.c, stboot.c):*)
(* find out what the flash holds, write the bundled image when that is     *)
(* called for, check it and start it, one command a tick.  The bootloader  *)
(* may refuse a command, be busy with it for some ticks, or not be heard,  *)
(* having done the command or not; the blade may lose its power before any *)
(* command; and the flash may take a chunk wrongly.                        *)
(***************************************************************************)
EXTENDS Integers, FiniteSets

CONSTANTS
    Bundled,   \* an image is bundled
    Pages, PerPage, \* pages of the image, write chunks of a page
    TRIES, WAIT_MAX,
    NoStretch, HasCrc, \* what protocols there are: with the commands that do
               \* not stretch the clock, with the checksum
    MaxBad     \* bound: chunks that the flash takes wrongly

ASSUME LoaderAssumption ==
    /\ Bundled \in BOOLEAN /\ Pages \in Nat \ {0} /\ PerPage \in Nat \ {0}
    /\ TRIES \in Nat \ {0} /\ WAIT_MAX \in Nat \ {0} /\ MaxBad \in Nat
    /\ NoStretch \subseteq BOOLEAN /\ HasCrc \subseteq BOOLEAN

VARIABLES
    p,            \* the trip: blade_update.c's update_t
    crc_unusable,
    flash,        \* the blade's flash, chunk by chunk
    running,      \* the blade runs its image
    bad           \* history: the chunks that do not hold what was written

loader_vars == <<p, crc_unusable, flash, running, bad>>

Chunks == Pages * PerPage
Positions == 0..Chunks - 1
Modes == {"keep", "match", "rewrite"}
Steps == {"version", "id", "inspect", "erase", "erase_wait", "erase_settle", "write", "write_wait",
          "crc", "crc_wait", "crc_result", "readback", "go", "started", "failed"}
Answers == {"ok", "busy", "nack", "silent"}

NoTrip == [step |-> "failed", tries |-> 0, waits |-> 0, mode |-> "keep", no_stretch |-> FALSE,
           has_crc |-> FALSE, wrote |-> FALSE, rewritten |-> FALSE, crc_differed |-> FALSE,
           chunk |-> 0]

------------------------------------------------------------------------------
(* Steps of the trip *)

next(t, s) == [t EXCEPT !.step = s, !.tries = 0, !.waits = 0]
fail(t) == [t EXCEPT !.step = "failed"]

retry(t) == IF t.tries + 1 >= TRIES THEN fail(t) ELSE [t EXCEPT !.tries = @ + 1]

wait_more(t) == IF t.waits + 1 >= WAIT_MAX THEN fail(t) ELSE [t EXCEPT !.waits = @ + 1]

start_readback(t) == next([t EXCEPT !.chunk = 0], "readback")

start_verify(t) ==
    LET u == [t EXCEPT !.crc_differed = FALSE]
    IN  IF t.has_crc /\ ~crc_unusable THEN next(u, "crc") ELSE start_readback(u)

\* Mutant: what is not what was sent is started all the same.
verify_failed_goes(t) == IF t.rewritten THEN next(t, "go")
                         ELSE next([t EXCEPT !.rewritten = TRUE, !.chunk = 0], "erase")

verify_failed(t) ==
    IF t.rewritten THEN fail(t) ELSE next([t EXCEPT !.rewritten = TRUE, !.chunk = 0], "erase")

\* Mutant: from the bottom up throughout.
write_offset_up(k) == k

\* The write order: every page but the first from the bottom up, then the
\* first page from its top chunk down.
write_offset(k) ==
    LET rest == Chunks - PerPage IN IF k < rest THEN PerPage + k ELSE PerPage - 1 - (k - rest)

\* blade_update_begin(), for a blade that has come to its bootloader.
Begin ==
    /\ p.step \in {"started", "failed"} /\ ~running
    /\ \E m \in Modes : p' = [NoTrip EXCEPT !.step = "version", !.mode = m]
    /\ UNCHANGED <<crc_unusable, flash, running, bad>>

Goes(s, t) == p.step = s /\ p' = t
Keeps == UNCHANGED <<crc_unusable, flash, running, bad>>

Version ==
    /\ \/ \E ns \in NoStretch, crc \in HasCrc :
            Goes("version", next([p EXCEPT !.no_stretch = ns, !.has_crc = crc], "id"))
       \/ Goes("version", retry(p))
       \/ Goes("version", fail(p)) \* a protocol this driver does not speak
    /\ Keeps

Id ==
    /\ Goes("id", next(p, "inspect")) \/ Goes("id", retry(p)) \/ Goes("id", fail(p))
    /\ Keeps

HaveValid == flash[0] \in {"old", "new"}
Same == Bundled /\ flash[0] = "new"
Program(mode) ==
    Bundled /\ (mode = "rewrite" \/ IF mode = "match" THEN ~Same ELSE ~HaveValid)

Inspect ==
    /\ \/ Goes("inspect",
            IF Program(p.mode) THEN next(p, "erase")
            ELSE IF Same /\ p.mode = "match" THEN start_verify(p)
            ELSE IF HaveValid THEN next(p, "go") ELSE fail(p))
       \/ Goes("inspect", retry(p))
    /\ Keeps

------------------------------------------------------------------------------
(* Writing.  A command that is not heard was done or not. *)

PageOf(k) == {i \in Positions : i \div PerPage = k}

ErasePage(k) ==
    /\ flash' = [i \in Positions |-> IF i \in PageOf(k) THEN "blank" ELSE flash[i]]
    /\ bad' = bad \ PageOf(k)

\* Flash programs erased words only.
ProgramChunk(i) ==
    /\ flash[i] = "blank"
    /\ \/ flash' = [flash EXCEPT ![i] = "new"] /\ UNCHANGED bad
       \/ Cardinality(bad) < MaxBad /\ flash' = [flash EXCEPT ![i] = "junk"] /\ bad' = bad \cup {i}

Nothing == UNCHANGED <<flash, bad>>

\* What an answer says of the flash operation Op and of its being possible.
Heard(r, Op) == IF r = "ok" THEN Op ELSE IF r = "silent" THEN Op \/ Nothing ELSE Nothing

Erase == \E r \in Answers \ (IF p.no_stretch THEN {} ELSE {"busy"}) :
    /\ Goes("erase", IF r = "ok" THEN next(p, "erase_settle")
                     ELSE IF r = "busy" THEN next(p, "erase_wait") ELSE retry(p))
    /\ Heard(r, ErasePage(p.chunk)) /\ UNCHANGED <<crc_unusable, running>>

EraseWait == \E r \in Answers :
    /\ Goes("erase_wait", IF r = "ok" THEN next(p, "erase_settle")
                          ELSE IF r = "busy" THEN wait_more(p) ELSE fail(p))
    /\ Heard(r, ErasePage(p.chunk)) /\ UNCHANGED <<crc_unusable, running>>

\* 50 ms later.
EraseSettle ==
    /\ Goes("erase_settle", IF p.chunk + 1 < Pages THEN next([p EXCEPT !.chunk = @ + 1], "erase")
                            ELSE next([p EXCEPT !.chunk = 0], "write"))
    /\ Keeps

ChunkDone == [p EXCEPT !.chunk = @ + 1, !.tries = 0]

\* A chunk that is refused when it is sent again may be there already.
Write ==
    LET i == write_offset(p.chunk) IN
    \E r \in Answers \ (IF p.no_stretch THEN {} ELSE {"busy"}) :
      /\ p.chunk < Chunks
      /\ Goes("write",
           IF r = "ok" THEN ChunkDone
           ELSE IF r = "busy" THEN next(p, "write_wait")
           ELSE IF r = "nack" /\ p.tries > 0 /\ flash[i] = "new" THEN ChunkDone ELSE retry(p))
      /\ Heard(r, ProgramChunk(i)) /\ UNCHANGED <<crc_unusable, running>>

WriteWait ==
    LET i == write_offset(p.chunk) IN
    \E r \in Answers :
      /\ Goes("write_wait", IF r = "ok" THEN next([p EXCEPT !.chunk = @ + 1], "write")
                            ELSE IF r = "busy" THEN wait_more(p)
                            ELSE retry([p EXCEPT !.step = "write"]))
      /\ Heard(r, ProgramChunk(i)) /\ UNCHANGED <<crc_unusable, running>>

Written ==
    /\ p.chunk >= Chunks /\ Goes("write", start_verify([p EXCEPT !.wrote = TRUE])) /\ Keeps

------------------------------------------------------------------------------
(* Checking and starting *)

crc_misbehaved == crc_unusable' = TRUE /\ p' = start_readback(p)

Crc == \E r \in Answers :
    /\ p.step = "crc"
    /\ IF r = "nack" THEN crc_misbehaved
       ELSE /\ p' = (IF r = "silent" THEN retry(p) ELSE next(p, "crc_wait"))
            /\ UNCHANGED crc_unusable
    /\ UNCHANGED <<flash, running, bad>>

CrcWait == \E r \in Answers :
    /\ p.step = "crc_wait"
    /\ IF r = "ok" THEN p' = next(p, "crc_result") /\ UNCHANGED crc_unusable
       ELSE IF r # "busy" \/ p.waits + 1 >= WAIT_MAX THEN crc_misbehaved
       ELSE p' = [p EXCEPT !.waits = @ + 1] /\ UNCHANGED crc_unusable
    /\ UNCHANGED <<flash, running, bad>>

IsBundle == \A i \in Positions : flash[i] = "new"

\* The checksum is not heard, or it differs although the flash is right, or
\* it is the flash's.
CrcResult ==
    /\ p.step = "crc_result"
    /\ \/ crc_misbehaved
       \/ /\ p' = start_readback([p EXCEPT !.crc_differed = TRUE]) /\ UNCHANGED crc_unusable
       \/ IsBundle /\ p' = next(p, "go") /\ UNCHANGED crc_unusable
    /\ UNCHANGED <<flash, running, bad>>

Readback ==
    /\ p.step = "readback"
    /\ IF p.chunk >= Chunks
         THEN p' = next(p, "go") /\ crc_unusable' = (crc_unusable \/ p.crc_differed)
         ELSE /\ \/ p' = retry(p)
                 \/ p' = IF flash[p.chunk] = "new" THEN ChunkDone ELSE verify_failed(p)
              /\ UNCHANGED crc_unusable
    /\ UNCHANGED <<flash, running, bad>>

\* The command is taken, or it is not heard, taken or not.
Go ==
    /\ \/ Goes("go", [p EXCEPT !.step = "started"]) /\ running' = TRUE
       \/ Goes("go", retry(p)) /\ running' \in {running, TRUE}
    /\ UNCHANGED <<crc_unusable, flash, bad>>

------------------------------------------------------------------------------
(* The blade *)

\* The power of the blade goes, or it resets: the trip is over.
LosePower ==
    /\ p' = NoTrip /\ running' = FALSE /\ (running \/ p.step # "failed")
    /\ UNCHANGED <<crc_unusable, flash, bad>>

\* The engine of the controller starts: blade_update_init().
EngineStart ==
    /\ crc_unusable' = FALSE /\ p' = NoTrip /\ running' = FALSE /\ UNCHANGED <<flash, bad>>

\* A blade comes as it left the factory, or with an image of another version,
\* or with one of the bundled version that went bad.
Contents == {[i \in Positions |-> v] : v \in {"blank", "old", "new"}}
    \cup {[i \in Positions |-> IF i = j THEN "junk" ELSE "new"] : j \in Positions}

LoaderInit ==
    /\ p = NoTrip /\ crc_unusable = FALSE /\ running = FALSE
    /\ flash \in Contents /\ bad = {i \in Positions : flash[i] = "junk"}

Step ==
    \/ Version \/ Id \/ Inspect \/ Erase \/ EraseWait \/ EraseSettle
    \/ Write \/ WriteWait \/ Written
    \/ Crc \/ CrcWait \/ CrcResult \/ Readback \/ Go

LoaderNext == Begin \/ Step \/ LosePower \/ EngineStart

LoaderSpec == LoaderInit /\ [][LoaderNext]_loader_vars

\* The trip goes on every tick of the engine.
LoaderFairSpec == LoaderSpec /\ WF_loader_vars(Step)

------------------------------------------------------------------------------
(* Properties *)

\* The variables keep their types: the chunk stays within the image.
LoaderTypeOK ==
    /\ p \in [step : Steps, tries : 0..TRIES, waits : 0..WAIT_MAX, mode : Modes,
              no_stretch : BOOLEAN, has_crc : BOOLEAN, wrote : BOOLEAN, rewritten : BOOLEAN,
              crc_differed : BOOLEAN, chunk : 0..Chunks]
    /\ crc_unusable \in BOOLEAN /\ flash \in [Positions -> {"blank", "old", "new", "junk"}]
    /\ running \in BOOLEAN /\ bad \subseteq Positions

\* However often commands are repeated and wherever the power goes: a flash
\* whose header reads as an image holds that image whole, but for the chunks
\* that the flash itself took wrongly.
HeaderMeansWhole == HaveValid => \A i \in Positions \ bad : flash[i] = flash[0]

\* A blade that was written, or that is to leave on the bundle, is started
\* only when every chunk is the bundle's.
StartsWhatWasChecked ==
    p.step \in {"go", "started"} /\ (p.wrote \/ (p.mode # "keep" /\ Bundled)) => IsBundle

\* A trip ends, by the start of the image or by giving up, whatever the
\* bootloader answers: every step fails after TRIES or WAIT_MAX times.
TripEnds == (p.step = "version") ~> (p.step \in {"started", "failed"})

================================================================================
