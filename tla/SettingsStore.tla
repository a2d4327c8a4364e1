----------------------------- MODULE SettingsStore -----------------------------
(***************************************************************************)
(* The settings record of the controller (settings.c, settings_hw_pico.c): *)
(* a copy in RAM, two sectors in flash that are written in turn, and two   *)
(* legacy sectors that older firmware left at the end of the flash.        *)
(*                                                                         *)
(* The main loop and the network callbacks, which interrupt it, change the *)
(* copy and save it; the power goes at any moment, also between the erase  *)
(* and the program of a sector; and an image on trial is committed or      *)
(* reverted to the one before it.                                          *)
(*                                                                         *)
(* A record's value has two parts: base, which both images know, and       *)
(* extra, a field that only the new image's layout has.                    *)
(***************************************************************************)
EXTENDS Integers, Sequences, FiniteSets

CONSTANTS
    Values, Default, \* the values of either part, and the default one
    OldReadsNewer,   \* the previous image reads layouts newer than its own
    Partitioned,     \* the flash has a data partition: home is not legacy
    Preempt,         \* where in a save of the main loop which callbacks come
    SaveFailing,         \* the tasks whose flash operations may fail
    MaxSaves,          \* bound: saves
    MaxTrials        \* how often the update is tried

ASSUME SettingsAssumption ==
    /\ Default \in Values /\ OldReadsNewer \in BOOLEAN /\ Partitioned \in BOOLEAN
    /\ SaveFailing \subseteq {"later", "save", "post", "migrate", "wipe"}
    /\ MaxSaves \in Nat /\ MaxTrials \in Nat
    /\ Preempt \subseteq {"later", "post"} \X {"idle", "half", "copied"}

VARIABLES
    sector,   \* what the sectors hold: a record or Blank for each base and slot
    g,        \* g_settings: its seq and its val
    buf,      \* settings_save()'s sector buffer
    task,     \* what the main loop does with the flash
    pending,  \* save_at_ms is set
    migrate,  \* migrate_pending
    trial_slot,
    image,    \* the image that runs: "old" or "new"
    trial,    \* it is on trial: flash_map_update_pending()
    trials,   \* how often it has been
    cut,      \* a callback's write: the slot that is erased, not programmed
    saved,    \* history: the value last acknowledged as saved, if it must be kept
    before,   \* history: ... by an image that was not on trial
    owed,     \* history: changes promised to be saved later that flash has not got: "fresh"
              \* ones, and those that a save has "copied"
    stale     \* history: the sectors with a record that a wipe has still to erase

flash_vars == <<sector, buf, task, cut, saved, before, stale>>
ram_vars == <<g, pending, migrate, trial_slot, owed>>
boot_vars == <<image, trial, trials>>
store_vars == <<flash_vars, ram_vars, boot_vars>>

Slots == 0..1
Bases == {"home", "legacy"}
Home == IF Partitioned THEN "home" ELSE "legacy"
SettingsValues == [base : Values, extra : Values]
Defaults == [base |-> Default, extra |-> Default]
Blank == [seq |-> -1, val |-> Defaults, ver |-> "old", seal |-> Defaults]
Records == [seq : Int, val : SettingsValues, ver : {"old", "new"}, seal : SettingsValues]

------------------------------------------------------------------------------
(* Reading *)

\* slot_valid() as the image `img` runs it: the checksum agrees with the
\* content, and the layout is one the image reads.
slot_valid(r, img) ==
    /\ r # Blank /\ r.seal = r.val
    /\ img = "new" \/ r.ver = "old" \/ OldReadsNewer

\* best_in(): of the valid records the one saved last.
best_in(base, img) ==
    LET ok == {i \in Slots : slot_valid(sector[base][i], img)}
    IN  IF ok = {} THEN Blank
        ELSE sector[base][CHOOSE i \in ok : \A j \in ok :
               \/ sector[base][j].seq < sector[base][i].seq
               \/ sector[base][j].seq = sector[base][i].seq /\ i <= j]

Found(img) ==
    IF best_in(Home, img) = Blank /\ Partitioned THEN best_in("legacy", img) ELSE best_in(Home, img)

\* A field that the record's layout lacks, or that this image does not know,
\* comes up with its default.
Seen(val, ver, img) ==
    IF img = "old" \/ ver = "old" THEN [val EXCEPT !.extra = Default] ELSE val

Known(img) == {v \in SettingsValues : Seen(v, img, img) = v}

Loaded(img) ==
    LET r == Found(img)
    IN  IF r = Blank THEN [seq |-> 0, val |-> Defaults]
        ELSE [seq |-> r.seq, val |-> Seen(r.val, r.ver, img)]

\* settings_load(), at the start of the image `img`.
settings_load(img) ==
    /\ g' = Loaded(img)
    /\ migrate' = (Partitioned /\ best_in(Home, img) = Blank /\ best_in("legacy", img) # Blank)
    /\ trial_slot' = -1 /\ pending' = FALSE /\ owed' = {}

------------------------------------------------------------------------------
(* Saving in the main loop, where callbacks may come between the steps *)

\* Mutant: the sector with the best copy.
OtherSlot_best ==
    LET s0 == sector[Home][0]  s1 == sector[Home][1]
    IN  IF slot_valid(s0, image) /\ (~slot_valid(s1, image) \/ s0.seq > s1.seq) THEN 0 ELSE 1

\* The sector a save goes to is the one without the best copy; an image on
\* trial keeps to the first it chose.
OtherSlot ==
    LET s0 == sector[Home][0]  s1 == sector[Home][1]
    IN  IF slot_valid(s0, image) /\ (~slot_valid(s1, image) \/ s0.seq > s1.seq) THEN 1 ELSE 0

\* Mutant: a trial's saves go round both sectors.
Target_both == OtherSlot

Target == IF trial /\ trial_slot >= 0 THEN trial_slot ELSE OtherSlot

NoTask == [pc |-> "idle", target |-> 0, todo |-> <<>>, kind |-> "none", sum |-> Defaults]

Free == task = NoTask /\ cut = {}

\* The other core is parked and the operation done, or it could not be and
\* nothing happened.
Outcomes(kind) == IF kind \in SaveFailing THEN BOOLEAN ELSE {TRUE}

Next_is(step) == cut = {} /\ task.pc = "idle" /\ task.todo # <<>> /\ Head(task.todo)[1] = step

\* What remains of the task; after a wipe the controller restarts.
Remaining(todo) ==
    IF todo # <<>> THEN [task EXCEPT !.pc = "idle", !.todo = todo]
    ELSE IF task.kind = "wipe" THEN [NoTask EXCEPT !.kind = "restart"] ELSE NoTask

After(ok) == Remaining(IF ~ok /\ task.kind = "migrate" THEN <<>> ELSE task.todo)

\* The record is numbered and its checksum begun: it has run over the first
\* part, then over the second, and the record is copied.  A wipe, with its
\* sectors erased, saves the defaults.
SaveChoose ==
    LET wipe == task.kind = "wipe"
        val == IF wipe THEN Defaults ELSE g.val
        target == IF wipe THEN OtherSlot ELSE Target
    IN  /\ Next_is("save") /\ g.seq < MaxSaves
        /\ task' = [task EXCEPT !.pc = "half", !.target = target, !.todo = Tail(@), !.sum = val]
        /\ trial_slot' = IF trial THEN target ELSE IF wipe THEN -1 ELSE trial_slot
        /\ g' = [seq |-> g.seq + 1, val |-> val] /\ migrate' = (migrate /\ ~wipe)
        /\ UNCHANGED <<sector, buf, cut, saved, before, stale, pending, owed, boot_vars>>

SaveCopy ==
    /\ task.pc = "half" /\ cut = {} /\ task' = [task EXCEPT !.pc = "copied"]
    /\ LET crc == [task.sum EXCEPT !.extra = g.val.extra]
       IN  buf' = [seq |-> g.seq, val |-> g.val, ver |-> image, seal |-> crc]
    /\ owed' = IF owed = {} THEN {} ELSE {"copied"}
    /\ UNCHANGED <<sector, cut, saved, before, stale, g, pending, migrate, trial_slot, boot_vars>>

Write(base, i, r) ==
    sector' = [sector EXCEPT ![base][i] = r] /\ stale' = stale \ {<<base, i>>}

\* A wipe that reports a failure promises nothing.
Keep(ok) == UNCHANGED sector /\ stale' = IF ok \/ task.kind # "wipe" THEN stale ELSE {}

SaveErase ==
    /\ task.pc = "copied" /\ cut = {}
    /\ \E ok \in Outcomes(task.kind) :
         IF ok THEN Write(Home, task.target, Blank) /\ task' = [task EXCEPT !.pc = "erased"]
               ELSE Keep(FALSE) /\ task' = After(FALSE)
    /\ UNCHANGED <<buf, cut, saved, before, ram_vars, boot_vars>>

\* settings_save() has returned true: what it wrote is to be kept, unless a
\* wipe that is under way takes it again.
Acknowledge(val, kept) ==
    IF kept THEN saved' = {val} /\ before' = (IF trial THEN before ELSE {val})
            ELSE UNCHANGED <<saved, before>>

\* What was copied is in flash, if its checksum is.
Pays == owed' = IF buf.seal = buf.val THEN owed \ {"copied"} ELSE owed

\* Mutant: the mark to save goes when the save is done, with all that came
\* since.
SaveProgram_clears ==
    /\ task.pc = "erased" /\ Write(Home, task.target, buf) /\ task' = After(TRUE)
    /\ Acknowledge(buf.val, TRUE) /\ buf' = Blank /\ pending' = FALSE /\ Pays
    /\ UNCHANGED <<cut, g, migrate, trial_slot, boot_vars>>

SaveProgram ==
    /\ task.pc = "erased" /\ Write(Home, task.target, buf) /\ task' = After(TRUE)
    /\ Acknowledge(buf.val, TRUE) /\ buf' = Blank /\ Pays
    /\ UNCHANGED <<cut, g, pending, migrate, trial_slot, boot_vars>>

\* Erasing one sector for a wipe (a legacy one only if it holds a record)
\* or, after a migration, a legacy one while any of them does.
Erase ==
    /\ Next_is("erase")
    /\ LET base == Head(task.todo)[2]  i == Head(task.todo)[3]
           needed == \/ task.kind = "wipe" /\ (base = Home \/ slot_valid(sector[base][i], image))
                     \/ task.kind = "migrate" /\ best_in("legacy", image) # Blank
       IN  IF ~needed THEN Keep(TRUE)
           ELSE \E ok \in Outcomes(task.kind) : IF ok THEN Write(base, i, Blank) ELSE Keep(FALSE)
    /\ task' = Remaining(Tail(task.todo))
    /\ UNCHANGED <<buf, cut, saved, before, ram_vars, boot_vars>>

Begin(kind, todo) == Free /\ task' = [NoTask EXCEPT !.kind = kind, !.todo = todo]

Rest == UNCHANGED <<sector, buf, cut, before, boot_vars>>

\* settings_save_poll(): the mark goes before the save begins, and does not come
\* back when it fails: main() only says so.
settings_save_poll ==
    /\ pending /\ pending' = FALSE /\ Begin("later", <<<<"save">>>>)
    /\ Rest /\ UNCHANGED <<g, migrate, trial_slot, saved, stale, owed>>

\* A save asked for on the console or by Wi-Fi setup.
SaveNow ==
    /\ Begin("save", <<<<"save">>>>)
    /\ Rest /\ UNCHANGED <<ram_vars, saved, stale>>

\* settings_migrate(): the record into the partition, then the legacy
\* copies away.  One attempt per boot.
settings_migrate ==
    /\ migrate /\ migrate' = FALSE
    /\ Begin("migrate", <<<<"save">>, <<"erase", "legacy", 0>>, <<"erase", "legacy", 1>>>>)
    /\ Rest /\ UNCHANGED <<g, pending, trial_slot, saved, stale, owed>>

\* Mutant: a wipe leaves the sector that its save does not go to.
WipeSteps_one == <<<<"erase", "home", 0>>, <<"erase", "legacy", 0>>, <<"save">>>>

\* settings_wipe() by a factory reset: every sector with a record, then defaults.  From here
\* on nothing of before is promised to anyone.
WipeSteps ==
    IF Partitioned
    THEN <<<<"erase", "home", 0>>, <<"erase", "legacy", 0>>, <<"erase", "home", 1>>,
           <<"erase", "legacy", 1>>, <<"save">>>>
    ELSE <<<<"erase", "legacy", 0>>, <<"erase", "legacy", 1>>, <<"save">>>>

settings_wipe ==
    /\ Begin("wipe", WipeSteps)
    /\ stale' = {x \in Bases \X Slots : sector[x[1]][x[2]] # Blank}
    /\ saved' = {} /\ before' = {} /\ owed' = {}
    /\ UNCHANGED <<sector, buf, cut, boot_vars, pending, g, migrate, trial_slot>>

\* A change that the main loop makes and marks to be saved (a port that
\* switched itself off), or leaves for the user to save.
Change(later) ==
    /\ Free /\ \E v \in Known(image) : v # g.val /\ g' = [g EXCEPT !.val = v]
    /\ pending' = (pending \/ later) /\ owed' = IF later THEN owed \cup {"fresh"} ELSE owed
    /\ UNCHANGED <<flash_vars, boot_vars, migrate, trial_slot>>

------------------------------------------------------------------------------
(* The network callbacks, which interrupt the main loop *)

Interrupt(kind) == cut = {} /\ <<kind, task.pc>> \in Preempt

\* An MQTT command or an API call that answers at once and saves later.
CallbackLater ==
    /\ Interrupt("later") /\ \E v \in Known(image) : v # g.val /\ g' = [g EXCEPT !.val = v]
    /\ pending' = TRUE /\ owed' = owed \cup {"fresh"}
    /\ UNCHANGED <<flash_vars, boot_vars, migrate, trial_slot>>

\* settings_post(): the record is changed and saved before the answer.
CallbackPost ==
    /\ Interrupt("post") /\ g.seq < MaxSaves
    /\ \E v \in Known(image), ok \in Outcomes("post") :
         LET r == [seq |-> g.seq + 1, val |-> v, ver |-> image, seal |-> v]
         IN  /\ g' = [seq |-> r.seq, val |-> v]
             /\ IF ok THEN Write(Home, Target, Blank) /\ cut' = {Target} /\ buf' = r
                      ELSE /\ UNCHANGED <<sector, stale, cut>>
                           /\ buf' = IF task.pc = "copied" THEN r ELSE Blank
    /\ trial_slot' = IF trial THEN Target ELSE trial_slot
    /\ UNCHANGED <<task, saved, before, pending, migrate, owed, boot_vars>>

PostProgram ==
    /\ cut # {} /\ cut' = {} /\ \E i \in cut : Write(Home, i, buf)
    /\ Acknowledge(buf.val, task.kind # "wipe")
    /\ owed' = IF task.kind = "wipe" THEN owed ELSE {}
    /\ buf' = IF task.pc = "copied" THEN buf ELSE Blank
    /\ UNCHANGED <<task, g, pending, migrate, trial_slot, boot_vars>>

------------------------------------------------------------------------------
(* Restarts *)

\* The power goes, or the watchdog fires.  An image on trial gives way to
\* the one before, which keeps to what it finds.
PowerLoss ==
    /\ image' = (IF trial THEN "old" ELSE image) /\ trial' = FALSE
    /\ settings_load(image')
    /\ task' = NoTask /\ cut' = {}
    /\ saved' = IF trial /\ saved # {} THEN {Loaded("old").val} ELSE saved
    /\ buf' = Blank /\ stale' = {}
    /\ UNCHANGED <<sector, before, trials>>

\* An update has been written: the new image starts, on trial.  When it was
\* tried before, it finds what it saved then.
Install ==
    /\ Free /\ ~migrate /\ image = "old" /\ image' = "new" /\ trial' = TRUE
    /\ trials < MaxTrials /\ trials' = trials + 1
    /\ settings_load("new")
    /\ saved' = IF Found("new").ver = "new" /\ saved # {} THEN {Loaded("new").val} ELSE saved
    /\ UNCHANGED <<sector, buf, task, cut, before, stale>>

Commit ==
    /\ Free /\ trial /\ trial' = FALSE /\ before' = saved
    /\ UNCHANGED <<sector, buf, task, cut, saved, stale, ram_vars, image, trials>>

------------------------------------------------------------------------------

Init ==
    /\ \E b \in (IF Partitioned THEN Bases ELSE {"legacy"}), v \in SettingsValues :
         LET kept == Seen(v, "old", "old")
             r == [seq |-> 0, val |-> kept, ver |-> "old", seal |-> kept]
         IN  /\ sector = [base \in Bases |->
                            [i \in Slots |-> IF base = b /\ i = 0 THEN r ELSE Blank]]
             /\ g = [seq |-> 0, val |-> kept] /\ saved = {kept} /\ before = {kept}
             /\ migrate = (b # Home)
    /\ buf = Blank /\ task = NoTask /\ cut = {}
    /\ pending = FALSE /\ trial_slot = -1 /\ image = "old" /\ trial = FALSE /\ trials = 0
    /\ owed = {} /\ stale = {}

Saving ==
    \/ SaveChoose \/ SaveCopy \/ SaveErase \/ SaveProgram \/ Erase

Main ==
    \/ settings_save_poll \/ SaveNow \/ settings_migrate \/ settings_wipe
    \/ \E later \in BOOLEAN : Change(later)

Next ==
    \/ Saving \/ Main \/ CallbackLater \/ CallbackPost \/ PostProgram
    \/ PowerLoss \/ Install \/ Commit

Spec == Init /\ [][Next]_store_vars

------------------------------------------------------------------------------
(* What the store owes *)

TypeOK ==
    /\ sector \in [Bases -> [Slots -> Records]] /\ buf \in Records
    /\ g \in [seq : Int, val : SettingsValues]
    /\ task.target \in Slots /\ trial_slot \in -1..1 /\ cut \subseteq Slots
    /\ stale \subseteq Bases \X Slots
    /\ saved \subseteq SettingsValues /\ before \subseteq SettingsValues
    /\ pending \in BOOLEAN /\ migrate \in BOOLEAN /\ owed \subseteq {"fresh", "copied"}

\* A restart at any moment comes up with the value that was last
\* acknowledged as saved: no half-written sector, migration or layout of the
\* other image takes its place.
SavedIsFound ==
    ~trial => \A v \in saved : Loaded(image).val = Seen(v, image, image)

\* The image that a revert of the trial brings back finds the record it
\* saved itself, or a newer one that it can read: a trial costs its own
\* changes at most, never the configuration.
RevertFindsItsRecord ==
    trial => \A v \in before : Loaded("old").val \in {Seen(v, "old", "old")} \cup
                {Seen(w, "new", "old") : w \in IF OldReadsNewer THEN saved ELSE {}}

\* Until flash has it, a change that was promised to be saved later is marked to
\* be or is with the save that took the mark: whatever interrupts what, and
\* though the saves of others fail.
OwedIsMarked ==
    /\ "fresh" \in owed => pending \/ (task.kind = "later" /\ task.pc \in {"idle", "half"})
    /\ "copied" \in owed => pending \/ task.kind = "later"

\* A save lands in one step for whoever restarts, and a trial's saves cost
\* the image before it nothing: the store implements DurableRecord.
Record == INSTANCE DurableRecord WITH
    Value <- SettingsValues,
    kept <- Loaded(IF trial THEN "old" ELSE image).val,
    tried <- IF trial THEN {Loaded("new").val} ELSE {},
    asked <- IF task.pc = "erased" \/ cut # {} THEN {buf.val} ELSE {},
    wiped <- saved = {}
Durable == Record!Spec

\* When a factory reset has reported success no sector holds a record from
\* before it, whatever was saved meanwhile.
WipedIsGone == stale # {} => task.kind = "wipe"

================================================================================
