---------------------------- MODULE Storage_proofs ----------------------------
(***************************************************************************)
(* Proofs about what the controller keeps in flash: the settings record,   *)
(* for every set of values, every outcome of the flash operations and any  *)
(* number of saves, power cuts and restarts; and the fault log, for every  *)
(* number of sectors and of pages in one.                                  *)
(***************************************************************************)
EXTENDS SettingsStore, FaultLog, FiniteSetTheorems, SequenceTheorems, WellFoundedInduction,
        TLAPS

------------------------------------------------------------------------------
(* The state *)

Images == {"old", "new"}
Kinds == {"none", "later", "save", "migrate", "wipe", "restart"}
Points == {"idle", "half", "copied", "erased"}
Steps == {<<"save">>} \cup ({"erase"} \X Bases \X Slots)
Tasks == [pc : Points, target : Slots, todo : Seq(Steps), kind : Kinds, sum : SettingsValues]
Numbered == {r \in Records : r = Blank \/ r.seq >= 0}

\* The type, and what it says besides: records are numbered from nought; only
\* the new image is on trial; what a task is at ends with its task.
Typed ==
    /\ sector \in [Bases -> [Slots -> Numbered]] /\ buf \in Numbered
    /\ g \in [seq : Nat, val : SettingsValues] /\ task \in Tasks
    /\ trial_slot \in -1..1 /\ cut \in SUBSET Slots
    /\ stale \in SUBSET (Bases \X Slots)
    /\ saved \in SUBSET SettingsValues /\ before \in SUBSET SettingsValues
    /\ pending \in BOOLEAN /\ migrate \in BOOLEAN /\ owed \subseteq {"fresh", "copied"}
    /\ image \in Images /\ trial \in BOOLEAN /\ trials \in Nat
    /\ trial => image = "new"
    /\ image = "new" => trials > 0
    /\ task.kind \in {"none", "restart"} => task.pc = "idle" /\ task.todo = <<>>
    /\ migrate \/ task.kind = "migrate" => Partitioned

Wellformed(r) == r = Blank \/ (r.seal = r.val /\ r.ver = "old")

\* A wipe has every sector that still holds a record from before it among the
\* steps to come; such a sector is not taken for one without a record.
WipeComes ==
    /\ stale # {} => task.kind = "wipe"
    /\ \A x \in stale : /\ sector[x[1]][x[2]] # Blank
                        /\ \E k \in 1..Len(task.todo) : task.todo[k] = <<"erase", x[1], x[2]>>
    /\ Partitioned => \A i \in Slots : Wellformed(sector["legacy"][i])
    /\ ~Partitioned => \A i \in Slots : sector["home"][i] = Blank

\* The mark to save is gone only while the save that took it is under way, and
\* what that will write has its checksum.
OwedComes ==
    owed # {} /\ ~pending =>
        /\ task.kind = "later"
        /\ task.pc = "idle" => task.todo # <<>> /\ Head(task.todo)[1] = "save"
        /\ task.pc = "half" => task.sum = g.val
        /\ task.pc \in {"copied", "erased"} => "fresh" \notin owed /\ buf.seal = buf.val

------------------------------------------------------------------------------
(* Types *)

LEMMA Basics ==
    /\ Blank \in Records /\ Blank \in Numbered /\ Defaults \in SettingsValues
    /\ Slots = {0, 1} /\ Home \in Bases /\ NoTask \in Tasks
    /\ \A r \in Numbered : r \in Records
  <1>1. Defaults \in SettingsValues
    BY SettingsAssumption DEF Defaults, SettingsValues
  <1>2. Blank \in Records /\ Blank \in Numbered
    BY <1>1 DEF Blank, Records, Numbered
  <1>3. <<>> \in Seq(Steps)
    BY EmptySeq
  <1>4. NoTask \in Tasks
    BY <1>1, <1>3 DEF NoTask, Tasks, Points, Slots, Kinds
  <1> QED
    BY <1>1, <1>2, <1>4 DEF Slots, Home, Bases, Numbered

LEMMA SeenTyped ==
    ASSUME NEW v \in SettingsValues, NEW ver, NEW img
    PROVE  Seen(v, ver, img) \in SettingsValues
  BY SettingsAssumption DEF Seen, SettingsValues

\* The best record of a pair of sectors, as a function of their content.
BestOf(s, ok) ==
    IF ok = {} THEN Blank
    ELSE s[CHOOSE i \in ok : \A j \in ok :
             \/ s[j].seq < s[i].seq
             \/ s[j].seq = s[i].seq /\ i <= j]

Best(s, img) == BestOf(s, {i \in Slots : slot_valid(s[i], img)})

FoundIn(sec, img) ==
    IF Best(sec[Home], img) = Blank /\ Partitioned THEN Best(sec["legacy"], img) ELSE Best(sec[Home], img)

LoadedFrom(sec, img) ==
    LET r == FoundIn(sec, img)
    IN  IF r = Blank THEN [seq |-> 0, val |-> Defaults]
        ELSE [seq |-> r.seq, val |-> Seen(r.val, r.ver, img)]

LEMMA BestIn == \A base, img : best_in(base, img) = Best(sector[base], img)
  BY DEF best_in, Best, BestOf

LEMMA FoundBest == \A img : Found(img) = FoundIn(sector, img)
  BY BestIn DEF Found, FoundIn

LEMMA LoadedFound == \A img : Loaded(img) = LoadedFrom(sector, img)
  BY FoundBest DEF Loaded, LoadedFrom

\* What best_in() returns.
LEMMA BestIs ==
    ASSUME NEW s \in [Slots -> Numbered], NEW img
    PROVE  /\ (\A i \in Slots : ~slot_valid(s[i], img)) => Best(s, img) = Blank
           /\ (\E i \in Slots : slot_valid(s[i], img)) =>
                 \E i \in Slots : /\ slot_valid(s[i], img) /\ Best(s, img) = s[i]
                                  /\ \A j \in Slots : slot_valid(s[j], img) => s[j].seq <= s[i].seq
           /\ Best(s, img) \in Numbered
           /\ Best(s, img) # Blank <=> \E i \in Slots : slot_valid(s[i], img)
  <1> DEFINE ok == {i \in Slots : slot_valid(s[i], img)}
             P(i) == \A j \in ok : s[j].seq < s[i].seq \/ (s[j].seq = s[i].seq /\ i <= j)
  <1>1. CASE ok = {}
    BY <1>1, Basics DEF Best, BestOf
  <1>2. CASE ok # {}
    <2>1. \A i \in Slots : s[i].seq \in Int
      BY Basics DEF Records
    <2>2. \E i \in ok : P(i)
      <3>1. CASE 0 \in ok /\ 1 \in ok
        BY <3>1, <2>1, Basics
      <3>2. CASE 0 \notin ok \/ 1 \notin ok
        BY <3>2, <1>2, <2>1, Basics
      <3> QED
        BY <3>1, <3>2
    <2>3. PICK i \in ok : i = (CHOOSE k \in ok : P(k)) /\ P(i)
      BY <2>2
    <2>4. Best(s, img) = s[i]
      BY <1>2, <2>3 DEF Best, BestOf
    <2>5. \A j \in Slots : slot_valid(s[j], img) => s[j].seq <= s[i].seq
      BY <2>3, <2>1
    <2>6. s[i] # Blank /\ slot_valid(s[i], img)
      BY <2>3 DEF slot_valid
    <2> QED
      BY <2>4, <2>5, <2>6
  <1> QED
    BY <1>1, <1>2

LEMMA FoundIs ==
    ASSUME NEW sec \in [Bases -> [Slots -> Numbered]], NEW img
    PROVE  FoundIn(sec, img) \in Numbered
  <1>1. sec[Home] \in [Slots -> Numbered] /\ sec["legacy"] \in [Slots -> Numbered]
    BY Basics DEF Bases
  <1> QED
    BY <1>1, BestIs DEF FoundIn

LEMMA LoadedIs ==
    ASSUME NEW sec \in [Bases -> [Slots -> Numbered]], NEW img \in Images
    PROVE  LoadedFrom(sec, img) \in [seq : Nat, val : SettingsValues]
  <1> DEFINE r == FoundIn(sec, img)
  <1>1. r \in Numbered
    BY FoundIs
  <1>2. CASE r = Blank
    BY <1>2, Basics DEF LoadedFrom
  <1>3. CASE r # Blank
    <2>1. r.seq \in Nat /\ r.val \in SettingsValues
      BY <1>1, <1>3 DEF Numbered, Records
    <2>2. LoadedFrom(sec, img) = [seq |-> r.seq, val |-> Seen(r.val, r.ver, img)]
      BY <1>3 DEF LoadedFrom
    <2> QED
      BY <2>1, <2>2, SeenTyped
  <1> QED
    BY <1>2, <1>3

LEMMA HeadTail ==
    ASSUME NEW s \in Seq(Steps), s # <<>>
    PROVE  /\ Head(s) \in Steps /\ Tail(s) \in Seq(Steps)
           /\ \A k \in 1..Len(Tail(s)) : k + 1 \in 1..Len(s) /\ Tail(s)[k] = s[k + 1]
           /\ \A k \in 1..Len(s) : s[k] = Head(s) \/ \E j \in 1..Len(Tail(s)) : Tail(s)[j] = s[k]
  <1>1. Len(s) \in Nat /\ Len(s) # 0 /\ Head(s) = s[1] /\ Len(Tail(s)) = Len(s) - 1
    BY EmptySeq, LenProperties
  <1>2. Head(s) \in Steps /\ Tail(s) \in Seq(Steps)
    BY HeadTailProperties
  <1>3. \A k \in 1..Len(Tail(s)) : k + 1 \in 1..Len(s) /\ Tail(s)[k] = s[k + 1]
    BY <1>1
  <1>4. ASSUME NEW k \in 1..Len(s), k # 1
        PROVE  \E j \in 1..Len(Tail(s)) : Tail(s)[j] = s[k]
    <2>1. k - 1 \in 1..Len(Tail(s))
      BY <1>1, <1>4
    <2>2. Tail(s)[k - 1] = s[k - 1 + 1] /\ k - 1 + 1 = k
      BY <2>1, <1>3
    <2> QED
      BY <2>1, <2>2
  <1> QED
    BY <1>1, <1>2, <1>3, <1>4

LEMMA StepShape ==
    ASSUME NEW x \in Steps
    PROVE  /\ x[1] = "save" => x = <<"save">>
           /\ x[1] # "save" => /\ x[1] = "erase" /\ x[2] \in Bases /\ x[3] \in Slots
                              /\ x = <<"erase", x[2], x[3]>>
  BY DEF Steps

LEMMA RemainingIs ==
    ASSUME task \in Tasks, NEW todo \in Seq(Steps)
    PROVE  LET z == Remaining(todo)
           IN  /\ z \in Tasks /\ z.pc = "idle" /\ z.todo = todo
               /\ todo # <<>> => z.kind = task.kind
               /\ todo = <<>> => z.kind = IF task.kind = "wipe" THEN "restart" ELSE "none"
  <1>1. CASE todo # <<>>
    BY <1>1 DEF Remaining, Tasks, Points
  <1>2. CASE todo = <<>>
    BY <1>2, Basics DEF Remaining, Tasks, Kinds, NoTask
  <1> QED
    BY <1>1, <1>2

LEMMA AfterIs ==
    ASSUME task \in Tasks, NEW ok \in BOOLEAN
    PROVE  LET z == After(ok)
           IN  /\ z \in Tasks /\ z.pc = "idle"
               /\ z.todo = IF ~ok /\ task.kind = "migrate" THEN <<>> ELSE task.todo
               /\ z.todo # <<>> => z.kind = task.kind
               /\ z.todo = <<>> => z.kind = IF task.kind = "wipe" THEN "restart" ELSE "none"
  <1>1. task.todo \in Seq(Steps) /\ <<>> \in Seq(Steps)
    BY EmptySeq DEF Tasks
  <1> QED
    BY <1>1, RemainingIs DEF After

LEMMA TargetTyped ==
    ASSUME Typed
    PROVE  Target \in Slots /\ OtherSlot \in Slots
  BY Basics DEF Typed, Target, OtherSlot

LEMMA WriteTyped ==
    ASSUME Typed, NEW base \in Bases, NEW i \in Slots, NEW r \in Numbered, Write(base, i, r)
    PROVE  /\ sector' \in [Bases -> [Slots -> Numbered]]
           /\ stale' \in SUBSET (Bases \X Slots) /\ stale' \subseteq stale
           /\ sector' = [sector EXCEPT ![base] = [sector[base] EXCEPT ![i] = r]]
  BY DEF Typed, Write

LEMMA ChooseTyped == ASSUME Typed, SaveChoose PROVE Typed'
  <1>1. /\ cut = {} /\ task.pc = "idle" /\ task.todo # <<>> /\ task.todo \in Seq(Steps)
        /\ Tail(task.todo) \in Seq(Steps)
    BY HeadTail DEF SaveChoose, Next_is, Typed, Tasks
  <1>2. task' \in Tasks /\ task'.pc = "half" /\ task'.kind = task.kind
    BY <1>1, TargetTyped, Basics DEF SaveChoose, Typed, Tasks, Points
  <1>3. g' \in [seq : Nat, val : SettingsValues] /\ trial_slot' \in -1..1
    BY TargetTyped, Basics DEF SaveChoose, Typed
  <1>4. /\ migrate' \in BOOLEAN /\ (migrate' => migrate)
        /\ task.kind \notin {"none", "restart"}
    BY <1>1 DEF SaveChoose, Typed
  <1> QED
    BY <1>1, <1>2, <1>3, <1>4 DEF SaveChoose, Typed, boot_vars

LEMMA CopyTyped == ASSUME Typed, SaveCopy PROVE Typed'
  <1>1. task' \in Tasks /\ task'.pc = "copied" /\ task'.kind = task.kind /\ task.pc = "half"
    BY DEF SaveCopy, Typed, Tasks, Points
  <1>2. [task.sum EXCEPT !.extra = g.val.extra] \in SettingsValues
    BY DEF Typed, Tasks, SettingsValues
  <1>3. buf' \in Numbered
    BY <1>2 DEF SaveCopy, Typed, Images, Numbered, Records
  <1> QED
    BY <1>1, <1>3 DEF SaveCopy, Typed, boot_vars

LEMMA EraseTyped == ASSUME Typed, SaveErase PROVE Typed'
  <1>1. task.pc = "copied" /\ task.target \in Slots /\ cut' = {}
    BY DEF SaveErase, Typed, Tasks
  <1>2. CASE Write(Home, task.target, Blank) /\ task' = [task EXCEPT !.pc = "erased"]
    <2>1. task' \in Tasks /\ task'.pc = "erased" /\ task'.kind = task.kind
      BY <1>2 DEF Typed, Tasks, Points
    <2> QED
      BY <1>1, <1>2, <2>1, WriteTyped, Basics DEF SaveErase, Typed, ram_vars, boot_vars
  <1>3. CASE Keep(FALSE) /\ task' = After(FALSE)
    <2>1. /\ task' \in Tasks /\ task'.pc = "idle" 
          /\ task'.kind \in {"none", "restart"} => task'.todo = <<>>
          /\ task'.kind = "migrate" => task.kind = "migrate"
      BY <1>1, <1>3, AfterIs DEF Typed
    <2>2. sector' = sector /\ stale' \in SUBSET (Bases \X Slots)
      BY <1>3 DEF Keep, Typed
    <2> QED
      BY <1>1, <1>3, <2>1, <2>2 DEF SaveErase, Typed, ram_vars, boot_vars
  <1> QED
    BY <1>2, <1>3 DEF SaveErase

LEMMA ProgramTyped == ASSUME Typed, SaveProgram PROVE Typed'
  <1>1. task.pc = "erased" /\ task.target \in Slots
    BY DEF SaveProgram, Typed, Tasks
  <1>2. /\ task' \in Tasks /\ task'.pc = "idle"
        /\ task'.kind \in {"none", "restart"} => task'.todo = <<>>
        /\ task'.kind = "migrate" => task.kind = "migrate"
    BY <1>1, AfterIs DEF SaveProgram, Typed
  <1>3. /\ sector' \in [Bases -> [Slots -> Numbered]]
        /\ stale' \in SUBSET (Bases \X Slots)
    BY <1>1, WriteTyped, Basics DEF SaveProgram, Typed
  <1>4. saved' \in SUBSET SettingsValues /\ before' \in SUBSET SettingsValues /\ buf' \in Numbered
    BY Basics DEF SaveProgram, Acknowledge, Typed, Numbered, Records
  <1> QED
    BY <1>1, <1>2, <1>3, <1>4 DEF SaveProgram, Pays, Typed, boot_vars

LEMMA EraseStepTyped ==
    ASSUME Typed, Erase
    PROVE  Typed' 
  <1> DEFINE x == Head(task.todo)
  <1>1. /\ cut = {} /\ task.pc = "idle" /\ task.todo # <<>> /\ task.todo \in Seq(Steps)
        /\ Tail(task.todo) \in Seq(Steps) /\ x \in Steps /\ x[1] = "erase"
    BY HeadTail DEF Erase, Next_is, Typed, Tasks
  <1>2. x[2] \in Bases /\ x[3] \in Slots
    BY <1>1, StepShape
  <1>3. Write(x[2], x[3], Blank) \/ \E ok \in BOOLEAN : Keep(ok)
    BY DEF Erase
  <1>4. sector' \in [Bases -> [Slots -> Numbered]] /\ stale' \in SUBSET (Bases \X Slots)
    <2>1. CASE Write(x[2], x[3], Blank)
      BY <2>1, <1>2, WriteTyped, Basics
    <2>2. CASE \E ok \in BOOLEAN : Keep(ok)
      BY <2>2 DEF Keep, Typed
    <2> QED
      BY <1>3, <2>1, <2>2
  <1>5. /\ task' \in Tasks /\ task'.pc = "idle" 
        /\ task'.kind \in {"none", "restart"} => task'.todo = <<>>
        /\ task'.kind = "migrate" => task.kind = "migrate"
    <2>1. task.kind \notin {"none", "restart"} /\ task \in Tasks /\ task' = Remaining(Tail(task.todo))
      BY <1>1 DEF Erase, Typed
    <2> HIDE DEF x
    <2> QED
      BY <1>1, <2>1, RemainingIs
  <1> QED
    BY <1>1, <1>4, <1>5 DEF Erase, Typed, ram_vars, boot_vars

\* A task of the main loop begins.
LEMMA BeginIs ==
    ASSUME Typed, NEW kind \in {"later", "save", "migrate", "wipe"}, NEW todo \in Seq(Steps), Begin(kind, todo)
    PROVE  /\ task = NoTask /\ cut = {} /\ task' \in Tasks
           /\ task'.pc = "idle" /\ task'.kind = kind /\ task'.todo = todo
  BY Basics DEF Begin, Free, NoTask, Tasks, Kinds

LEMMA TodoTyped ==
    /\ <<<<"save">>>> \in Seq(Steps) /\ WipeSteps \in Seq(Steps)
    /\ <<<<"save">>, <<"erase", "legacy", 0>>, <<"erase", "legacy", 1>>>> \in Seq(Steps)
  <1>1. <<"save">> \in Steps /\ \A base \in Bases, i \in Slots : <<"erase", base, i>> \in Steps
    BY DEF Steps
  <1>2. "legacy" \in Bases /\ "home" \in Bases /\ 0 \in Slots /\ 1 \in Slots
    BY DEF Bases, Slots
  <1>3. WipeSteps \in Seq(Steps)
    BY <1>1, <1>2 DEF WipeSteps
  <1> QED
    BY <1>1, <1>2, <1>3

LEMMA MainTyped == ASSUME Typed, Main PROVE Typed'
  <1>1. ASSUME settings_save_poll \/ SaveNow PROVE Typed'
    <2>1. /\ Begin("later", <<<<"save">>>>) \/ Begin("save", <<<<"save">>>>)
          /\ UNCHANGED <<g, migrate, trial_slot, saved, stale>> /\ Rest
      BY <1>1 DEF settings_save_poll, SaveNow, ram_vars
    <2>2. pending' \in BOOLEAN /\ owed' \subseteq {"fresh", "copied"}
      BY <1>1 DEF settings_save_poll, SaveNow, ram_vars, Typed
    <2> QED
      BY <2>1, <2>2, BeginIs, TodoTyped DEF Typed, Rest, boot_vars
  <1>2. ASSUME settings_migrate PROVE Typed'
    <2> DEFINE todo == <<<<"save">>, <<"erase", "legacy", 0>>, <<"erase", "legacy", 1>>>>
    <2>1. Begin("migrate", todo) /\ todo \in Seq(Steps) /\ migrate /\ Rest /\ migrate' = FALSE
      BY <1>2, TodoTyped DEF settings_migrate
    <2>2. /\ task = NoTask /\ cut = {} /\ task' \in Tasks
          /\ task'.pc = "idle" /\ task'.kind = "migrate"
      BY <2>1, BeginIs
    <2>3. Partitioned /\ UNCHANGED <<g, pending, trial_slot, saved, stale, owed>>
      BY <1>2 DEF Typed, settings_migrate
    <2> HIDE DEF todo
    <2> QED
      BY <2>1, <2>2, <2>3 DEF Typed, Rest, boot_vars
  <1>3. ASSUME settings_wipe PROVE Typed'
    <2>1. stale' \in SUBSET (Bases \X Slots)
      BY <1>3 DEF settings_wipe
    <2>2. Begin("wipe", WipeSteps)
      BY <1>3 DEF settings_wipe
    <2> QED
      BY <1>3, <2>1, <2>2, BeginIs, TodoTyped DEF Typed, boot_vars, settings_wipe
  <1>4. ASSUME NEW later \in BOOLEAN, Change(later) PROVE Typed'
    <2>1. g' \in [seq : Nat, val : SettingsValues]
      BY <1>4 DEF Change, Known, Typed
    <2>2. pending' \in BOOLEAN /\ owed' \subseteq {"fresh", "copied"}
      BY <1>4 DEF Change, Typed
    <2> QED
      BY <1>4, <2>1, <2>2 DEF Change, Typed, flash_vars, boot_vars
  <1> QED
    BY <1>1, <1>2, <1>3, <1>4 DEF Main

LEMMA LaterTyped == ASSUME Typed, CallbackLater PROVE Typed'
  <1>1. g' \in [seq : Nat, val : SettingsValues] /\ pending' \in BOOLEAN /\ owed' \subseteq {"fresh", "copied"}
    BY DEF CallbackLater, Known, Typed
  <1> QED
    BY <1>1 DEF CallbackLater, Typed, flash_vars, boot_vars

LEMMA PostTyped == ASSUME Typed, CallbackPost PROVE Typed'
  <1>1. PICK v \in Known(image), ok \in BOOLEAN :
          LET r == [seq |-> g.seq + 1, val |-> v, ver |-> image, seal |-> v]
          IN  /\ g' = [seq |-> r.seq, val |-> v]
              /\ IF ok THEN Write(Home, Target, Blank) /\ cut' = {Target} /\ buf' = r
                       ELSE /\ UNCHANGED <<sector, stale, cut>>
                            /\ buf' = IF task.pc = "copied" THEN r ELSE Blank
    BY DEF CallbackPost, Outcomes
  <1> DEFINE r == [seq |-> g.seq + 1, val |-> v, ver |-> image, seal |-> v]
  <1>2. v \in SettingsValues /\ g' \in [seq : Nat, val : SettingsValues] /\ r \in Numbered
    BY <1>1 DEF Known, Typed, Numbered, Records, Images
  <1>3. buf' \in Numbered
    BY <1>1, <1>2, Basics
  <1>4. cut' \in SUBSET Slots /\ trial_slot' \in -1..1
    <2>1. cut' = {Target} \/ cut' = cut
      BY <1>1
    <2>2. trial_slot' = Target \/ trial_slot' = trial_slot
      BY DEF CallbackPost
    <2>3. Target \in Slots /\ cut \in SUBSET Slots /\ trial_slot \in -1..1
      BY TargetTyped DEF Typed
    <2>4. {Target} \in SUBSET Slots /\ Target \in -1..1
      BY <2>3 DEF Slots
    <2> QED
      BY <2>1, <2>2, <2>3, <2>4
  <1>5. sector' \in [Bases -> [Slots -> Numbered]] /\ stale' \in SUBSET (Bases \X Slots)
    BY <1>1, TargetTyped, WriteTyped, Basics DEF Typed
  <1> QED
    BY <1>2, <1>3, <1>4, <1>5 DEF CallbackPost, Typed, boot_vars

LEMMA PostProgramTyped == ASSUME Typed, PostProgram PROVE Typed'
  <1>1. PICK i \in cut : Write(Home, i, buf)
    BY DEF PostProgram
  <1>2. sector' \in [Bases -> [Slots -> Numbered]] /\ stale' \in SUBSET (Bases \X Slots)
    BY <1>1, WriteTyped, Basics DEF Typed
  <1>3. saved' \in SUBSET SettingsValues /\ before' \in SUBSET SettingsValues /\ buf' \in Numbered
    BY Basics DEF PostProgram, Acknowledge, Typed, Numbered, Records
  <1> QED
    BY <1>2, <1>3 DEF PostProgram, Typed, boot_vars

LEMMA LoadTyped ==
    ASSUME Typed, NEW img \in Images, settings_load(img)
    PROVE  /\ g' \in [seq : Nat, val : SettingsValues] /\ g' = LoadedFrom(sector, img)
           /\ migrate' \in BOOLEAN /\ (migrate' => Partitioned)
           /\ trial_slot' = -1 /\ pending' = FALSE /\ owed' = {}
  BY LoadedIs, LoadedFound, SettingsAssumption DEF settings_load, Typed

LEMMA PowerTyped == ASSUME Typed, PowerLoss PROVE Typed'
  <1>1. image' \in Images /\ trial' = FALSE /\ (image' = "new" => image = "new")
    BY DEF PowerLoss, Typed, Images
  <1>2. settings_load(image')
    BY DEF PowerLoss
  <1>3. saved' \in SUBSET SettingsValues
    <2>1. Loaded("old").val \in SettingsValues
      BY LoadedIs, LoadedFound DEF Typed, Images
    <2> QED
      BY <2>1 DEF PowerLoss, Typed
  <1>4. task' \in Tasks /\ task'.pc = "idle" /\ task'.todo = <<>> /\ task'.kind = "none"
    BY Basics DEF PowerLoss, NoTask
  <1>5. /\ g' \in [seq : Nat, val : SettingsValues] /\ migrate' \in BOOLEAN /\ (migrate' => Partitioned)
        /\ trial_slot' = -1 /\ pending' = FALSE /\ owed' = {}
    BY <1>1, <1>2, LoadTyped
  <1>6. /\ sector' = sector /\ buf' \in Numbered /\ cut' = {} /\ stale' = {}
        /\ before' = before /\ trials' = trials
    BY Basics DEF PowerLoss
  <1>7. trial_slot' \in -1..1 /\ stale' \in SUBSET (Bases \X Slots) /\ cut' \in SUBSET Slots
    BY <1>5, <1>6
  <1>8. image' = "new" => trials' > 0
    BY <1>1, <1>6 DEF Typed
  <1> QED
    <2>1. /\ pending' \in BOOLEAN /\ owed' \subseteq {"fresh", "copied"} /\ trial' \in BOOLEAN
          /\ trial' => image' = "new"
      BY <1>1, <1>5
    <2>2. sector' \in [Bases -> [Slots -> Numbered]] /\ before' \in SUBSET SettingsValues /\ trials' \in Nat
      BY <1>6 DEF Typed
    <2>3. /\ task'.kind \in {"none", "restart"} => task'.pc = "idle" /\ task'.todo = <<>>
          /\ migrate' \/ task'.kind = "migrate" => Partitioned
      BY <1>4, <1>5
    <2> QED
      BY <1>1, <1>3, <1>4, <1>5, <1>6, <1>7, <1>8, <2>1, <2>2, <2>3, Zenon DEF Typed

LEMMA InstallTyped == ASSUME Typed, Install PROVE Typed'
  <1>1. settings_load("new") /\ "new" \in Images
    BY DEF Install, Images
  <1>2. saved' \in SUBSET SettingsValues
    <2>1. Loaded("new").val \in SettingsValues
      BY LoadedIs, LoadedFound DEF Typed, Images
    <2> QED
      BY <2>1 DEF Install, Typed
  <1>3. /\ g' \in [seq : Nat, val : SettingsValues] /\ migrate' \in BOOLEAN /\ (migrate' => Partitioned)
        /\ trial_slot' = -1 /\ pending' = FALSE /\ owed' = {}
    BY <1>1, LoadTyped
  <1>4. task = NoTask /\ cut = {} /\ task.kind # "migrate" /\ trials + 1 > 0 /\ trials + 1 \in Nat
    BY DEF Install, Free, NoTask, Typed
  <1>5. /\ sector' = sector /\ buf' = buf /\ cut' = cut /\ stale' = stale /\ task' = task
        /\ before' = before /\ image' = "new" /\ trial' = TRUE /\ trials' = trials + 1
    BY DEF Install
  <1>6. trial_slot' \in -1..1 /\ image' \in Images
    BY <1>3, <1>5 DEF Images
  <1> QED
    <2>1. pending' \in BOOLEAN /\ owed' \subseteq {"fresh", "copied"} /\ trial' \in BOOLEAN
      BY <1>3, <1>5
    <2>2. /\ sector' \in [Bases -> [Slots -> Numbered]] /\ before' \in SUBSET SettingsValues
          /\ buf' \in Numbered /\ cut' \in SUBSET Slots /\ stale' \in SUBSET (Bases \X Slots)
      BY <1>5 DEF Typed
    <2>3. task' \in Tasks /\ task'.pc = "idle" /\ task'.todo = <<>> /\ task'.kind = "none"
      BY <1>4, <1>5, Basics DEF NoTask
    <2>4. /\ task'.kind \in {"none", "restart"} => task'.pc = "idle" /\ task'.todo = <<>>
          /\ migrate' \/ task'.kind = "migrate" => Partitioned
      BY <2>3, <1>3
    <2>5. trials' \in Nat /\ (image' = "new" => trials' > 0) /\ (trial' => image' = "new")
      BY <1>4, <1>5
    <2> QED
      BY <1>2, <1>3, <1>4, <1>5, <1>6, <2>1, <2>2, <2>3, <2>4, <2>5, Zenon DEF Typed

LEMMA CommitTyped == ASSUME Typed, Commit PROVE Typed'
  BY DEF Commit, Typed, ram_vars

LEMMA InitTyped == ASSUME Init PROVE Typed
  <1>1. PICK b \in (IF Partitioned THEN Bases ELSE {"legacy"}), v \in SettingsValues :
         LET retained == Seen(v, "old", "old")
             r == [seq |-> 0, val |-> retained, ver |-> "old", seal |-> retained]
         IN  /\ sector = [base \in Bases |->
                            [i \in Slots |-> IF base = b /\ i = 0 THEN r ELSE Blank]]
             /\ g = [seq |-> 0, val |-> retained] /\ saved = {retained} /\ before = {retained}
             /\ migrate = (b # Home)
    BY DEF Init
  <1> DEFINE retained == Seen(v, "old", "old")
             r == [seq |-> 0, val |-> retained, ver |-> "old", seal |-> retained]
  <1>2. retained \in SettingsValues
    BY SeenTyped
  <1>3. r \in Numbered
    BY <1>2 DEF Numbered, Records
  <1>4. sector \in [Bases -> [Slots -> Numbered]]
    BY <1>1, <1>3, Basics
  <1>5. g \in [seq : Nat, val : SettingsValues] /\ saved \in SUBSET SettingsValues
        /\ before \in SUBSET SettingsValues
    BY <1>1, <1>2
  <1>6. migrate \in BOOLEAN /\ (migrate => Partitioned)
    BY <1>1, SettingsAssumption DEF Home, Bases
  <1> HIDE DEF retained, r
  <1>7. NoTask.kind = "none" /\ NoTask.pc = "idle" /\ NoTask.todo = <<>>
    BY DEF NoTask
  <1>8. /\ buf = Blank /\ task = NoTask /\ cut = {} /\ pending = FALSE /\ trial_slot = -1 /\ image = "old"
        /\ trial = FALSE /\ trials = 0 /\ owed = {} /\ stale = {}
    BY DEF Init
  <1>9. buf \in Numbered /\ task \in Tasks /\ trial_slot \in -1..1 /\ image \in Images /\ trials \in Nat
    BY <1>8, Basics DEF Images
  <1> QED
    BY <1>4, <1>5, <1>6, <1>7, <1>8, <1>9 DEF Typed

LEMMA TypedStep == ASSUME Typed, [Next]_store_vars PROVE Typed'
  <1>1. CASE Saving
    BY <1>1, ChooseTyped, CopyTyped, EraseTyped, ProgramTyped, EraseStepTyped DEF Saving
  <1>2. CASE CallbackPost
    BY <1>2, PostTyped
  <1>3. CASE UNCHANGED store_vars
    BY <1>3 DEF Typed, store_vars, flash_vars, ram_vars, boot_vars
  <1> QED
    BY <1>1, <1>2, <1>3, MainTyped, LaterTyped, PostProgramTyped, PowerTyped, InstallTyped,
       CommitTyped DEF Next

------------------------------------------------------------------------------
(* A factory reset *)

Coming(s, todo) == \A x \in s : \E k \in 1..Len(todo) : todo[k] = <<"erase", x[1], x[2]>>
Whole == /\ \A x \in stale : sector[x[1]][x[2]] # Blank
         /\ Partitioned => \A i \in Slots : Wellformed(sector["legacy"][i])
         /\ ~Partitioned => \A i \in Slots : sector["home"][i] = Blank

LEMMA WipeParts ==
    WipeComes <=> (stale # {} => task.kind = "wipe") /\ Coming(stale, task.todo) /\ Whole
  BY DEF WipeComes, Coming, Whole

LEMMA ComingNone == \A s : Coming(s, <<>>) => s = {}
  <1> Len(<<>>) = 0
    BY EmptySeq
  <1> QED
    BY DEF Coming

LEMMA ComingTail ==
    ASSUME NEW s, NEW todo \in Seq(Steps), todo # <<>>, Coming(s, todo),
           \A x \in s : Head(todo) # <<"erase", x[1], x[2]>>
    PROVE  Coming(s, Tail(todo))
  <1> SUFFICES ASSUME NEW x \in s PROVE \E j \in 1..Len(Tail(todo)) : Tail(todo)[j] = <<"erase", x[1], x[2]>>
    BY DEF Coming
  <1>1. PICK k \in 1..Len(todo) : todo[k] = <<"erase", x[1], x[2]>>
    BY DEF Coming
  <1>2. todo[k] # Head(todo)
    BY <1>1
  <1>3. \E j \in 1..Len(Tail(todo)) : Tail(todo)[j] = todo[k]
    BY <1>2, HeadTail
  <1> QED
    BY <1>1, <1>3

LEMMA WriteWhole ==
    ASSUME Typed, Whole, NEW base \in Bases, NEW i \in Slots, NEW r \in Numbered,
           base = Home \/ r = Blank, Write(base, i, r)
    PROVE  Whole' /\ stale' \subseteq stale /\ <<base, i>> \notin stale'
  <1>1. sector' = [sector EXCEPT ![base] = [sector[base] EXCEPT ![i] = r]] /\ stale' = stale \ {<<base, i>>}
    BY DEF Write
  <1>2. \A b \in Bases, j \in Slots : sector'[b][j] = IF b = base /\ j = i THEN r ELSE sector[b][j]
    BY <1>1 DEF Typed
  <1>3. ASSUME NEW x \in stale' PROVE sector'[x[1]][x[2]] # Blank
    <2>1. x \in stale /\ x # <<base, i>> /\ x[1] \in Bases /\ x[2] \in Slots /\ x = <<x[1], x[2]>>
      BY <1>1 DEF Typed
    <2>2. ~(x[1] = base /\ x[2] = i)
      BY <2>1
    <2> QED
      BY <2>1, <2>2, <1>2 DEF Whole
  <1>4. "legacy" \in Bases /\ "home" \in Bases /\ Wellformed(Blank)
    BY DEF Bases, Wellformed
  <1>5. ASSUME Partitioned, NEW j \in Slots PROVE Wellformed(sector'["legacy"][j])
    <2>1. Home = "home"
      BY <1>5 DEF Home
    <2> QED
      BY <2>1, <1>2, <1>4, <1>5 DEF Whole
  <1>6. ASSUME ~Partitioned, NEW j \in Slots PROVE sector'["home"][j] = Blank
    <2>1. Home = "legacy"
      BY <1>6 DEF Home
    <2> QED
      BY <2>1, <1>2, <1>4, <1>6 DEF Whole
  <1> QED
    BY <1>1, <1>3, <1>5, <1>6 DEF Whole

LEMMA ComingLess == ASSUME NEW s, NEW z \in SUBSET s, NEW todo, Coming(s, todo) PROVE Coming(z, todo)
  BY DEF Coming

LEMMA SavingWipe == ASSUME Typed, WipeComes, Saving PROVE WipeComes'
  <1>1. /\ stale # {} => task.kind = "wipe"
        /\ Coming(stale, task.todo) /\ Whole /\ task.todo \in Seq(Steps) /\ task \in Tasks
    BY WipeParts DEF Typed, Tasks
  <1>2. ASSUME SaveChoose PROVE WipeComes'
    <2>1. /\ task.todo # <<>> /\ Head(task.todo)[1] = "save" /\ stale' = stale /\ sector' = sector
          /\ task'.kind = task.kind /\ task'.todo = Tail(task.todo)
      BY <1>2 DEF SaveChoose, Next_is, Typed, Tasks
    <2>2. \A x \in stale : Head(task.todo) # <<"erase", x[1], x[2]>>
      BY <2>1
    <2>3. Coming(stale, Tail(task.todo))
      BY <1>1, <2>1, <2>2, ComingTail
    <2> QED
      BY <1>1, <2>1, <2>3 DEF WipeComes, Coming, Whole
  <1>3. ASSUME SaveCopy PROVE WipeComes'
    <2>1. /\ stale' = stale /\ sector' = sector
          /\ task'.kind = task.kind /\ task'.todo = task.todo
      BY <1>3 DEF SaveCopy, Typed, Tasks
    <2> QED
      BY <2>1 DEF WipeComes
  <1>4. ASSUME SaveErase PROVE WipeComes'
    <2>1. CASE Write(Home, task.target, Blank) /\ task' = [task EXCEPT !.pc = "erased"]
      <3>1. task'.kind = task.kind /\ task'.todo = task.todo
        BY <2>1 DEF Typed, Tasks
      <3>2. Whole' /\ stale' \subseteq stale
        BY <2>1, <1>1, WriteWhole, Basics DEF Tasks
      <3> QED
        BY <1>1, <3>1, <3>2 DEF WipeComes, Coming, Whole
    <2>2. CASE Keep(FALSE)
      <3>1. sector' = sector /\ stale' = {}
        BY <2>2, <1>1 DEF Keep
      <3> QED
        BY <3>1, <1>1 DEF WipeComes, Whole
    <2> QED
      BY <1>4, <2>1, <2>2 DEF SaveErase
  <1>5. ASSUME SaveProgram PROVE WipeComes'
    <2>1. Write(Home, task.target, buf) /\ task' = After(TRUE)
      BY <1>5 DEF SaveProgram
    <2>2. Whole' /\ stale' \subseteq stale
      BY <2>1, <1>1, WriteWhole, Basics DEF Tasks, Typed
    <2>3. task'.todo = task.todo /\ (task.todo # <<>> => task'.kind = task.kind)
      BY <2>1, <1>1, AfterIs
    <2>4. task.todo = <<>> => stale' = {}
      BY <1>1, <2>2, ComingNone
    <2> QED
      BY <1>1, <2>2, <2>3, <2>4 DEF WipeComes, Coming, Whole
  <1>6. ASSUME Erase PROVE WipeComes'
    <2> DEFINE x == Head(task.todo)
    <2>1. /\ task.todo # <<>> /\ x \in Steps /\ x[1] = "erase" /\ Tail(task.todo) \in Seq(Steps)
          /\ task' = Remaining(Tail(task.todo))
      BY <1>1, <1>6, HeadTail DEF Erase, Next_is
    <2>2. x[2] \in Bases /\ x[3] \in Slots /\ x = <<"erase", x[2], x[3]>>
      BY <2>1, StepShape
    <2>3. CASE stale = {}
      <3>1. stale' = {} /\ Whole'
        <4>1. CASE Write(x[2], x[3], Blank)
          BY <4>1, <1>1, <2>2, <2>3, WriteWhole, Basics
        <4>2. CASE \E ok \in BOOLEAN : Keep(ok)
          BY <4>2, <1>1, <2>3 DEF Keep, Whole
        <4> QED
          BY <1>6, <4>1, <4>2 DEF Erase
      <3> QED
        BY <3>1 DEF WipeComes, Whole
    <2>4. CASE stale # {}
      <3>1. task.kind = "wipe"
        BY <1>1, <2>4
      <3>2. Whole' /\ stale' \subseteq stale /\ <<x[2], x[3]>> \notin stale'
        <4>1. CASE Write(x[2], x[3], Blank)
          BY <4>1, <1>1, <2>2, WriteWhole, Basics
        <4>2. CASE Keep(FALSE)
          BY <4>2, <1>1, <3>1 DEF Keep, Whole
        <4>3. CASE Keep(TRUE) /\ x[2] # Home /\ ~slot_valid(sector[x[2]][x[3]], image)
          <5>1. sector[x[2]][x[3]] = Blank
            BY <4>3, <1>1, <2>2 DEF Whole, Home, Bases, Wellformed, slot_valid
          <5>2. <<x[2], x[3]>> \notin stale
            BY <5>1, <1>1 DEF Whole
          <5> QED
            BY <4>3, <5>2, <1>1 DEF Keep, Whole
        <4> QED
          BY <1>6, <3>1, <4>1, <4>2, <4>3 DEF Erase, Outcomes
      <3>3. \A y \in stale' : x # <<"erase", y[1], y[2]>>
        <4>1. ASSUME NEW y \in stale', x = <<"erase", y[1], y[2]>> PROVE FALSE
          <5>1. y = <<y[1], y[2]>>
            BY <3>2 DEF Typed
          <5> QED
            BY <4>1, <5>1, <3>2
        <4> QED
          BY <4>1
      <3>4. Coming(stale', Tail(task.todo))
        <4>1. Coming(stale', task.todo)
          BY <1>1, <3>2 DEF Coming
        <4> QED
          BY <4>1, <1>1, <2>1, <3>3, ComingTail
      <3>5. task'.todo = Tail(task.todo) /\ (Tail(task.todo) # <<>> => task'.kind = task.kind)
        BY <1>1, <2>1, RemainingIs
      <3>6. Tail(task.todo) = <<>> => stale' = {}
        BY <3>4, ComingNone
      <3> QED
        BY <3>1, <3>2, <3>4, <3>5, <3>6 DEF WipeComes, Coming, Whole
    <2> QED
      BY <2>3, <2>4
  <1> QED
    BY <1>2, <1>3, <1>4, <1>5, <1>6 DEF Saving

LEMMA StepsOfWipe ==
    /\ \E k \in 1..Len(WipeSteps) : WipeSteps[k] = <<"erase", "legacy", 0>>
    /\ \E k \in 1..Len(WipeSteps) : WipeSteps[k] = <<"erase", "legacy", 1>>
    /\ Partitioned => \E k \in 1..Len(WipeSteps) : WipeSteps[k] = <<"erase", "home", 0>>
    /\ Partitioned => \E k \in 1..Len(WipeSteps) : WipeSteps[k] = <<"erase", "home", 1>>
  <1>1. CASE Partitioned
    <2>1. /\ Len(WipeSteps) = 5 /\ WipeSteps[1] = <<"erase", "home", 0>>
          /\ WipeSteps[2] = <<"erase", "legacy", 0>> /\ WipeSteps[3] = <<"erase", "home", 1>>
          /\ WipeSteps[4] = <<"erase", "legacy", 1>>
      BY <1>1 DEF WipeSteps
    <2>2. 1 \in 1..5 /\ 2 \in 1..5 /\ 3 \in 1..5 /\ 4 \in 1..5
      OBVIOUS
    <2> QED
      BY <2>1, <2>2
  <1>2. CASE ~Partitioned
    <2>1. /\ Len(WipeSteps) = 3 /\ WipeSteps[1] = <<"erase", "legacy", 0>>
          /\ WipeSteps[2] = <<"erase", "legacy", 1>>
      BY <1>2 DEF WipeSteps
    <2>2. 1 \in 1..3 /\ 2 \in 1..3
      OBVIOUS
    <2> QED
      BY <1>2, <2>1, <2>2
  <1> QED
    BY <1>1, <1>2

LEMMA MainWipe == ASSUME Typed, WipeComes, Main PROVE WipeComes'
  <1>1. /\ stale # {} => task.kind = "wipe"
        /\ Coming(stale, task.todo) /\ Whole
    BY WipeParts
  <1>2. ASSUME settings_wipe PROVE WipeComes'
    <2>1. /\ stale' = {x \in Bases \X Slots : sector[x[1]][x[2]] # Blank} /\ sector' = sector
          /\ Begin("wipe", WipeSteps)
      BY <1>2 DEF settings_wipe
    <2>2. task'.kind = "wipe" /\ task'.todo = WipeSteps
      BY <2>1, BeginIs, TodoTyped
    <2>3. ASSUME NEW x \in stale'
          PROVE  \E k \in 1..Len(WipeSteps) : WipeSteps[k] = <<"erase", x[1], x[2]>>
      <3>1. x[1] \in Bases /\ x[2] \in Slots /\ sector[x[1]][x[2]] # Blank
        BY <2>1
      <3>2. ~Partitioned => x[1] = "legacy"
        BY <3>1, <1>1 DEF Whole, Bases
      <3> QED
        BY <3>1, <3>2, StepsOfWipe DEF Bases, Slots
    <2>4. Whole'
      BY <2>1, <1>1 DEF Whole
    <2> QED
      BY <2>2, <2>3, <2>4 DEF WipeComes, Whole
  <1>3. ASSUME NEW kind \in {"later", "save", "migrate"}, NEW todo \in Seq(Steps), Begin(kind, todo),
               UNCHANGED <<sector, stale>>
        PROVE  WipeComes'
    <2>1. stale = {}
      BY <1>1, <1>3, BeginIs DEF NoTask
    <2> QED
      BY <2>1, <1>1, <1>3 DEF WipeComes, Whole
  <1>4. ASSUME settings_save_poll \/ SaveNow PROVE WipeComes'
    <2>1. /\ Begin("later", <<<<"save">>>>) \/ Begin("save", <<<<"save">>>>)
          /\ UNCHANGED <<sector, stale>>
      BY <1>4 DEF settings_save_poll, SaveNow, Rest
    <2> QED
      BY <2>1, <1>3, TodoTyped
  <1>5. ASSUME settings_migrate PROVE WipeComes'
    <2>1. Begin("migrate", <<<<"save">>, <<"erase", "legacy", 0>>, <<"erase", "legacy", 1>>>>)
      BY <1>5 DEF settings_migrate
    <2>2. UNCHANGED <<sector, stale>>
      BY <1>5 DEF settings_migrate, Rest
    <2> QED
      BY <2>1, <2>2, <1>3, TodoTyped
  <1>6. ASSUME NEW later \in BOOLEAN, Change(later) PROVE WipeComes'
    BY <1>6 DEF Change, WipeComes, flash_vars
  <1> QED
    BY <1>2, <1>4, <1>5, <1>6 DEF Main

LEMMA WipeStep == ASSUME Typed, WipeComes, [Next]_store_vars PROVE WipeComes'
  <1>1. /\ stale # {} => task.kind = "wipe"
        /\ Coming(stale, task.todo) /\ Whole
    BY WipeParts
  <1>2. CASE CallbackLater
    BY <1>2 DEF CallbackLater, WipeComes, flash_vars
  <1>3. ASSUME NEW base \in Bases, NEW i \in Slots, NEW r \in Numbered,
               base = Home \/ r = Blank, Write(base, i, r), task' = task
        PROVE  WipeComes'
    <2>1. Whole' /\ stale' \subseteq stale
      BY <1>1, <1>3, WriteWhole
    <2> QED
      BY <2>1, <1>1, <1>3 DEF WipeComes, Coming, Whole
  <1>4. CASE CallbackPost
    <2>1. Write(Home, Target, Blank) \/ UNCHANGED <<sector, stale>>
      BY <1>4 DEF CallbackPost
    <2>2. task' = task
      BY <1>4 DEF CallbackPost
    <2>3. CASE Write(Home, Target, Blank)
      BY <2>2, <2>3, <1>3, TargetTyped, Basics
    <2>4. CASE UNCHANGED <<sector, stale>>
      BY <2>2, <2>4 DEF WipeComes
    <2> QED
      BY <2>1, <2>3, <2>4
  <1>5. CASE PostProgram
    <2>1. PICK i \in cut : Write(Home, i, buf)
      BY <1>5 DEF PostProgram
    <2>2. i \in Slots /\ buf \in Numbered /\ task' = task
      BY <1>5 DEF PostProgram, Typed
    <2> QED
      BY <2>1, <2>2, <1>3, Basics
  <1>6. CASE PowerLoss
    <2>1. stale' = {} /\ sector' = sector
      BY <1>6 DEF PowerLoss
    <2> QED
      BY <2>1, <1>1 DEF WipeComes, Whole
  <1>7. CASE Install \/ Commit
    BY <1>7 DEF Install, Commit, WipeComes
  <1>8. CASE UNCHANGED store_vars
    BY <1>8 DEF WipeComes, store_vars, flash_vars
  <1> QED
    BY <1>2, <1>4, <1>5, <1>6, <1>7, <1>8, SavingWipe, MainWipe DEF Next

LEMMA InitWipe == ASSUME Init PROVE WipeComes
  <1>1. PICK b \in (IF Partitioned THEN Bases ELSE {"legacy"}), v \in SettingsValues :
         LET retained == Seen(v, "old", "old")
             r == [seq |-> 0, val |-> retained, ver |-> "old", seal |-> retained]
         IN  sector = [base \in Bases |-> [i \in Slots |-> IF base = b /\ i = 0 THEN r ELSE Blank]]
    BY DEF Init
  <1> DEFINE retained == Seen(v, "old", "old")
             r == [seq |-> 0, val |-> retained, ver |-> "old", seal |-> retained]
  <1>2. Wellformed(r) /\ Wellformed(Blank) /\ stale = {}
    BY DEF Wellformed, Init
  <1>3. \A base \in Bases, i \in Slots : sector[base][i] \in {r, Blank}
    BY <1>1
  <1>4. ASSUME ~Partitioned, NEW i \in Slots PROVE sector["home"][i] = Blank
    <2>1. b # "home" /\ "home" \in Bases
      BY <1>4 DEF Bases
    <2> QED
      BY <1>1, <2>1
  <1>5. ASSUME NEW i \in Slots PROVE Wellformed(sector["legacy"][i])
    <2> HIDE DEF r
    <2>1. "legacy" \in Bases
      BY DEF Bases
    <2> QED
      BY <1>2, <1>3, <2>1
  <1> QED
    BY <1>2, <1>4, <1>5 DEF WipeComes

\* When a factory reset has reported success no sector holds a record from
\* before it: settings_wipe() erases every sector that holds one, whatever was
\* saved meanwhile and whatever interrupts it.
THEOREM WipedStaysGone == Spec => []WipedIsGone
  <1>1. Init => Typed /\ WipeComes
    BY InitTyped, InitWipe
  <1>2. Typed /\ WipeComes /\ [Next]_store_vars => (Typed /\ WipeComes)'
    BY TypedStep, WipeStep
  <1>3. Typed /\ WipeComes => WipedIsGone
    BY DEF WipeComes, WipedIsGone
  <1> QED
    BY <1>1, <1>2, <1>3, PTL DEF Spec

------------------------------------------------------------------------------
(* What was put off *)

\* The saves that the main loop promised do not fail, and no callback saves by
\* itself while the checksum of a record is being made.
PromisedSavesWork == "later" \notin SaveFailing /\ <<"post", "half">> \notin Preempt

LEMMA InitOwed == ASSUME Init PROVE OwedComes
  BY DEF Init, OwedComes

LEMMA SavingOwed == ASSUME Typed, OwedComes, PromisedSavesWork, Saving PROVE OwedComes'
  <1> SUFFICES ASSUME owed' # {}, ~pending'
               PROVE  /\ task'.kind = "later"
                      /\ task'.pc = "idle" => task'.todo # <<>> /\ Head(task'.todo)[1] = "save"
                      /\ task'.pc = "half" => task'.sum = g'.val
                      /\ task'.pc \in {"copied", "erased"} => "fresh" \notin owed' /\ buf'.seal = buf'.val
    BY DEF OwedComes
  <1>1. pending' = pending /\ owed # {} /\ task \in Tasks /\ g.val \in SettingsValues
    BY DEF Saving, SaveChoose, SaveCopy, SaveErase, SaveProgram, Erase, Pays, ram_vars, Typed
  <1>2. /\ task.kind = "later"
        /\ task.pc = "idle" => task.todo # <<>> /\ Head(task.todo)[1] = "save"
        /\ task.pc = "half" => task.sum = g.val
        /\ task.pc \in {"copied", "erased"} => "fresh" \notin owed /\ buf.seal = buf.val
    BY <1>1 DEF OwedComes
  <1>3. CASE SaveChoose
    BY <1>1, <1>2, <1>3 DEF SaveChoose, Tasks
  <1>4. CASE SaveCopy
    <2>1. task'.pc = "copied" /\ task'.kind = "later" /\ task.sum = g.val /\ owed' = {"copied"}
      BY <1>1, <1>2, <1>4 DEF SaveCopy, Tasks
    <2>2. buf'.val = g.val /\ buf'.seal = [task.sum EXCEPT !.extra = g.val.extra]
      BY <1>4 DEF SaveCopy
    <2>3. [g.val EXCEPT !.extra = g.val.extra] = g.val
      BY <1>1 DEF SettingsValues
    <2> QED
      BY <2>1, <2>2, <2>3
  <1>5. CASE SaveErase
    <2>1. Outcomes(task.kind) = {TRUE} /\ task.pc = "copied" /\ UNCHANGED <<buf, owed>>
      BY <1>2, <1>5 DEF SaveErase, Outcomes, PromisedSavesWork, ram_vars
    <2>2. task' = [task EXCEPT !.pc = "erased"]
      BY <1>5, <2>1 DEF SaveErase
    <2>3. task'.pc = "erased" /\ task'.kind = "later"
      BY <1>1, <1>2, <2>2 DEF Tasks
    <2> QED
      BY <1>2, <2>1, <2>3
  <1>6. CASE SaveProgram
    <2>1. task.pc = "erased" /\ owed' = IF buf.seal = buf.val THEN owed \ {"copied"} ELSE owed
      BY <1>6 DEF SaveProgram, Pays
    <2>2. owed' = {}
      BY <1>2, <2>1 DEF Typed
    <2> QED
      BY <2>2
  <1>7. CASE Erase
    BY <1>2, <1>7 DEF Erase, Next_is
  <1> QED
    BY <1>3, <1>4, <1>5, <1>6, <1>7 DEF Saving

LEMMA OwedStep == ASSUME Typed, OwedComes, PromisedSavesWork, [Next]_store_vars PROVE OwedComes'
  <1>1. CASE UNCHANGED <<owed, pending, task, g, buf>>
    BY <1>1 DEF OwedComes
  <1>2. CASE pending' = TRUE \/ owed' = {}
    BY <1>2 DEF OwedComes
  <1>3. ASSUME Free, UNCHANGED <<owed, pending>> PROVE OwedComes'
    <2>1. task.kind = "none"
      BY <1>3 DEF Free, NoTask
    <2> QED
      BY <1>3, <2>1 DEF OwedComes
  <1>4. CASE SaveNow \/ settings_migrate
    BY <1>3, <1>4 DEF SaveNow, settings_migrate, Begin, ram_vars
  <1>5. CASE settings_save_poll
    <2>1. Begin("later", <<<<"save">>>>)
      BY <1>5 DEF settings_save_poll
    <2>2. task'.kind = "later" /\ task'.pc = "idle" /\ task'.todo = <<<<"save">>>>
      BY <2>1, BeginIs, TodoTyped
    <2>3. task'.todo # <<>> /\ Head(task'.todo)[1] = "save"
      BY <2>2
    <2> QED
      BY <2>2, <2>3 DEF OwedComes
  <1>6. CASE \E later \in BOOLEAN : Change(later)
    <2>1. PICK later \in BOOLEAN : Change(later)
      BY <1>6
    <2>2. CASE later
      BY <1>2, <2>1, <2>2 DEF Change
    <2>3. CASE ~later
      BY <1>3, <2>1, <2>3 DEF Change, Typed
    <2> QED
      BY <2>2, <2>3
  <1>7. CASE CallbackPost
    <2>1. UNCHANGED <<owed, pending, task>> /\ task.pc \in {"idle", "copied"}
      BY <1>7, SettingsAssumption DEF CallbackPost, Interrupt, PromisedSavesWork
    <2>2. task.pc = "copied" => buf'.seal = buf'.val
      BY <1>7 DEF CallbackPost
    <2> QED
      BY <2>1, <2>2 DEF OwedComes
  <1>8. CASE PostProgram
    <2>1. CASE task.kind = "wipe"
      BY <1>8, <2>1 DEF PostProgram, OwedComes
    <2>2. CASE task.kind # "wipe"
      BY <1>2, <1>8, <2>2 DEF PostProgram
    <2> QED
      BY <2>1, <2>2
  <1>9. CASE Commit
    BY <1>1, <1>9 DEF Commit, ram_vars
  <1>10. CASE UNCHANGED store_vars
    BY <1>1, <1>10 DEF store_vars, flash_vars, ram_vars
  <1>11. CASE settings_wipe \/ CallbackLater \/ PowerLoss \/ Install
    BY <1>2, <1>11 DEF settings_wipe, CallbackLater, PowerLoss, Install, settings_load
  <1> QED
    BY <1>4, <1>5, <1>6, <1>7, <1>8, <1>9, <1>10, <1>11, SavingOwed DEF Next, Main

\* Until flash has it, a change that was promised to be saved later is marked to
\* be or is with the save that took the mark.  settings_save_poll() takes the
\* mark away before the save begins: what comes meanwhile marks it again, but
\* a save of its own that fails does not (PromisedSavesWork).
THEOREM OwedStaysMarked == ASSUME PromisedSavesWork PROVE Spec => []OwedIsMarked
  <1>1. Init => Typed /\ OwedComes
    BY InitTyped, InitOwed
  <1>2. Typed /\ OwedComes /\ [Next]_store_vars => (Typed /\ OwedComes)'
    BY TypedStep, OwedStep
  <1>3. Typed /\ OwedComes => OwedIsMarked
    BY DEF Typed, OwedComes, OwedIsMarked, Tasks, Points
  <1> QED
    BY <1>1, <1>2, <1>3, PTL DEF Spec

------------------------------------------------------------------------------
(* The record that a start finds *)

\* No callback changes the settings while a save makes their checksum or, if it
\* saves by itself, in the middle of one.
Undisturbed == Preempt \subseteq {<<"later", "idle">>, <<"later", "copied">>, <<"post", "idle">>}

\* The image that a trial falls back to reads what the new one wrote, or the
\* update is tried once only.
TriedOnce == OldReadsNewer \/ MaxTrials <= 1

\* The sector that the best of a pair is not in.
Spare(s, img) ==
    IF slot_valid(s[0], img) /\ (~slot_valid(s[1], img) \/ s[0].seq > s[1].seq) THEN 1 ELSE 0

Distinct(s, img) ==
    \A i, j \in Slots : i # j /\ slot_valid(s[i], img) /\ slot_valid(s[j], img) => s[i].seq # s[j].seq

Below(s, img, n) == \A i \in Slots : slot_valid(s[i], img) => s[i].seq <= n

\* The valid records are numbered apart and none beyond the copy in RAM; in a
\* save that is begun the copy is beyond them.
Ordered ==
    /\ Distinct(sector[Home], image) /\ Below(sector[Home], image, g.seq)
    /\ task.pc \in {"half", "copied", "erased"} \/ cut # {} => Below(sector[Home], image, g.seq - 1)
    /\ trials = 0 => \A base \in Bases, i \in Slots : sector[base][i].ver = "old"

\* A save that is under way writes what it is to write where it may.
InHand ==
    /\ task.pc = "half" => task.sum = g.val
    /\ task.pc \in {"copied", "erased"} \/ cut # {} =>
          buf.seq = g.seq /\ buf.ver = image /\ buf.seal = buf.val /\ buf.val \in Known(image)
    /\ task.pc \in {"half", "copied"} /\ ~trial => task.target = Spare(sector[Home], image)
    /\ task.pc # "idle" => cut = {}
    /\ \A i, j \in cut : i = j

\* What was acknowledged is what is found, except while a trial gives its own
\* record up to save again.
Recovers ==
    /\ g.val \in Known(image) /\ saved \subseteq Known(image)
    /\ ~trial \/ (task.pc # "erased" /\ cut = {}) => \A v \in saved : LoadedFrom(sector, image).val = v

\* A wipe promises nothing until its save, which is its last step; a migration
\* erases legacy sectors only, and only once the record is at home.
Stages ==
    /\ task.kind = "wipe" => /\ saved = {} /\ (task.pc # "idle" => task.todo = <<>>)
                             /\ \A k \in 1..Len(task.todo) : task.todo[k] = <<"save">> => k = Len(task.todo)
    /\ task.kind = "migrate" =>
          /\ \A k \in 1..Len(task.todo) : task.todo[k] # <<"save">> => task.todo[k][2] = "legacy"
          /\ task.pc = "idle" => task.todo # <<>>
          /\ task.pc = "idle" /\ cut = {} =>
                \/ Head(task.todo)[1] = "save"
                \/ \E i \in Slots : slot_valid(sector[Home][i], image)

Kept == Ordered /\ InHand /\ Recovers /\ Stages

LEMMA SlotValid ==
    /\ \A img : ~slot_valid(Blank, img)
    /\ \A r : slot_valid(r, "old") => slot_valid(r, "new")
    /\ \A r : slot_valid(r, "new") /\ (OldReadsNewer \/ r.ver = "old") => slot_valid(r, "old")
  BY DEF slot_valid

LEMMA SpareErased ==
    ASSUME NEW s \in [Slots -> Numbered], NEW img, Distinct(s, img)
    PROVE  Best([s EXCEPT ![Spare(s, img)] = Blank], img) = Best(s, img)
  <1> DEFINE t == Spare(s, img)
             z == [s EXCEPT ![t] = Blank]
  <1>0. t \in Slots /\ z \in [Slots -> Numbered] /\ z[t] = Blank /\ \A i \in Slots : i # t => z[i] = s[i]
    BY Basics DEF Spare
  <1>n. s[0].seq \in Int /\ s[1].seq \in Int
    BY Basics DEF Records
  <1>1. CASE t = 1
    <2>1. slot_valid(s[0], img) /\ (slot_valid(s[1], img) => s[0].seq > s[1].seq)
      BY <1>1 DEF Spare
    <2> HIDE DEF t, z
    <2>2. Best(s, img) = s[0]
      BY <2>1, <1>n, BestIs, Basics
    <2>3. z[0] = s[0] /\ ~slot_valid(z[1], img)
      BY <1>0, <1>1, SlotValid, Basics
    <2>4. Best(z, img) = z[0]
      BY <2>1, <2>3, <1>0, BestIs, Basics
    <2> QED
      BY <2>2, <2>3, <2>4 DEF z, t
  <1>2. CASE t = 0
    <2>1. slot_valid(s[0], img) => slot_valid(s[1], img) /\ s[0].seq < s[1].seq
      BY <1>2, <1>n, Basics DEF Spare, Distinct
    <2> HIDE DEF t, z
    <2>2. z[1] = s[1] /\ ~slot_valid(z[0], img)
      BY <1>0, <1>2, SlotValid, Basics
    <2>3. CASE slot_valid(s[1], img)
      <3>1. Best(s, img) = s[1]
        BY <2>1, <2>3, <1>n, BestIs, Basics
      <3>2. Best(z, img) = z[1]
        BY <2>2, <2>3, <1>0, BestIs, Basics
      <3> QED
        BY <2>2, <3>1, <3>2 DEF z, t
    <2>4. CASE ~slot_valid(s[1], img)
      <3>1. Best(s, img) = Blank
        BY <2>1, <2>4, BestIs, Basics
      <3>2. Best(z, img) = Blank
        BY <2>2, <2>4, <1>0, BestIs, Basics
      <3> QED
        BY <3>1, <3>2 DEF z, t
    <2> QED
      BY <2>3, <2>4
  <1> QED
    BY <1>0, <1>1, <1>2, Basics

LEMMA BlankDrops ==
    ASSUME NEW s \in [Slots -> Numbered], NEW img, NEW t \in Slots
    PROVE  LET z == [s EXCEPT ![t] = Blank]
           IN  /\ Distinct(s, img) => Distinct(z, img)
               /\ \A n : Below(s, img, n) => Below(z, img, n)
  BY SlotValid DEF Distinct, Below

LEMMA RecordJoins ==
    ASSUME NEW s \in [Slots -> Numbered], NEW img, NEW t \in Slots, NEW r \in Numbered,
           r.seq \in Nat, slot_valid(r, img), Distinct(s, img), Below(s, img, r.seq - 1)
    PROVE  LET z == [s EXCEPT ![t] = r]
           IN  /\ Distinct(z, img) /\ Below(z, img, r.seq) /\ Best(z, img) = r
               /\ z[t] = r
  <1> DEFINE z == [s EXCEPT ![t] = r]
  <1>1. z \in [Slots -> Numbered] /\ z[t] = r /\ \A i \in Slots : i # t => z[i] = s[i]
    OBVIOUS
  <1>2. \A i \in Slots : s[i].seq \in Int
    BY Basics DEF Records
  <1>3. \A i \in Slots : i # t /\ slot_valid(z[i], img) => z[i].seq <= r.seq - 1 /\ z[i].seq \in Int
    BY <1>1, <1>2 DEF Below
  <1> HIDE DEF z
  <1>4. Distinct(z, img) /\ Below(z, img, r.seq)
    BY <1>1, <1>3 DEF Distinct, Below
  <1>5. PICK i \in Slots : /\ slot_valid(z[i], img) /\ Best(z, img) = z[i]
                           /\ \A j \in Slots : slot_valid(z[j], img) => z[j].seq <= z[i].seq
    BY <1>1, BestIs
  <1>6. i = t
    BY <1>1, <1>3, <1>5
  <1> QED
    BY <1>1, <1>4, <1>5, <1>6 DEF z

LEMMA SeenKnown ==
    ASSUME NEW img \in Images
    PROVE  /\ \A v \in SettingsValues : \A ver : Seen(v, ver, img) \in Known(img)
           /\ Defaults \in Known(img) /\ Known(img) \subseteq SettingsValues
           /\ \A v \in Known(img) : Seen(v, img, img) = v
           /\ \A v \in SettingsValues : Seen(v, "old", "new") = Seen(v, "old", "old")
  <1>1. \A v \in SettingsValues : \A ver : Seen(Seen(v, ver, img), img, img) = Seen(v, ver, img)
    BY DEF Seen, SettingsValues, Images
  <1>2. Seen(Defaults, img, img) = Defaults
    BY DEF Seen, Defaults
  <1> QED
    BY <1>1, <1>2, SeenTyped, Basics DEF Known, Seen

LEMMA LoadedKnown ==
    ASSUME NEW sec \in [Bases -> [Slots -> Numbered]], NEW img \in Images
    PROVE  LoadedFrom(sec, img).val \in Known(img)
  <1> DEFINE r == FoundIn(sec, img)
  <1>1. CASE r = Blank
    BY <1>1, SeenKnown DEF LoadedFrom
  <1>2. CASE r # Blank
    <2>1. r.val \in SettingsValues
      BY FoundIs, Basics DEF Records
    <2> QED
      BY <1>2, <2>1, SeenKnown DEF LoadedFrom
  <1> QED
    BY <1>1, <1>2

\* What a start finds is numbered as high as any record that it reads.
LEMMA LoadedHighest ==
    ASSUME NEW sec \in [Bases -> [Slots -> Numbered]], NEW img
    PROVE  Below(sec[Home], img, LoadedFrom(sec, img).seq)
  <1> DEFINE s == sec[Home]
  <1>1. s \in [Slots -> Numbered]
    BY Basics
  <1>2. CASE \E i \in Slots : slot_valid(s[i], img)
    <2> HIDE DEF s
    <2>1. PICK i \in Slots : /\ slot_valid(s[i], img) /\ Best(s, img) = s[i]
                             /\ \A j \in Slots : slot_valid(s[j], img) => s[j].seq <= s[i].seq
      BY <1>1, <1>2, BestIs
    <2>2. Best(s, img) # Blank
      BY <1>1, <1>2, BestIs
    <2>3. LoadedFrom(sec, img).seq = s[i].seq
      BY <2>1, <2>2 DEF LoadedFrom, FoundIn, s
    <2> QED
      BY <2>1, <2>3 DEF Below, s
  <1>3. CASE ~\E i \in Slots : slot_valid(s[i], img)
    BY <1>3 DEF Below
  <1> QED
    BY <1>2, <1>3

\* The record at home is what is found; without one, the legacy sectors'.
LEMMA LoadedSame ==
    ASSUME NEW sec, NEW z, NEW img, Best(z[Home], img) = Best(sec[Home], img),
           Best(sec[Home], img) # Blank \/ z["legacy"] = sec["legacy"] \/ ~Partitioned
    PROVE  LoadedFrom(z, img) = LoadedFrom(sec, img)
  BY DEF LoadedFrom, FoundIn

LEMMA LoadedHome ==
    ASSUME NEW sec, NEW img, Best(sec[Home], img) # Blank
    PROVE  LoadedFrom(sec, img).val = Seen(Best(sec[Home], img).val, Best(sec[Home], img).ver, img)
  BY DEF LoadedFrom, FoundIn

LEMMA HomeWritten ==
    ASSUME Typed, NEW i \in Slots, NEW r \in Numbered, Write(Home, i, r)
    PROVE  /\ sector'[Home] = [sector[Home] EXCEPT ![i] = r]
           /\ sector[Home] \in [Slots -> Numbered] /\ sector' \in [Bases -> [Slots -> Numbered]]
           /\ Partitioned => sector'["legacy"] = sector["legacy"]
           /\ r.ver = "old" => \A b \in Bases, j \in Slots : sector[b][j].ver = "old" => sector'[b][j].ver = "old"
  <1>1. sector' = [sector EXCEPT ![Home] = [sector[Home] EXCEPT ![i] = r]]
    BY DEF Write
  <1>2. sector \in [Bases -> [Slots -> Numbered]] /\ Home \in Bases
    BY Basics DEF Typed
  <1>3. Partitioned => Home # "legacy"
    BY DEF Home
  <1>4. "legacy" \in Bases
    BY DEF Bases
  <1> QED
    BY <1>1, <1>2, <1>3, <1>4

LEMMA ChooseKept == ASSUME Typed, Kept, SaveChoose PROVE Kept'
  <1>1. /\ task \in Tasks /\ task.pc = "idle" /\ cut = {} /\ cut' = {} /\ task.todo # <<>>
        /\ Head(task.todo)[1] = "save" /\ task.todo \in Seq(Steps) /\ g.seq \in Nat
        /\ g.val \in SettingsValues
    BY DEF SaveChoose, Next_is, Typed, Tasks
  <1> DEFINE wipe == task.kind = "wipe"
             val == IF wipe THEN Defaults ELSE g.val
             target == IF wipe THEN OtherSlot ELSE Target
  <1>2. /\ task'.pc = "half" /\ task'.kind = task.kind /\ task'.todo = Tail(task.todo)
        /\ task'.sum = val /\ task'.target = target /\ g'.seq = g.seq + 1 /\ g'.val = val
        /\ UNCHANGED <<sector, saved, image, trial, trials>>
    BY <1>1 DEF SaveChoose, Tasks, boot_vars
  <1> HIDE DEF wipe, val, target
  <1>3. Ordered'
    <2>1. Below(sector[Home], image, g.seq + 1) /\ Below(sector[Home], image, g.seq)
      <3>1. \A i \in Slots : sector[Home][i].seq \in Int
        BY Basics DEF Typed, Records
      <3> QED
        BY <1>1, <3>1 DEF Kept, Ordered, Below
    <2>2. Below(sector'[Home], image', g'.seq) /\ Below(sector'[Home], image', g'.seq - 1)
      <3>1. g'.seq - 1 = g.seq
        BY <1>1, <1>2
      <3> QED
        BY <1>2, <2>1, <3>1
    <2>3. Distinct(sector'[Home], image') /\ (trials' = 0 => \A base \in Bases, i \in Slots : sector'[base][i].ver = "old")
      BY <1>2 DEF Kept, Ordered
    <2> QED
      BY <2>2, <2>3 DEF Ordered
  <1>4. InHand'
    <2>1. ~trial => target = Spare(sector[Home], image)
      BY DEF target, Target, OtherSlot, Spare
    <2> QED
      BY <1>1, <1>2, <2>1 DEF InHand
  <1>5. Recovers'
    <2>1. val \in Known(image)
      BY SeenKnown DEF val, Kept, Recovers, Typed
    <2> QED
      BY <1>1, <1>2, <2>1 DEF Kept, Recovers
  <1>6. Stages'
    <2>1. \A k \in 1..Len(Tail(task.todo)) : /\ k + 1 \in 1..Len(task.todo)
                                            /\ Tail(task.todo)[k] = task.todo[k + 1]
      BY <1>1, HeadTail
    <2>2. task.kind = "wipe" => Tail(task.todo) = <<>>
      <3>1. Head(task.todo) = <<"save">> /\ Head(task.todo) = task.todo[1] /\ 1 \in 1..Len(task.todo)
        BY <1>1, HeadTail, StepShape, EmptySeq
      <3>2. task.kind = "wipe" => Len(task.todo) = 1
        BY <3>1 DEF Kept, Stages
      <3>3. Tail(task.todo) \in Seq(Steps) /\ Len(Tail(task.todo)) = Len(task.todo) - 1
        BY <1>1, HeadTail
      <3>4. ASSUME task.kind = "wipe" PROVE Tail(task.todo) = <<>>
        <4>1. Len(Tail(task.todo)) = 0
          BY <3>2, <3>3, <3>4
        <4> QED
          BY <3>3, <4>1, EmptySeq
      <3> QED
        BY <3>4
    <2>3. Len(<<>>) = 0
      BY EmptySeq
    <2> QED
      BY <1>2, <2>1, <2>2, <2>3 DEF Kept, Stages
  <1> QED
    BY <1>3, <1>4, <1>5, <1>6 DEF Kept

LEMMA CopyKept == ASSUME Typed, Kept, SaveCopy PROVE Kept'
  <1>1. /\ task.pc = "half" /\ cut = {} /\ cut' = {} /\ task'.pc = "copied"
        /\ task'.kind = task.kind /\ task'.todo = task.todo /\ task'.target = task.target
        /\ UNCHANGED <<sector, saved, g, image, trial, trials>>
    BY DEF SaveCopy, Typed, Tasks, boot_vars
  <1>2. buf'.seq = g.seq /\ buf'.val = g.val /\ buf'.ver = image /\ buf'.seal = buf'.val
    <2>1. task.sum = g.val /\ g.val \in SettingsValues
      BY <1>1 DEF Kept, InHand, Typed
    <2>2. [task.sum EXCEPT !.extra = g.val.extra] = g.val
      BY <2>1 DEF SettingsValues
    <2> QED
      BY <2>2 DEF SaveCopy
  <1>3. Ordered'
    BY <1>1 DEF Kept, Ordered
  <1>4. InHand'
    BY <1>1, <1>2 DEF Kept, InHand, Recovers
  <1>5. Recovers' /\ Stages'
    BY <1>1 DEF Kept, Recovers, Stages
  <1> QED
    BY <1>3, <1>4, <1>5 DEF Kept

LEMMA EraseKept == ASSUME Typed, Kept, SaveErase PROVE Kept'
  <1>1. /\ task \in Tasks /\ task.pc = "copied" /\ task.target \in Slots /\ cut = {} /\ cut' = {}
        /\ UNCHANGED <<g, buf, saved, image, trial, trials>>
    BY DEF SaveErase, Typed, Tasks, ram_vars, boot_vars
  <1>2. CASE Write(Home, task.target, Blank) /\ task' = [task EXCEPT !.pc = "erased"]
    <2>1. task'.pc = "erased" /\ task'.kind = task.kind /\ task'.todo = task.todo
      BY <1>1, <1>2 DEF Tasks
    <2> DEFINE s == sector[Home]
    <2>2. /\ sector'[Home] = [s EXCEPT ![task.target] = Blank] /\ s \in [Slots -> Numbered]
          /\ Partitioned => sector'["legacy"] = sector["legacy"]
          /\ \A b \in Bases, j \in Slots : sector[b][j].ver = "old" => sector'[b][j].ver = "old"
      BY <1>1, <1>2, HomeWritten, Basics DEF Blank
    <2>3. Ordered'
      <3>1. /\ Distinct(sector'[Home], image)
            /\ \A n : Below(sector[Home], image, n) => Below(sector'[Home], image, n)
        <4>1. Distinct(sector[Home], image) /\ sector[Home] \in [Slots -> Numbered]
          BY <2>2 DEF Kept, Ordered
        <4>2. sector'[Home] = [sector[Home] EXCEPT ![task.target] = Blank]
          BY <2>2
        <4> QED
          BY <4>1, <4>2, <1>1, BlankDrops
      <3> QED
        BY <1>1, <2>1, <2>2, <3>1 DEF Kept, Ordered
    <2>4. InHand'
      BY <1>1, <2>1 DEF Kept, InHand
    <2>5. Recovers'
      <3>1. ASSUME ~trial PROVE LoadedFrom(sector', image) = LoadedFrom(sector, image)
        <4>1. task.target = Spare(s, image)
          BY <1>1, <3>1 DEF Kept, InHand
        <4>2. Best(sector'[Home], image) = Best(s, image)
          BY <2>2, <4>1, SpareErased DEF Kept, Ordered
        <4> QED
          BY <2>2, <4>2, LoadedSame
      <3> QED
        BY <1>1, <2>1, <3>1 DEF Kept, Recovers
    <2>6. Stages'
      BY <1>1, <2>1 DEF Kept, Stages
    <2> QED
      BY <2>3, <2>4, <2>5, <2>6 DEF Kept
  <1>3. CASE Keep(FALSE) /\ task' = After(FALSE)
    <2>1. /\ sector' = sector /\ task'.pc = "idle" /\ (task'.kind = "wipe" => task.kind = "wipe")
          /\ (task'.kind = "wipe" => task'.todo = task.todo)
          /\ task'.kind # "migrate"
      <3>1. task.kind = "migrate" => task'.kind # "migrate"
        BY <1>1, <1>3, AfterIs
      <3> QED
        BY <1>1, <1>3, <3>1, AfterIs DEF Keep
    <2>2. Ordered' /\ InHand' /\ Recovers'
      BY <1>1, <2>1 DEF Kept, Ordered, InHand, Recovers
    <2>3. Stages'
      BY <1>1, <2>1 DEF Kept, Stages
    <2> QED
      BY <2>2, <2>3 DEF Kept
  <1> QED
    BY <1>2, <1>3 DEF SaveErase

\* A record that is numbered beyond those at home takes its place there.
LEMMA Lands ==
    ASSUME Typed, Kept, NEW i \in Slots, Write(Home, i, buf),
           task.pc = "erased" \/ cut # {}, UNCHANGED <<g, image, trial, trials>>,
           task'.pc = "idle", cut' = {}
    PROVE  /\ Ordered' /\ InHand' /\ LoadedFrom(sector', image).val = buf.val
           /\ buf.val \in Known(image) /\ slot_valid(sector'[Home][i], image)
  <1>1. /\ buf.seq = g.seq /\ buf.ver = image /\ buf.seal = buf.val /\ buf.val \in Known(image)
        /\ g.seq \in Nat /\ buf \in Numbered /\ image \in Images
    BY DEF Kept, InHand, Typed
  <1>2. slot_valid(buf, image) /\ buf # Blank
    BY <1>1 DEF slot_valid, Blank, Images
  <1> DEFINE s == sector[Home]
  <1>3. /\ sector'[Home] = [s EXCEPT ![i] = buf] /\ s \in [Slots -> Numbered]
        /\ buf.ver = "old" => \A b \in Bases, j \in Slots : sector[b][j].ver = "old" => sector'[b][j].ver = "old"
    BY <1>1, HomeWritten
  <1>4. /\ Distinct(sector'[Home], image) /\ Below(sector'[Home], image, g.seq)
        /\ Best(sector'[Home], image) = buf /\ sector'[Home][i] = buf
    <2>1. Distinct(s, image) /\ Below(s, image, buf.seq - 1)
      BY <1>1 DEF Kept, Ordered
    <2> QED
      BY <1>1, <1>2, <1>3, <2>1, RecordJoins
  <1>5. Ordered'
    <2>1. trials = 0 => image = "old"
      BY DEF Typed, Images
    <2> QED
      BY <1>1, <1>3, <1>4, <2>1 DEF Kept, Ordered
  <1>6. InHand'
    BY DEF InHand
  <1>7. LoadedFrom(sector', image).val = buf.val
    BY <1>1, <1>2, <1>4, LoadedHome, SeenKnown
  <1> QED
    BY <1>1, <1>2, <1>4, <1>5, <1>6, <1>7

LEMMA ProgramKept == ASSUME Typed, Kept, SaveProgram PROVE Kept'
  <1>1. /\ task \in Tasks /\ task.pc = "erased" /\ task.target \in Slots /\ Write(Home, task.target, buf)
        /\ task' = After(TRUE) /\ saved' = {buf.val} /\ cut = {} /\ cut' = {}
        /\ UNCHANGED <<g, image, trial, trials>>
    BY DEF SaveProgram, Typed, Tasks, ram_vars, boot_vars, Kept, InHand, Acknowledge
  <1>2. /\ task'.pc = "idle" /\ task'.todo = task.todo
        /\ task'.todo # <<>> => task'.kind = task.kind
        /\ task'.todo = <<>> => task'.kind \notin {"wipe", "migrate"}
    BY <1>1, AfterIs
  <1>3. /\ Ordered' /\ InHand' /\ LoadedFrom(sector', image).val = buf.val
        /\ buf.val \in Known(image) /\ slot_valid(sector'[Home][task.target], image)
    BY <1>1, <1>2, Lands
  <1>4. Recovers'
    BY <1>1, <1>3 DEF Kept, Recovers
  <1>5. Stages'
    BY <1>1, <1>2, <1>3 DEF Kept, Stages
  <1> QED
    BY <1>3, <1>4, <1>5 DEF Kept

LEMMA PostProgramKept == ASSUME Typed, Kept, PostProgram PROVE Kept'
  <1>1. PICK i \in cut : Write(Home, i, buf)
    BY DEF PostProgram
  <1>2. /\ i \in Slots /\ cut # {} /\ cut' = {} /\ task' = task /\ task.pc = "idle"
        /\ UNCHANGED <<g, image, trial, trials>>
        /\ saved' = IF task.kind # "wipe" THEN {buf.val} ELSE saved
    BY DEF PostProgram, Typed, boot_vars, Kept, InHand, Acknowledge
  <1>3. /\ Ordered' /\ InHand' /\ LoadedFrom(sector', image).val = buf.val
        /\ buf.val \in Known(image) /\ slot_valid(sector'[Home][i], image)
    BY <1>1, <1>2, Lands
  <1>4. task.kind = "wipe" => saved = {}
    BY DEF Kept, Stages
  <1>5. Recovers'
    BY <1>2, <1>3, <1>4 DEF Kept, Recovers
  <1>6. Stages'
    BY <1>2, <1>3 DEF Kept, Stages
  <1> QED
    BY <1>3, <1>5, <1>6 DEF Kept

LEMMA EraseStepKept == ASSUME Typed, Kept, Erase PROVE Kept'
  <1> DEFINE x == Head(task.todo)
  <1>1. /\ task \in Tasks /\ cut = {} /\ task.pc = "idle" /\ task.todo # <<>> /\ task.todo \in Seq(Steps)
        /\ x \in Steps /\ x[1] = "erase" /\ Tail(task.todo) \in Seq(Steps)
        /\ task' = Remaining(Tail(task.todo))
        /\ cut' = {} /\ UNCHANGED <<g, buf, saved, image, trial, trials>>
    BY HeadTail DEF Erase, Next_is, Typed, Tasks, ram_vars, boot_vars
  <1>2. x[2] \in Bases /\ x[3] \in Slots /\ x = <<"erase", x[2], x[3]>>
    BY <1>1, StepShape
  <1>3. /\ task'.pc = "idle" /\ task'.todo = Tail(task.todo)
        /\ Tail(task.todo) # <<>> => task'.kind = task.kind
        /\ Tail(task.todo) = <<>> => task'.kind \notin {"wipe", "migrate"}
    BY <1>1, RemainingIs
  <1>4. /\ x = task.todo[1] /\ 1 \in 1..Len(task.todo) /\ Len(Tail(task.todo)) = Len(task.todo) - 1
        /\ Len(task.todo) \in Nat
        /\ \A k \in 1..Len(Tail(task.todo)) : /\ k + 1 \in 1..Len(task.todo)
                                              /\ Tail(task.todo)[k] = task.todo[k + 1]
    BY <1>1, HeadTail, EmptySeq, LenProperties
  <1>5. \/ sector' = sector
        \/ task.kind = "wipe" /\ Write(x[2], x[3], Blank)
        \/ task.kind = "migrate" /\ Write(x[2], x[3], Blank)
    BY DEF Erase, Keep
  <1>6. task.kind = "migrate" => x[2] = "legacy" /\ Partitioned /\ \E i \in Slots : slot_valid(sector[Home][i], image)
    BY <1>1, <1>2, <1>4 DEF Kept, Stages, Typed
  <1> HIDE DEF x
  <1>7. Ordered' /\ (task.kind = "migrate" => sector'[Home] = sector[Home])
    <2>1. CASE sector' = sector
      BY <1>1, <1>3, <2>1 DEF Kept, Ordered
    <2>2. CASE Write(x[2], x[3], Blank)
      <3>1. /\ sector' = [sector EXCEPT ![x[2]] = [sector[x[2]] EXCEPT ![x[3]] = Blank]]
            /\ sector \in [Bases -> [Slots -> Numbered]]
        BY <2>2 DEF Write, Typed
      <3>2. sector'[Home] = IF x[2] = Home THEN [sector[Home] EXCEPT ![x[3]] = Blank] ELSE sector[Home]
        BY <3>1, <1>2, Basics
      <3>3. /\ Distinct(sector'[Home], image)
            /\ \A n : Below(sector[Home], image, n) => Below(sector'[Home], image, n)
        <4>1. Distinct(sector[Home], image) /\ sector[Home] \in [Slots -> Numbered]
          BY <3>1, Basics DEF Kept, Ordered
        <4> QED
          BY <3>2, <4>1, <1>2, BlankDrops
      <3>4. trials = 0 => \A base \in Bases, i \in Slots : sector'[base][i].ver = "old"
        <4>1. Blank.ver = "old"
          BY DEF Blank
        <4>2. \A base \in Bases, i \in Slots : sector'[base][i] \in {Blank, sector[base][i]}
          BY <3>1, <1>2
        <4> QED
          BY <4>1, <4>2 DEF Kept, Ordered
      <3>5. task.kind = "migrate" => sector'[Home] = sector[Home]
        BY <3>2, <1>6 DEF Home
      <3> QED
        BY <1>1, <1>3, <3>3, <3>4, <3>5 DEF Kept, Ordered
    <2> QED
      BY <1>5, <2>1, <2>2
  <1>8. InHand'
    BY <1>1, <1>3 DEF InHand
  <1>9. Recovers'
    <2>1. CASE saved = {}
      BY <1>1, <2>1 DEF Kept, Recovers
    <2>2. CASE sector' = sector
      BY <1>1, <1>3, <2>2 DEF Kept, Recovers
    <2>3. CASE task.kind = "migrate"
      <3>1. Best(sector'[Home], image) = Best(sector[Home], image) /\ Best(sector[Home], image) # Blank
        <4>1. sector[Home] \in [Slots -> Numbered]
          BY Basics DEF Typed
        <4> QED
          BY <1>6, <1>7, <2>3, <4>1, BestIs
      <3>2. LoadedFrom(sector', image) = LoadedFrom(sector, image)
        BY <3>1, LoadedSame
      <3> QED
        BY <1>1, <1>3, <3>2 DEF Kept, Recovers
    <2>4. task.kind = "wipe" => saved = {}
      BY DEF Kept, Stages
    <2> QED
      BY <1>5, <2>1, <2>2, <2>3, <2>4
  <1>10. Stages'
    <2>1. CASE Tail(task.todo) = <<>>
      BY <1>3, <2>1 DEF Stages
    <2>2. CASE Tail(task.todo) # <<>>
      <3>1. /\ task'.kind = task.kind /\ task'.todo = Tail(task.todo)
        BY <1>3, <2>2
      <3>2. CASE task.kind = "wipe"
        <4>1. \A k \in 1..Len(Tail(task.todo)) : Tail(task.todo)[k] = <<"save">> => k = Len(Tail(task.todo))
          <5>1. ASSUME NEW k \in 1..Len(Tail(task.todo)), Tail(task.todo)[k] = <<"save">>
                PROVE  k + 1 = Len(task.todo)
            BY <1>4, <3>2, <5>1 DEF Kept, Stages
          <5> QED
            BY <5>1, <1>4
        <4>2. saved' = {}
          BY <1>1, <3>2 DEF Kept, Stages
        <4> QED
          BY <1>3, <3>1, <3>2, <4>1, <4>2 DEF Stages
      <3>3. CASE task.kind = "migrate"
        <4>1. \E i \in Slots : slot_valid(sector'[Home][i], image')
          BY <1>1, <1>6, <1>7, <3>3
        <4>2. \A k \in 1..Len(task'.todo) : task'.todo[k] # <<"save">> => task'.todo[k][2] = "legacy"
          BY <1>4, <3>1, <3>3 DEF Kept, Stages
        <4> QED
          BY <1>3, <2>2, <3>1, <3>3, <4>1, <4>2 DEF Stages
      <3> QED
        BY <3>1, <3>2, <3>3 DEF Stages
    <2> QED
      BY <2>1, <2>2
  <1> QED
    BY <1>7, <1>8, <1>9, <1>10 DEF Kept

LEMMA MainKept == ASSUME Typed, Kept, Main PROVE Kept'
  <1>1. ASSUME NEW kind \in {"later", "save", "migrate", "wipe"}, NEW todo \in Seq(Steps), Begin(kind, todo),
               UNCHANGED <<sector, g, buf, cut, image, trial, trials>>, saved' \subseteq saved,
               kind = "wipe" =>
                 /\ saved' = {} /\ \A k \in 1..Len(todo) : todo[k] = <<"save">> => k = Len(todo),
               kind = "migrate" =>
                 /\ \A k \in 1..Len(todo) : todo[k] # <<"save">> => todo[k][2] = "legacy"
                 /\ todo # <<>> /\ Head(todo)[1] = "save"
        PROVE  Kept'
    <2>1. /\ task.pc = "idle" /\ cut = {} /\ task'.pc = "idle" /\ task'.kind = kind /\ task'.todo = todo
      BY <1>1, BeginIs DEF NoTask
    <2>2. Ordered' /\ InHand'
      BY <1>1, <2>1 DEF Kept, Ordered, InHand
    <2>3. Recovers'
      BY <1>1, <2>1 DEF Kept, Recovers
    <2>4. Stages'
      BY <1>1, <2>1 DEF Stages
    <2> QED
      BY <2>2, <2>3, <2>4 DEF Kept
  <1>2. ASSUME settings_save_poll \/ SaveNow PROVE Kept'
    <2>1. /\ Begin("later", <<<<"save">>>>) \/ Begin("save", <<<<"save">>>>)
          /\ UNCHANGED <<sector, g, buf, cut, image, trial, trials>>
          /\ saved' \subseteq saved
      BY <1>2 DEF settings_save_poll, SaveNow, Rest, boot_vars, ram_vars
    <2> QED
      BY <2>1, <1>1, TodoTyped
  <1>3. ASSUME settings_migrate PROVE Kept'
    <2> DEFINE todo == <<<<"save">>, <<"erase", "legacy", 0>>, <<"erase", "legacy", 1>>>>
    <2>1. /\ Begin("migrate", todo) /\ UNCHANGED <<sector, g, buf, cut, image, trial, trials>>
          /\ saved' \subseteq saved
      BY <1>3 DEF settings_migrate, Rest, boot_vars
    <2>2. /\ \A k \in 1..Len(todo) : todo[k] # <<"save">> => todo[k][2] = "legacy"
          /\ todo # <<>> /\ Head(todo)[1] = "save"
      <3>1. Len(todo) = 3 /\ todo[1] = <<"save">> /\ todo[2][2] = "legacy" /\ todo[3][2] = "legacy"
        OBVIOUS
      <3>2. \A k \in 1..3 : k = 1 \/ k = 2 \/ k = 3
        OBVIOUS
      <3> QED
        BY <3>1, <3>2
    <2>3. todo \in Seq(Steps)
      BY TodoTyped
    <2> HIDE DEF todo
    <2> QED
      BY <2>1, <2>2, <2>3, <1>1
  <1>4. ASSUME settings_wipe PROVE Kept'
    <2>1. /\ Begin("wipe", WipeSteps) /\ UNCHANGED <<sector, g, buf, cut, image, trial, trials>>
          /\ saved' = {}
      BY <1>4 DEF settings_wipe, boot_vars
    <2>2. \A k \in 1..Len(WipeSteps) : WipeSteps[k] = <<"save">> => k = Len(WipeSteps)
      <3>1. CASE Partitioned
        <4>1. /\ Len(WipeSteps) = 5 /\ WipeSteps[1][1] = "erase" /\ WipeSteps[2][1] = "erase"
              /\ WipeSteps[3][1] = "erase" /\ WipeSteps[4][1] = "erase"
          BY <3>1 DEF WipeSteps
        <4>2. \A k \in 1..5 : k = 1 \/ k = 2 \/ k = 3 \/ k = 4 \/ k = 5
          OBVIOUS
        <4>3. <<"save">>[1] = "save"
          OBVIOUS
        <4> QED
          BY <4>1, <4>2, <4>3
      <3>2. CASE ~Partitioned
        <4>1. Len(WipeSteps) = 3 /\ WipeSteps[1][1] = "erase" /\ WipeSteps[2][1] = "erase"
          BY <3>2 DEF WipeSteps
        <4>2. \A k \in 1..3 : k = 1 \/ k = 2 \/ k = 3
          OBVIOUS
        <4>3. <<"save">>[1] = "save"
          OBVIOUS
        <4> QED
          BY <4>1, <4>2, <4>3
      <3> QED
        BY <3>1, <3>2
    <2> QED
      BY <2>1, <2>2, <1>1, TodoTyped
  <1>5. ASSUME NEW later \in BOOLEAN, Change(later) PROVE Kept'
    <2>1. /\ task.pc = "idle" /\ cut = {} /\ g'.seq = g.seq /\ g'.val \in Known(image)
          /\ UNCHANGED <<sector, buf, task, cut, saved, image, trial, trials>>
      BY <1>5 DEF Change, Free, NoTask, flash_vars, boot_vars, Typed
    <2>2. Ordered' /\ InHand' /\ Recovers' /\ Stages'
      BY <2>1 DEF Kept, Ordered, InHand, Recovers, Stages
    <2> QED
      BY <2>2 DEF Kept
  <1> QED
    BY <1>2, <1>3, <1>4, <1>5 DEF Main

LEMMA LaterKept == ASSUME Typed, Kept, Undisturbed, CallbackLater PROVE Kept'
  <1>1. /\ cut = {} /\ task.pc # "half" /\ g'.seq = g.seq /\ g'.val \in Known(image)
        /\ UNCHANGED <<sector, buf, task, cut, saved, image, trial, trials>>
    BY DEF CallbackLater, Interrupt, Undisturbed, flash_vars, boot_vars, Typed
  <1>2. Ordered' /\ InHand' /\ Recovers' /\ Stages'
    BY <1>1 DEF Kept, Ordered, InHand, Recovers, Stages
  <1> QED
    BY <1>2 DEF Kept

LEMMA PostKept == ASSUME Typed, Kept, Undisturbed, CallbackPost PROVE Kept'
  <1>1. /\ cut = {} /\ task.pc = "idle" /\ Target \in Slots /\ g.seq \in Nat
        /\ UNCHANGED <<task, saved, image, trial, trials>>
    BY TargetTyped DEF CallbackPost, Interrupt, Undisturbed, boot_vars, Typed
  <1>2. PICK v \in Known(image), ok \in BOOLEAN :
          LET r == [seq |-> g.seq + 1, val |-> v, ver |-> image, seal |-> v]
          IN  /\ g' = [seq |-> r.seq, val |-> v]
              /\ IF ok THEN Write(Home, Target, Blank) /\ cut' = {Target} /\ buf' = r
                       ELSE /\ UNCHANGED <<sector, stale, cut>>
                            /\ buf' = IF task.pc = "copied" THEN r ELSE Blank
    BY DEF CallbackPost, Outcomes
  <1>3. g'.seq = g.seq + 1 /\ g'.val = v /\ v \in Known(image)
    BY <1>2
  <1>4. \A i \in Slots : sector[Home][i].seq \in Int
    BY Basics DEF Typed, Records
  <1>5. Below(sector[Home], image, g'.seq) /\ Below(sector[Home], image, g'.seq - 1)
    BY <1>1, <1>3, <1>4 DEF Kept, Ordered, Below
  <1>6. CASE ok
    <2>1. /\ Write(Home, Target, Blank) /\ cut' = {Target}
          /\ buf'.seq = g'.seq /\ buf'.val = v /\ buf'.ver = image /\ buf'.seal = v
      BY <1>2, <1>6
    <2>2. /\ sector'[Home] = [sector[Home] EXCEPT ![Target] = Blank] /\ sector[Home] \in [Slots -> Numbered]
          /\ Partitioned => sector'["legacy"] = sector["legacy"]
          /\ \A b \in Bases, j \in Slots : sector[b][j].ver = "old" => sector'[b][j].ver = "old"
      BY <1>1, <2>1, HomeWritten, Basics DEF Blank
    <2>3. Ordered'
      <3>1. /\ Distinct(sector'[Home], image)
            /\ \A n : Below(sector[Home], image, n) => Below(sector'[Home], image, n)
        <4>1. Distinct(sector[Home], image)
          BY DEF Kept, Ordered
        <4> QED
          BY <4>1, <2>2, <1>1, BlankDrops
      <3>2. Below(sector'[Home], image, g'.seq) /\ Below(sector'[Home], image, g'.seq - 1)
        BY <3>1, <1>5
      <3> QED
        BY <1>1, <2>2, <3>1, <3>2 DEF Kept, Ordered
    <2>4. InHand'
      BY <1>1, <1>3, <2>1 DEF InHand, Known
    <2>5. Recovers'
      <3>1. ASSUME ~trial PROVE LoadedFrom(sector', image) = LoadedFrom(sector, image)
        <4>1. Target = Spare(sector[Home], image)
          BY <3>1 DEF Target, OtherSlot, Spare
        <4>2. Best(sector'[Home], image) = Best(sector[Home], image)
          BY <2>2, <4>1, SpareErased DEF Kept, Ordered
        <4> QED
          BY <2>2, <4>2, LoadedSame
      <3>2. g'.val \in Known(image)' /\ saved' \subseteq Known(image)'
        BY <1>1, <1>3 DEF Kept, Recovers, Known
      <3>3. cut' # {}
        BY <2>1
      <3> QED
        BY <1>1, <3>1, <3>2, <3>3 DEF Kept, Recovers
    <2>6. Stages'
      BY <1>1, <2>1 DEF Kept, Stages
    <2> QED
      BY <2>3, <2>4, <2>5, <2>6 DEF Kept
  <1>7. CASE ~ok
    <2>1. UNCHANGED <<sector, cut>>
      BY <1>2, <1>7
    <2>2. Ordered'
      BY <1>1, <1>5, <2>1 DEF Kept, Ordered
    <2>3. InHand' /\ Recovers' /\ Stages'
      BY <1>1, <1>3, <2>1 DEF Kept, InHand, Recovers, Stages
    <2> QED
      BY <2>2, <2>3 DEF Kept
  <1> QED
    BY <1>6, <1>7

\* A start in the image img, which reads some of what was read before.
LEMMA StartKept ==
    ASSUME Typed, Kept, NEW img \in Images, image' = img, trials' \in {trials, trials + 1},
           settings_load(img), sector' = sector, cut' = {}, task' = NoTask,
           \A i \in Slots : slot_valid(sector[Home][i], img) => slot_valid(sector[Home][i], image)
    PROVE  /\ Ordered' /\ InHand' /\ Stages' /\ g'.val \in Known(img)
  <1>1. g' = LoadedFrom(sector, img)
    BY LoadTyped
  <1>2. Below(sector[Home], img, g'.seq) /\ g'.val \in Known(img)
    BY <1>1, LoadedHighest, LoadedKnown DEF Typed
  <1>3. Distinct(sector[Home], img)
    BY DEF Kept, Ordered, Distinct
  <1>4. NoTask.pc = "idle" /\ NoTask.kind = "none"
    BY DEF NoTask
  <1>5. trials' = 0 => trials = 0
    BY DEF Typed
  <1> QED
    BY <1>2, <1>3, <1>4, <1>5 DEF Kept, Ordered, InHand, Stages

LEMMA PowerKept == ASSUME Typed, Kept, PowerLoss PROVE Kept'
  <1>1. /\ settings_load(image') /\ sector' = sector /\ cut' = {} /\ task' = NoTask /\ trials' = trials
        /\ image' = (IF trial THEN "old" ELSE image) /\ trial' = FALSE
        /\ saved' = IF trial /\ saved # {} THEN {LoadedFrom(sector, "old").val} ELSE saved
    BY LoadedFound DEF PowerLoss
  <1>2. image' \in Images /\ "old" \in Images /\ image \in Images
    BY <1>1 DEF Typed, Images
  <1>3. \A i \in Slots : slot_valid(sector[Home][i], image') => slot_valid(sector[Home][i], image)
    BY <1>1, SlotValid DEF Typed
  <1>4. Ordered' /\ InHand' /\ Stages' /\ g'.val \in Known(image')
    BY <1>1, <1>2, <1>3, StartKept
  <1>5. Recovers'
    <2>1. CASE trial
      <3>1. LoadedFrom(sector, "old").val \in Known("old")
        BY <1>2, LoadedKnown DEF Typed
      <3> QED
        BY <1>1, <1>4, <2>1, <3>1 DEF Recovers
    <2>2. CASE ~trial
      BY <1>1, <1>4, <2>2 DEF Kept, Recovers
    <2> QED
      BY <2>1, <2>2 DEF Typed
  <1> QED
    BY <1>4, <1>5 DEF Kept

LEMMA InstallKept == ASSUME Typed, Kept, WipeComes, TriedOnce, Install PROVE Kept'
  <1>1. /\ settings_load("new") /\ sector' = sector /\ cut = {} /\ cut' = {} /\ task = NoTask /\ task' = NoTask
        /\ trials' = trials + 1 /\ image = "old" /\ image' = "new" /\ ~trial /\ trials < MaxTrials
        /\ saved' = IF FoundIn(sector, "new").ver = "new" /\ saved # {}
                    THEN {LoadedFrom(sector, "new").val} ELSE saved
        /\ trials \in Nat
    BY LoadedFound, FoundBest DEF Install, Free, Typed
  <1>2. OldReadsNewer \/ trials = 0
    BY <1>1, SettingsAssumption DEF TriedOnce
  <1>3. \A base \in Bases, i \in Slots :
          slot_valid(sector[base][i], "new") <=> slot_valid(sector[base][i], "old")
    BY <1>2, SlotValid DEF Kept, Ordered
  <1>4. Ordered' /\ InHand' /\ Stages' /\ g'.val \in Known("new")
    <2>1. \A i \in Slots : slot_valid(sector[Home][i], "new") => slot_valid(sector[Home][i], image)
      BY <1>1, <1>3, Basics
    <2> QED
      BY <1>1, <2>1, StartKept DEF Images
  <1>5. Recovers'
    <2>1. CASE saved' = {LoadedFrom(sector, "new").val}
      <3>1. LoadedFrom(sector, "new").val \in Known("new")
        BY LoadedKnown DEF Typed, Images
      <3> QED
        BY <1>1, <1>4, <2>1, <3>1 DEF Recovers
    <2>2. CASE saved' = {}
      BY <1>1, <1>4, <2>2 DEF Recovers
    <2>3. CASE saved' = saved /\ FoundIn(sector, "new").ver # "new"
      <3> DEFINE r == FoundIn(sector, "new")
      <3>1. \A base \in Bases : Best(sector[base], "new") = Best(sector[base], "old")
        <4>1. \A base \in Bases : {i \in Slots : slot_valid(sector[base][i], "new")}
                                    = {i \in Slots : slot_valid(sector[base][i], "old")}
          BY <1>3
        <4> QED
          BY <4>1 DEF Best
      <3>2. FoundIn(sector, "old") = r
        BY <3>1, Basics DEF FoundIn, Bases
      <3>3. r \in Records /\ r.ver = "old"
        BY <2>3, FoundIs, Basics DEF Typed, Records
      <3> HIDE DEF r
      <3>4. LoadedFrom(sector, "new").val = LoadedFrom(sector, "old").val
        <4>1. r.val \in SettingsValues
          BY <3>3 DEF Records
        <4>2. Seen(r.val, "old", "new") = Seen(r.val, "old", "old")
          BY <4>1, SeenKnown DEF Images
        <4> QED
          BY <3>2, <3>3, <4>2 DEF LoadedFrom, r
      <3>5. \A v \in saved : v \in Known("new") /\ LoadedFrom(sector, "old").val = v
        <4>1. saved \subseteq SettingsValues /\ Known("new") = SettingsValues
          BY DEF Typed, Known, Seen
        <4> QED
          BY <4>1, <1>1 DEF Kept, Recovers
      <3> QED
        BY <1>1, <1>4, <2>3, <3>4, <3>5 DEF Recovers
    <2> QED
      BY <1>1, <2>1, <2>2, <2>3
  <1> QED
    BY <1>4, <1>5 DEF Kept

LEMMA CommitKept == ASSUME Typed, Kept, Commit PROVE Kept'
  <1>1. /\ cut = {} /\ task.pc = "idle"
        /\ UNCHANGED <<sector, buf, task, cut, saved, g, image, trials>>
    BY DEF Commit, Free, NoTask, ram_vars
  <1>2. Ordered' /\ InHand' /\ Recovers' /\ Stages'
    BY <1>1 DEF Kept, Ordered, InHand, Recovers, Stages
  <1> QED
    BY <1>2 DEF Kept

LEMMA KeptStep ==
    ASSUME Typed, WipeComes, Kept, Undisturbed, TriedOnce, [Next]_store_vars
    PROVE  Kept'
  <1>1. CASE Saving
    BY <1>1, ChooseKept, CopyKept, EraseKept, ProgramKept, EraseStepKept DEF Saving
  <1>2. CASE UNCHANGED store_vars
    <2>1. UNCHANGED <<sector, buf, task, cut, saved, g, image, trial, trials>>
      BY <1>2 DEF store_vars, flash_vars, ram_vars, boot_vars
    <2>2. Ordered' /\ InHand' /\ Recovers' /\ Stages'
      BY <2>1 DEF Kept, Ordered, InHand, Recovers, Stages
    <2> QED
      BY <2>2 DEF Kept
  <1> QED
    BY <1>1, <1>2, MainKept, LaterKept, PostKept, PostProgramKept, PowerKept, InstallKept,
       CommitKept DEF Next

LEMMA InitKept == ASSUME Init PROVE Kept
  <1>1. PICK b \in (IF Partitioned THEN Bases ELSE {"legacy"}), v \in SettingsValues :
         LET retained == Seen(v, "old", "old")
             r == [seq |-> 0, val |-> retained, ver |-> "old", seal |-> retained]
         IN  /\ sector = [base \in Bases |->
                            [i \in Slots |-> IF base = b /\ i = 0 THEN r ELSE Blank]]
             /\ g = [seq |-> 0, val |-> retained] /\ saved = {retained} 
    BY DEF Init
  <1> DEFINE retained == Seen(v, "old", "old")
             r == [seq |-> 0, val |-> retained, ver |-> "old", seal |-> retained]
  <1>2. retained \in Known("old") /\ r.seq = 0 /\ r.ver = "old" /\ r.val = retained /\ slot_valid(r, "old")
    BY SeenKnown DEF Images, slot_valid, Blank
  <1>3. sector = [base \in Bases |-> [i \in Slots |-> IF base = b /\ i = 0 THEN r ELSE Blank]]
    BY <1>1
  <1>4. g.seq = 0 /\ g.val = retained /\ saved = {retained}
    BY <1>1
  <1> HIDE DEF retained, r
  <1>5. /\ Typed /\ image = "old" /\ task = NoTask /\ cut = {} /\ ~trial
        /\ task.pc = "idle" /\ task.kind = "none"
    BY InitTyped DEF Init, NoTask
  <1>6. \A base \in Bases, i \in Slots : sector[base][i] \in {r, Blank} /\ (i # 0 => sector[base][i] = Blank)
    BY <1>3
  <1>7. Ordered
    <2>1. Distinct(sector[Home], image)
      BY <1>6, SlotValid, Basics DEF Distinct
    <2>2. Below(sector[Home], image, g.seq)
      BY <1>2, <1>4, <1>6, SlotValid, Basics DEF Below
    <2>3. \A base \in Bases, i \in Slots : sector[base][i].ver = "old"
      BY <1>2, <1>6 DEF Blank
    <2> QED
      BY <1>5, <2>1, <2>2, <2>3 DEF Ordered
  <1>8. InHand /\ Stages
    BY <1>5 DEF InHand, Stages
  <1>9. LoadedFrom(sector, "old").val = retained
    <2>1. b \in Bases /\ sector[b][0] = r
      BY <1>3, Basics DEF Bases
    <2>2. Best(sector[b], "old") = r /\ r # Blank
      <3>1. sector[b] \in [Slots -> Numbered]
        BY <1>5, <2>1 DEF Typed
      <3>2. \E i \in Slots : slot_valid(sector[b][i], "old")
        BY <1>2, <2>1, Basics
      <3>3. \A i \in Slots : slot_valid(sector[b][i], "old") => sector[b][i] = r
        BY <1>6, <2>1, SlotValid
      <3> QED
        BY <3>1, <3>2, <3>3, <1>2, SlotValid, BestIs
    <2>3. FoundIn(sector, "old") = r
      <3>1. CASE b = Home
        BY <2>2, <3>1 DEF FoundIn
      <3>2. CASE b # Home
        <4>1. b = "legacy" /\ Partitioned
          BY <3>2 DEF Home, Bases
        <4>2. \A i \in Slots : sector[Home][i] = Blank
          BY <1>3, <3>2, Basics
        <4>3. Best(sector[Home], "old") = Blank
          <5>1. sector[Home] \in [Slots -> Numbered]
            BY <1>5, Basics DEF Typed
          <5> QED
            BY <4>2, <5>1, SlotValid, BestIs
        <4> QED
          BY <4>1, <4>3, <2>2 DEF FoundIn
      <3> QED
        BY <3>1, <3>2
    <2>4. LoadedFrom(sector, "old").val = Seen(retained, "old", "old")
      BY <2>2, <2>3, <1>2 DEF LoadedFrom
    <2> QED
      BY <2>4, <1>2, SeenKnown DEF Images
  <1>10. Recovers
    BY <1>2, <1>4, <1>5, <1>9 DEF Recovers
  <1> QED
    BY <1>7, <1>8, <1>10 DEF Kept

\* A restart at any moment comes up with the value that was last acknowledged
\* as saved, whatever was half written, half migrated or erased when the power
\* went (settings_save(), settings_migrate(), settings_load()).
THEOREM SavedStaysFound ==
    ASSUME Undisturbed, TriedOnce
    PROVE  Spec => []SavedIsFound
  <1>1. Init => Typed /\ WipeComes /\ Kept
    BY InitTyped, InitWipe, InitKept
  <1>2. Typed /\ WipeComes /\ Kept /\ [Next]_store_vars => (Typed /\ WipeComes /\ Kept)'
    BY TypedStep, WipeStep, KeptStep
  <1>3. Typed /\ WipeComes /\ Kept => SavedIsFound
    <2> SUFFICES ASSUME Typed, Kept, ~trial, NEW v \in saved
                 PROVE  Loaded(image).val = Seen(v, image, image)
      BY DEF SavedIsFound
    <2>1. LoadedFrom(sector, image).val = v /\ v \in Known(image)
      BY DEF Kept, Recovers
    <2> QED
      BY <2>1, LoadedFound, SeenKnown DEF Typed
  <1> QED
    BY <1>1, <1>2, <1>3, PTL DEF Spec

------------------------------------------------------------------------------
(* One record *)

\* The image that a trial falls back to reads nothing of the new one's, which
\* is tried once; a migration does not fail.
TrialApart == ~OldReadsNewer /\ MaxTrials <= 1 /\ "migrate" \notin SaveFailing

\* A trial saves where the image before it has not its best record, and leaves
\* the legacy sectors alone: that image has moved its record home before.
Apart ==
    /\ trial => ~migrate /\ task.kind # "migrate"
    /\ trial /\ saved # {} /\ trial_slot = -1 => \A i \in Slots : sector[Home][i].ver = "old"
    /\ trial /\ saved # {} /\ trial_slot # -1 =>
          \/ trial_slot = Spare(sector[Home], "old")
          \/ ~slot_valid(sector[Home][trial_slot], "old")
    /\ trial /\ task.pc # "idle" => task.target = trial_slot
    /\ trial => cut \subseteq {trial_slot}
    /\ trial /\ (task.pc = "erased" \/ cut # {}) => ~slot_valid(sector[Home][trial_slot], "old")
    /\ image = "old" /\ Partitioned =>
          \/ migrate \/ task.kind \in {"migrate", "wipe", "restart"}
          \/ \E i \in Slots : slot_valid(sector[Home][i], "old")
          \/ \A i \in Slots : sector["legacy"][i] = Blank

\* A sector that the image does not read makes no difference to it.
LEMMA UnreadChanged ==
    ASSUME NEW s \in [Slots -> Numbered], NEW img, NEW t \in Slots, NEW r \in Numbered,
           ~slot_valid(s[t], img), ~slot_valid(r, img)
    PROVE  Best([s EXCEPT ![t] = r], img) = Best(s, img)
  <1> DEFINE z == [s EXCEPT ![t] = r]
  <1>1. z \in [Slots -> Numbered] /\ z[t] = r /\ \A i \in Slots : i # t => z[i] = s[i]
    OBVIOUS
  <1> HIDE DEF z
  <1>2. PICK u \in Slots : u # t /\ \A i \in Slots : i = t \/ i = u
    BY Basics
  <1>3. CASE slot_valid(s[u], img)
    <2>1. Best(s, img) = s[u]
      BY <1>2, <1>3, BestIs
    <2>2. Best(z, img) = z[u]
      BY <1>1, <1>2, <1>3, BestIs
    <2> QED
      BY <1>1, <1>2, <2>1, <2>2 DEF z
  <1>4. CASE ~slot_valid(s[u], img)
    <2>1. Best(s, img) = Blank
      BY <1>2, <1>4, BestIs
    <2>2. Best(z, img) = Blank
      BY <1>1, <1>2, <1>4, BestIs
    <2> QED
      BY <2>1, <2>2 DEF z
  <1> QED
    BY <1>3, <1>4

LEMMA SpareAlike ==
    ASSUME NEW s \in [Slots -> Numbered], \A i \in Slots : s[i].ver = "old"
    PROVE  Spare(s, "new") = Spare(s, "old")
  BY SlotValid, Basics DEF Spare

\* What a trial erases is not what the image before it would find.
LEMMA TrialErases ==
    ASSUME Typed, Kept, Apart, trial, saved # {}, NEW t \in Slots,
           t = IF trial_slot = -1 THEN Spare(sector[Home], "new") ELSE trial_slot
    PROVE  /\ Best([sector[Home] EXCEPT ![t] = Blank], "old") = Best(sector[Home], "old")
           /\ t = Spare(sector[Home], "old") \/ ~slot_valid(sector[Home][t], "old")
  <1>1. sector[Home] \in [Slots -> Numbered] /\ image = "new" /\ Blank \in Numbered
    BY Basics DEF Typed
  <1>2. Distinct(sector[Home], "old")
    BY <1>1, SlotValid DEF Kept, Ordered, Distinct
  <1>3. t = Spare(sector[Home], "old") \/ ~slot_valid(sector[Home][t], "old")
    BY <1>1, SpareAlike DEF Apart
  <1>4. CASE t = Spare(sector[Home], "old")
    BY <1>1, <1>2, <1>4, SpareErased
  <1>5. CASE ~slot_valid(sector[Home][t], "old")
    BY <1>1, <1>5, UnreadChanged, SlotValid
  <1> QED
    BY <1>3, <1>4, <1>5

LEMMA TargetTrial ==
    ASSUME Typed, trial
    PROVE  Target = IF trial_slot = -1 THEN Spare(sector[Home], "new") ELSE trial_slot
  BY DEF Target, OtherSlot, Spare, Typed

LEMMA ChooseApart == ASSUME Typed, Kept, Apart, SaveChoose PROVE Apart'
  <1>1. /\ task.todo # <<>> /\ cut = {} /\ cut' = {} /\ task'.kind = task.kind
        /\ (migrate' => migrate) /\ task'.pc = "half"
        /\ task.kind # "wipe" => migrate' = migrate
        /\ UNCHANGED <<sector, saved, image, trial>>
    BY DEF SaveChoose, Next_is, Typed, Tasks, boot_vars
  <1>2. ASSUME trial PROVE task'.target = trial_slot' /\ trial_slot' \in Slots
    BY <1>2, TargetTyped, Basics DEF SaveChoose, Typed, Tasks
  <1>3. ASSUME trial, saved # {} PROVE trial_slot' = Target
    BY <1>3 DEF SaveChoose, Kept, Stages
  <1>4. trial /\ saved # {} =>
          trial_slot' = Spare(sector[Home], "old") \/ ~slot_valid(sector[Home][trial_slot'], "old")
    BY <1>3, TargetTyped, TargetTrial, TrialErases
  <1>5. trial => trial_slot' # -1
    BY <1>2, Basics
  <1>6. task.kind = "wipe" => task'.kind = "wipe"
    BY <1>1
  <1> QED
    BY <1>1, <1>2, <1>4, <1>5, <1>6 DEF Apart

LEMMA CopyApart == ASSUME Typed, Apart, SaveCopy PROVE Apart'
  <1>1. /\ task.pc = "half" /\ task'.pc = "copied" /\ cut = {}
        /\ task'.kind = task.kind /\ task'.target = task.target
        /\ UNCHANGED <<sector, saved, cut, image, trial, trial_slot, migrate>>
    BY DEF SaveCopy, Typed, Tasks, boot_vars
  <1> QED
    BY <1>1 DEF Apart

\* The old image has a record at home: a sector there that is written does not
\* change that.
LEMMA HomeKept ==
    ASSUME Typed, Kept, NEW i \in Slots, NEW r \in Numbered, Write(Home, i, r), ~trial, image = "old",
           (i = Spare(sector[Home], image) /\ r = Blank) \/ slot_valid(r, "old"),
           \E j \in Slots : slot_valid(sector[Home][j], "old")
    PROVE  \E j \in Slots : slot_valid(sector'[Home][j], "old")
  <1>1. /\ sector'[Home] = [sector[Home] EXCEPT ![i] = r] /\ sector[Home] \in [Slots -> Numbered]
        /\ sector'[Home] \in [Slots -> Numbered]
    BY HomeWritten, Basics
  <1>2. CASE slot_valid(r, "old")
    BY <1>1, <1>2
  <1>3. CASE i = Spare(sector[Home], image) /\ r = Blank
    <2>1. Best(sector'[Home], "old") = Best(sector[Home], "old")
      BY <1>1, <1>3, SpareErased DEF Kept, Ordered
    <2> QED
      BY <1>1, <2>1, BestIs
  <1> QED
    BY <1>2, <1>3

LEMMA EraseApart == ASSUME Typed, Kept, Apart, TrialApart, SaveErase PROVE Apart'
  <1>1. /\ task \in Tasks /\ task.pc = "copied" /\ task.target \in Slots /\ cut = {} /\ cut' = {}
        /\ UNCHANGED <<saved, image, trial, trial_slot, migrate>>
    BY DEF SaveErase, Typed, Tasks, ram_vars, boot_vars
  <1>2. CASE Write(Home, task.target, Blank) /\ task' = [task EXCEPT !.pc = "erased"]
    <2>1. /\ sector'[Home] = [sector[Home] EXCEPT ![task.target] = Blank] /\ sector[Home] \in [Slots -> Numbered]
          /\ Partitioned => sector'["legacy"] = sector["legacy"]
          /\ task'.kind = task.kind /\ task'.target = task.target
      BY <1>1, <1>2, HomeWritten, Basics DEF Tasks
    <2>2. trial => task.target = trial_slot /\ ~slot_valid(sector'[Home][trial_slot], "old") /\ trial_slot # -1
      BY <1>1, <2>1, SlotValid, Basics DEF Apart
    <2>3. image = "old" => ~trial
      BY DEF Typed
    <2>4. image = "old" /\ (\E j \in Slots : slot_valid(sector[Home][j], "old")) =>
             \E j \in Slots : slot_valid(sector'[Home][j], "old")
      BY <1>1, <1>2, <2>3, HomeKept, Basics DEF Kept, InHand
    <2> QED
      BY <1>1, <2>1, <2>2, <2>4 DEF Apart
  <1>3. CASE Keep(FALSE) /\ task' = After(FALSE) /\ task.kind # "migrate"
    <2>1. sector' = sector /\ task'.pc = "idle" /\ task'.kind # "migrate"
      <3>1. task'.kind # "migrate"
        BY <1>1, <1>3, AfterIs
      <3> QED
        BY <1>1, <1>3, <3>1, AfterIs DEF Keep
    <2>2. task.kind \in {"wipe", "restart"} => task'.kind \in {"wipe", "restart"}
      BY <1>1, <1>3, AfterIs DEF Typed
    <2> QED
      BY <1>1, <1>3, <2>1, <2>2 DEF Apart
  <1> QED
    BY <1>2, <1>3 DEF SaveErase, Outcomes, TrialApart

\* A record of the image that runs lands at home.
LEMMA LandsApart ==
    ASSUME Typed, Kept, Apart, TrialApart, NEW i \in Slots, Write(Home, i, buf),
           task.pc = "erased" \/ cut # {}, trial => i = trial_slot,
           UNCHANGED <<image, trial, trial_slot, migrate>>, task'.pc = "idle", cut' = {},
           trial => task'.kind # "migrate",
           task.kind \in {"wipe", "restart"} => task'.kind \in {"wipe", "restart"}
    PROVE  Apart'
  <1>1. buf.ver = image /\ buf.seal = buf.val /\ buf \in Numbered /\ buf.seq = g.seq /\ g.seq \in Nat
    BY DEF Kept, InHand, Typed
  <1>2. /\ sector'[Home] = [sector[Home] EXCEPT ![i] = buf] /\ sector[Home] \in [Slots -> Numbered]
    BY <1>1, HomeWritten
  <1>3. trial => trial_slot # -1 /\ ~slot_valid(sector'[Home][trial_slot], "old")
    <2>1. trial => ~slot_valid(buf, "old")
      BY <1>1 DEF Typed, TrialApart, slot_valid
    <2> QED
      BY <1>2, <2>1, Basics
  <1>4. image = "old" => slot_valid(sector'[Home][i], "old")
    BY <1>1, <1>2 DEF slot_valid, Blank
  <1> QED
    BY <1>3, <1>4 DEF Apart

LEMMA ProgramApart == ASSUME Typed, Kept, Apart, TrialApart, SaveProgram PROVE Apart'
  <1>1. /\ task \in Tasks /\ task.pc = "erased" /\ task.target \in Slots /\ Write(Home, task.target, buf)
        /\ task' = After(TRUE) /\ cut' = {} /\ UNCHANGED <<image, trial, trial_slot, migrate>>
    BY DEF SaveProgram, Typed, Tasks, ram_vars, boot_vars, Kept, InHand
  <1>2. /\ task'.pc = "idle" /\ (task'.kind = "migrate" => task.kind = "migrate")
        /\ task.kind \in {"wipe", "restart"} => task'.kind \in {"wipe", "restart"}
    BY <1>1, AfterIs DEF Typed
  <1>3. trial => task.target = trial_slot /\ task.kind # "migrate"
    BY <1>1 DEF Apart
  <1> QED
    BY <1>1, <1>2, <1>3, LandsApart

LEMMA PostProgramApart == ASSUME Typed, Kept, Apart, TrialApart, PostProgram PROVE Apart'
  <1>1. PICK i \in cut : Write(Home, i, buf)
    BY DEF PostProgram
  <1>2. /\ i \in Slots /\ cut # {} /\ cut' = {} /\ task' = task /\ task.pc = "idle"
        /\ UNCHANGED <<image, trial, trial_slot, migrate>>
    BY DEF PostProgram, Typed, boot_vars, Kept, InHand
  <1>3. trial => i = trial_slot /\ task.kind # "migrate"
    BY DEF Apart
  <1> QED
    BY <1>1, <1>2, <1>3, LandsApart

LEMMA EraseStepApart == ASSUME Typed, Kept, Apart, Erase PROVE Apart'
  <1> DEFINE x == Head(task.todo)
  <1>1. /\ task \in Tasks /\ cut = {} /\ cut' = {} /\ task.pc = "idle" /\ task.todo # <<>> /\ task.todo \in Seq(Steps)
        /\ x \in Steps /\ x[1] = "erase" /\ Tail(task.todo) \in Seq(Steps)
        /\ task' = Remaining(Tail(task.todo))
        /\ UNCHANGED <<g, buf, saved, image, trial, trial_slot, migrate>>
    BY HeadTail DEF Erase, Next_is, Typed, Tasks, ram_vars, boot_vars
  <1>2. x[2] \in Bases /\ x[3] \in Slots
    BY <1>1, StepShape
  <1>3. /\ task'.pc = "idle" /\ (task'.kind = "migrate" => task.kind = "migrate")
        /\ task.kind \in {"wipe", "restart"} => task'.kind \in {"wipe", "restart"}
    BY <1>1, RemainingIs DEF Typed
  <1>4. \/ sector' = sector /\ task.kind # "migrate"
        \/ task.kind = "wipe"
        \/ task.kind = "migrate"
    BY DEF Erase, Keep
  <1>5. CASE sector' = sector /\ task.kind # "migrate"
    BY <1>1, <1>3, <1>5 DEF Apart
  <1>6. CASE task.kind = "wipe"
    BY <1>1, <1>3, <1>6 DEF Apart, Kept, Stages
  <1>7. CASE task.kind = "migrate"
    <2>1. ~trial
      BY <1>7 DEF Apart
    <2>2. /\ x[2] = "legacy" /\ Partitioned /\ \E i \in Slots : slot_valid(sector[Home][i], image)
      <3>1. x = task.todo[1] /\ 1 \in 1..Len(task.todo) /\ x # <<"save">>
        BY <1>1, EmptySeq, LenProperties
      <3> QED
        BY <1>1, <1>7, <3>1 DEF Kept, Stages, Typed
    <2>3. sector'[Home] = sector[Home]
      <3>1. sector' = sector \/ sector' = [sector EXCEPT ![x[2]] = [sector[x[2]] EXCEPT ![x[3]] = Blank]]
        BY DEF Erase, Keep, Write
      <3>2. x[2] # Home
        BY <2>2 DEF Home
      <3> QED
        BY <1>2, <3>1, <3>2, Basics DEF Typed
    <2> QED
      BY <1>1, <1>3, <2>1, <2>2, <2>3 DEF Apart
  <1> QED
    BY <1>4, <1>5, <1>6, <1>7

LEMMA MainApart == ASSUME Typed, Kept, Apart, Main PROVE Apart'
  <1>1. ASSUME NEW kind \in {"later", "save", "migrate", "wipe"}, NEW todo \in Seq(Steps), Begin(kind, todo),
               UNCHANGED <<sector, cut, image, trial, trial_slot>>, saved' \in {saved, {}},
               kind = "migrate" => migrate, kind \in {"later", "save"} => migrate' = migrate, migrate' => migrate
        PROVE  Apart'
    <2>1. /\ task.pc = "idle" /\ task.kind = "none" /\ cut = {} /\ task'.pc = "idle" /\ task'.kind = kind
      BY <1>1, BeginIs DEF NoTask
    <2> QED
      BY <1>1, <2>1 DEF Apart
  <1>2. ASSUME settings_save_poll \/ SaveNow PROVE Apart'
    <2>1. /\ Begin("later", <<<<"save">>>>) \/ Begin("save", <<<<"save">>>>)
          /\ UNCHANGED <<sector, cut, image, trial, trial_slot, saved, migrate>>
      BY <1>2 DEF settings_save_poll, SaveNow, Rest, boot_vars, ram_vars
    <2> QED
      BY <2>1, <1>1, TodoTyped
  <1>3. ASSUME settings_migrate PROVE Apart'
    <2> DEFINE todo == <<<<"save">>, <<"erase", "legacy", 0>>, <<"erase", "legacy", 1>>>>
    <2>1. /\ Begin("migrate", todo) /\ UNCHANGED <<sector, cut, image, trial, trial_slot, saved>>
          /\ migrate /\ ~migrate'
      BY <1>3 DEF settings_migrate, Rest, boot_vars
    <2>2. todo \in Seq(Steps)
      BY TodoTyped
    <2> HIDE DEF todo
    <2> QED
      BY <2>1, <2>2, <1>1
  <1>4. ASSUME settings_wipe PROVE Apart'
    <2>1. /\ Begin("wipe", WipeSteps) /\ UNCHANGED <<sector, cut, image, trial, trial_slot, migrate>>
          /\ saved' = {}
      BY <1>4 DEF settings_wipe, boot_vars
    <2> QED
      BY <2>1, <1>1, TodoTyped
  <1>5. ASSUME NEW later \in BOOLEAN, Change(later) PROVE Apart'
    <2>1. UNCHANGED <<sector, task, cut, saved, image, trial, trial_slot, migrate>>
      BY <1>5 DEF Change, flash_vars, boot_vars
    <2> QED
      BY <2>1 DEF Apart
  <1> QED
    BY <1>2, <1>3, <1>4, <1>5 DEF Main

LEMMA PostApart == ASSUME Typed, Kept, Apart, Undisturbed, CallbackPost PROVE Apart'
  <1>1. /\ cut = {} /\ task.pc = "idle" /\ Target \in Slots
        /\ UNCHANGED <<task, saved, image, trial, migrate>>
        /\ trial_slot' = IF trial THEN Target ELSE trial_slot
    BY TargetTyped DEF CallbackPost, Interrupt, Undisturbed, boot_vars, Typed
  <1>2. \/ Write(Home, Target, Blank) /\ cut' = {Target}
        \/ UNCHANGED <<sector, cut>>
    BY DEF CallbackPost
  <1>3. Target # -1
    BY <1>1, Basics
  <1>4. CASE Write(Home, Target, Blank) /\ cut' = {Target}
    <2>1. /\ sector'[Home] = [sector[Home] EXCEPT ![Target] = Blank] /\ sector[Home] \in [Slots -> Numbered]
          /\ Partitioned => sector'["legacy"] = sector["legacy"]
      BY <1>1, <1>4, HomeWritten, Basics
    <2>2. trial => ~slot_valid(sector'[Home][Target], "old")
      BY <1>1, <2>1, SlotValid
    <2>3. image = "old" => ~trial
      BY DEF Typed
    <2>4. image = "old" /\ (\E j \in Slots : slot_valid(sector[Home][j], "old")) =>
             \E j \in Slots : slot_valid(sector'[Home][j], "old")
      <3>1. ~trial => Target = Spare(sector[Home], image)
        BY DEF Target, OtherSlot, Spare
      <3> QED
        BY <1>1, <1>4, <2>3, <3>1, HomeKept, Basics
    <2> QED
      BY <1>1, <1>3, <1>4, <2>1, <2>2, <2>4 DEF Apart
  <1>5. CASE UNCHANGED <<sector, cut>>
    <2>1. trial /\ saved # {} =>
            Target = Spare(sector[Home], "old") \/ ~slot_valid(sector[Home][Target], "old")
      BY <1>1, TargetTrial, TrialErases
    <2> QED
      BY <1>1, <1>3, <1>5, <2>1 DEF Apart
  <1> QED
    BY <1>2, <1>4, <1>5

\* A start of the old image marks a record in the legacy sectors to be moved.
LEMMA LoadApart ==
    ASSUME Typed, WipeComes, NEW img \in Images, settings_load(img), Partitioned
    PROVE  migrate' <=> /\ \A i \in Slots : ~slot_valid(sector[Home][i], img)
                        /\ \E i \in Slots : sector["legacy"][i] # Blank
  <1>1. sector[Home] \in [Slots -> Numbered] /\ sector["legacy"] \in [Slots -> Numbered]
    BY Basics DEF Typed, Bases
  <1>2. migrate' = (Best(sector[Home], img) = Blank /\ Best(sector["legacy"], img) # Blank)
    BY BestIn DEF settings_load
  <1>3. \A i \in Slots : slot_valid(sector["legacy"][i], img) <=> sector["legacy"][i] # Blank
    BY DEF WipeComes, Wellformed, slot_valid, Images
  <1> QED
    BY <1>1, <1>2, <1>3, BestIs

LEMMA PowerApart == ASSUME Typed, WipeComes, PowerLoss PROVE Apart'
  <1>1. /\ settings_load(image') /\ sector' = sector /\ cut' = {} /\ trial' = FALSE /\ image' \in Images
    BY DEF PowerLoss, Typed, Images
  <1>2. CASE Partitioned
    BY <1>1, <1>2, LoadApart DEF Apart
  <1>3. CASE ~Partitioned
    BY <1>1, <1>3 DEF Apart
  <1> QED
    BY <1>2, <1>3

LEMMA InstallApart == ASSUME Typed, WipeComes, Kept, Apart, TrialApart, Install PROVE Apart'
  <1>1. /\ settings_load("new") /\ sector' = sector /\ cut' = {} /\ task' = task /\ task = NoTask
        /\ image = "old" /\ image' = "new" /\ ~migrate /\ trials < MaxTrials /\ trials \in Nat /\ trial_slot' = -1
    BY DEF Install, Free, Typed, settings_load
  <1>2. NoTask.kind = "none" /\ NoTask.pc = "idle"
    BY DEF NoTask
  <1>3. \A i \in Slots : sector[Home][i].ver = "old"
    BY <1>1, SettingsAssumption, Basics DEF TrialApart, Kept, Ordered
  <1>4. ~migrate'
    <2>1. CASE ~Partitioned
      BY <1>1, <2>1 DEF settings_load
    <2>2. CASE Partitioned
      <3>1. migrate' <=> /\ \A i \in Slots : ~slot_valid(sector[Home][i], "new")
                         /\ \E i \in Slots : sector["legacy"][i] # Blank
        BY <1>1, <2>2, LoadApart DEF Images
      <3> QED
        BY <1>1, <1>2, <2>2, <3>1, SlotValid DEF Apart
    <2> QED
      BY <2>1, <2>2
  <1> QED
    BY <1>1, <1>2, <1>3, <1>4 DEF Apart

LEMMA CommitApart == ASSUME Typed, Apart, Commit PROVE Apart'
  <1>1. /\ trial' = FALSE /\ image = "new" /\ image' = image
    BY DEF Commit, Typed
  <1> QED
    BY <1>1 DEF Apart

LEMMA ApartStep ==
    ASSUME Typed, WipeComes, Kept, Apart, Undisturbed, TrialApart, [Next]_store_vars
    PROVE  Apart'
  <1>1. CASE Saving
    BY <1>1, ChooseApart, CopyApart, EraseApart, ProgramApart, EraseStepApart DEF Saving
  <1>2. CASE CallbackLater \/ UNCHANGED store_vars
    <2>1. UNCHANGED <<sector, task, cut, saved, image, trial, trial_slot, migrate>>
      BY <1>2 DEF CallbackLater, store_vars, flash_vars, boot_vars, ram_vars
    <2> QED
      BY <2>1 DEF Apart
  <1> QED
    BY <1>1, <1>2, MainApart, PostApart, PostProgramApart, PowerApart, InstallApart,
       CommitApart DEF Next

LEMMA InitApart == ASSUME Init PROVE Apart
  <1>1. PICK b \in (IF Partitioned THEN Bases ELSE {"legacy"}), v \in SettingsValues :
         LET retained == Seen(v, "old", "old")
             r == [seq |-> 0, val |-> retained, ver |-> "old", seal |-> retained]
         IN  /\ sector = [base \in Bases |->
                            [i \in Slots |-> IF base = b /\ i = 0 THEN r ELSE Blank]]
             /\ migrate = (b # Home)
    BY DEF Init
  <1>2. ~trial /\ cut = {}
    BY DEF Init
  <1>3. ASSUME Partitioned, b = Home PROVE \A i \in Slots : sector["legacy"][i] = Blank
    BY <1>1, <1>3 DEF Home, Bases
  <1>4. migrate \/ b = Home
    BY <1>1
  <1> QED
    BY <1>2, <1>3, <1>4 DEF Apart

\* What the abstract record's variables stand for.
retained == LoadedFrom(sector, IF trial THEN "old" ELSE image).val
tried == IF trial THEN {LoadedFrom(sector, "new").val} ELSE {}
asked == IF task.pc = "erased" \/ cut # {} THEN {buf.val} ELSE {}
wiped == saved = {}

LEMMA Stands ==
    /\ Loaded(IF trial THEN "old" ELSE image).val = retained
    /\ (IF trial THEN {Loaded("new").val} ELSE {}) = tried
    /\ (IF task.pc = "erased" \/ cut # {} THEN {buf.val} ELSE {}) = asked
    /\ (saved = {}) = wiped
  BY LoadedFound DEF retained, tried, asked, wiped

LEMMA StandsNext ==
    /\ (Loaded(IF trial THEN "old" ELSE image).val)' = retained'
    /\ (IF trial THEN {Loaded("new").val} ELSE {})' = tried'
    /\ (IF task.pc = "erased" \/ cut # {} THEN {buf.val} ELSE {})' = asked'
    /\ (saved = {})' = wiped'
  BY DEF retained, tried, asked, wiped, Loaded, Found, best_in, LoadedFrom, FoundIn, Best, BestOf

LEMMA StutterMaps ==
    ASSUME retained' = retained, tried' = tried, asked' = asked, wiped' = wiped
    PROVE  UNCHANGED Record!vars
  BY Stands, StandsNext DEF Record!vars

LEMMA AskMaps ==
    ASSUME NEW v \in SettingsValues, retained' = retained, wiped' = wiped, asked' = asked \cup {v},
           tried' = tried \/ (tried # {} /\ \E w \in SettingsValues : tried' = {w}),
           \E w \in SettingsValues : tried \in {{}, {w}}
    PROVE  Record!Next
  BY Stands, StandsNext DEF Record!Next, Record!Ask

LEMMA LandMaps ==
    ASSUME NEW v \in asked, asked' = asked \ {v}, wiped' \in {wiped, FALSE},
           tried = {} => retained' = v /\ tried' = tried,
           tried # {} => retained' = retained /\ tried' = {v}
    PROVE  Record!Next
  BY Stands, StandsNext DEF Record!Next, Record!Land

LEMMA WipeMaps ==
    ASSUME wiped' = TRUE, retained' \in SettingsValues, asked' \subseteq SettingsValues,
           tried' = tried \/ \E w \in SettingsValues : tried' = {w}
    PROVE  Record!Next
  BY Stands, StandsNext DEF Record!Next, Record!Wipe

LEMMA StartMaps ==
    ASSUME retained' = retained, wiped' = wiped, asked' = {}, tried' = {}
    PROVE  Record!Next
  <1>1. CASE tried = {}
    BY <1>1, Stands, StandsNext DEF Record!Next, Record!Drop
  <1>2. CASE tried # {}
    BY <1>2, Stands, StandsNext DEF Record!Next, Record!Revert
  <1> QED
    BY <1>1, <1>2

LEMMA TryMaps ==
    ASSUME NEW v \in SettingsValues, tried = {}, tried' = {v}, retained' = retained, wiped' = wiped, asked' = asked
    PROVE  Record!Next
  BY Stands, StandsNext DEF Record!Next, Record!Try

LEMMA AdoptMaps ==
    ASSUME tried # {}, asked = {}, retained' \in tried, tried' = {}, wiped' = wiped, asked' = asked
    PROVE  Record!Next
  BY Stands, StandsNext DEF Record!Next, Record!Adopt

LEMMA ValuesMap ==
    ASSUME Typed
    PROVE  /\ retained \in SettingsValues /\ asked \subseteq SettingsValues
           /\ tried = {} \/ \E w \in SettingsValues : tried = {w}
           /\ trial => \E w \in SettingsValues : tried = {w}
           /\ wiped \in BOOLEAN
  <1>1. /\ LoadedFrom(sector, "new").val \in SettingsValues
        /\ LoadedFrom(sector, IF trial THEN "old" ELSE image).val \in SettingsValues
    BY LoadedIs DEF Typed, Images
  <1>2. buf.val \in SettingsValues
    BY Basics DEF Typed, Records
  <1> QED
    BY <1>1, <1>2 DEF retained, asked, tried, wiped

LEMMA ValuesMapNext ==
    ASSUME Typed'
    PROVE  /\ retained' \in SettingsValues /\ asked' \subseteq SettingsValues
           /\ tried' = {} \/ \E w \in SettingsValues : tried' = {w}
           /\ trial' => \E w \in SettingsValues : tried' = {w}
  <1>1. sector' \in [Bases -> [Slots -> Numbered]] /\ image' \in Images /\ buf' \in Numbered
    BY DEF Typed
  <1>2. /\ LoadedFrom(sector', "new").val \in SettingsValues
        /\ LoadedFrom(sector', IF trial' THEN "old" ELSE image').val \in SettingsValues
    BY <1>1, LoadedIs DEF Images
  <1>3. buf'.val \in SettingsValues
    BY <1>1, Basics DEF Records
  <1> QED
    BY <1>2, <1>3 DEF retained, asked, tried

\* Nothing at home or in the legacy sectors that either image finds is touched.
LEMMA SameMaps ==
    ASSUME UNCHANGED <<sector, trial, image>>
    PROVE  retained' = retained /\ tried' = tried
  BY DEF retained, tried

\* The erase that begins to write a record at home.
LEMMA ErasedMaps ==
    ASSUME Typed, Kept, Apart, Typed', NEW t \in Slots, Write(Home, t, Blank), NEW v \in SettingsValues,
           ~trial => t = Spare(sector[Home], image),
           trial /\ saved # {} => t = IF trial_slot = -1 THEN Spare(sector[Home], "new") ELSE trial_slot,
           asked = {}, asked' = {v}, UNCHANGED <<saved, image, trial>>
    PROVE  Record!Next
  <1>1. /\ sector'[Home] = [sector[Home] EXCEPT ![t] = Blank] /\ sector[Home] \in [Slots -> Numbered]
        /\ Partitioned => sector'["legacy"] = sector["legacy"]
    BY HomeWritten, Basics
  <1>2. wiped' = wiped /\ (trial => tried # {})
    BY DEF wiped, tried
  <1>3. CASE saved = {}
    <2>1. retained' \in SettingsValues /\ asked' \subseteq SettingsValues
      BY ValuesMapNext
    <2>2. tried' = tried \/ \E w \in SettingsValues : tried' = {w}
      BY ValuesMapNext DEF tried
    <2>3. wiped' = TRUE
      BY <1>2, <1>3 DEF wiped
    <2> QED
      BY <2>1, <2>2, <2>3, WipeMaps
  <1>4. CASE saved # {}
    <2> DEFINE img == IF trial THEN "old" ELSE image
    <2>1. Best(sector'[Home], img) = Best(sector[Home], img)
      <3>1. CASE trial
        BY <1>1, <1>4, <3>1, TrialErases
      <3>2. CASE ~trial
        BY <1>1, <3>2, SpareErased DEF Kept, Ordered
      <3> QED
        BY <3>1, <3>2
    <2>2. LoadedFrom(sector', img) = LoadedFrom(sector, img)
      <3> HIDE DEF img
      <3> QED
        BY <1>1, <2>1, LoadedSame
    <2>3. retained' = retained
      BY <2>2 DEF retained
    <2>4. tried' = tried \/ (tried # {} /\ \E w \in SettingsValues : tried' = {w})
      BY <1>2, ValuesMapNext DEF tried
    <2>5. \E w \in SettingsValues : tried \in {{}, {w}}
      BY ValuesMap
    <2> QED
      BY <1>2, <2>3, <2>4, <2>5, AskMaps
  <1> QED
    BY <1>3, <1>4

\* The record lands.
LEMMA LandedMaps ==
    ASSUME Typed, Kept, TrialApart, NEW i \in Slots, Write(Home, i, buf),
           task.pc = "erased" \/ cut # {}, UNCHANGED <<g, image, trial, trials>>,
           task'.pc = "idle", cut' = {}, trial => ~slot_valid(sector[Home][i], "old"),
           saved' = {buf.val} \/ saved' = saved
    PROVE  Record!Next
  <1>1. LoadedFrom(sector', image).val = buf.val
    BY Lands
  <1>2. buf.val \in asked /\ asked' = asked \ {buf.val} /\ wiped' \in {wiped, FALSE}
    BY DEF asked, wiped
  <1>3. CASE ~trial
    <2>1. tried = {} /\ tried' = tried /\ retained' = buf.val
      BY <1>1, <1>3 DEF tried, retained
    <2> QED
      BY <1>2, <2>1, LandMaps
  <1>4. CASE trial
    <2>1. image = "new" /\ buf.ver = image /\ buf \in Numbered
      BY <1>4 DEF Typed, Kept, InHand
    <2>2. ~slot_valid(buf, "old")
      BY <2>1 DEF TrialApart, slot_valid
    <2>3. /\ sector'[Home] = [sector[Home] EXCEPT ![i] = buf] /\ sector[Home] \in [Slots -> Numbered]
          /\ Partitioned => sector'["legacy"] = sector["legacy"]
      BY <2>1, HomeWritten
    <2>4. Best(sector'[Home], "old") = Best(sector[Home], "old")
      BY <1>4, <2>1, <2>2, <2>3, UnreadChanged
    <2>5. LoadedFrom(sector', "old") = LoadedFrom(sector, "old")
      BY <2>3, <2>4, LoadedSame
    <2>6. tried # {} /\ retained' = retained /\ tried' = {buf.val}
      BY <1>1, <1>4, <2>1, <2>5 DEF tried, retained
    <2> QED
      BY <1>2, <2>6, LandMaps
  <1> QED
    BY <1>3, <1>4

\* A step that begins and ends no save and that leaves the sectors alone.
LEMMA QuietMaps ==
    ASSUME UNCHANGED <<sector, image, trial, saved>>, asked' = asked
    PROVE  [Record!Next]_Record!vars
  BY SameMaps, StutterMaps DEF wiped

LEMMA InitMaps == ASSUME Init PROVE Record!Init
  <1>1. Typed /\ ~trial /\ task.pc = "idle" /\ cut = {} /\ saved # {}
    BY InitTyped DEF Init, NoTask
  <1>2. retained \in SettingsValues /\ tried = {} /\ wiped = FALSE
    BY <1>1, ValuesMap DEF tried, wiped
  <1> QED
    BY <1>1, <1>2, Stands DEF Record!Init, asked

LEMMA ChooseMaps == ASSUME Typed, SaveChoose \/ SaveCopy PROVE [Record!Next]_Record!vars
  <1>1. /\ task.pc # "erased" /\ task'.pc # "erased" /\ cut = {} /\ cut' = {}
        /\ UNCHANGED <<sector, image, trial, saved>>
    BY DEF SaveChoose, SaveCopy, Next_is, Typed, Tasks, boot_vars
  <1> QED
    BY <1>1, QuietMaps DEF asked

LEMMA SaveEraseMaps ==
    ASSUME Typed, Typed', Kept, Apart, SaveErase
    PROVE  [Record!Next]_Record!vars
  <1>1. /\ task \in Tasks /\ task.pc = "copied" /\ task.target \in Slots /\ cut = {} /\ cut' = {}
        /\ UNCHANGED <<saved, image, trial, trial_slot, buf>>
    BY DEF SaveErase, Typed, Tasks, ram_vars, boot_vars
  <1>2. asked = {} /\ buf.val \in SettingsValues
    BY <1>1, Basics DEF asked, Typed, Records
  <1>3. CASE Write(Home, task.target, Blank) /\ task' = [task EXCEPT !.pc = "erased"]
    <2>1. asked' = {buf.val}
      BY <1>1, <1>3 DEF asked, Tasks
    <2>2. trial /\ saved # {} =>
             task.target = IF trial_slot = -1 THEN Spare(sector[Home], "new") ELSE trial_slot
      BY <1>1, Basics DEF Apart
    <2>3. ~trial => task.target = Spare(sector[Home], image)
      BY <1>1 DEF Kept, InHand
    <2> QED
      BY <1>1, <1>2, <1>3, <2>1, <2>2, <2>3, ErasedMaps
  <1>4. CASE Keep(FALSE) /\ task' = After(FALSE)
    <2>1. sector' = sector /\ task'.pc = "idle"
      BY <1>1, <1>4, AfterIs DEF Keep
    <2> QED
      BY <1>1, <1>2, <2>1, QuietMaps DEF asked
  <1> QED
    BY <1>3, <1>4 DEF SaveErase

LEMMA ProgramMaps ==
    ASSUME Typed, Kept, Apart, TrialApart, SaveProgram
    PROVE  Record!Next
  <1>1. /\ task \in Tasks /\ task.pc = "erased" /\ task.target \in Slots /\ Write(Home, task.target, buf)
        /\ task' = After(TRUE) /\ cut' = {} /\ saved' = {buf.val}
        /\ UNCHANGED <<g, image, trial, trials>>
    BY DEF SaveProgram, Typed, Tasks, ram_vars, boot_vars, Kept, InHand, Acknowledge
  <1>2. task'.pc = "idle"
    BY <1>1, AfterIs
  <1>3. trial => ~slot_valid(sector[Home][task.target], "old")
    BY <1>1 DEF Apart
  <1> QED
    BY <1>1, <1>2, <1>3, LandedMaps

LEMMA EraseMaps == ASSUME Typed, Typed', Kept, Apart, Erase PROVE [Record!Next]_Record!vars
  <1> DEFINE x == Head(task.todo)
  <1>1. /\ task \in Tasks /\ cut = {} /\ cut' = {} /\ task.pc = "idle" /\ task.todo # <<>> /\ task.todo \in Seq(Steps)
        /\ x \in Steps /\ x[1] = "erase" /\ Tail(task.todo) \in Seq(Steps)
        /\ task' = Remaining(Tail(task.todo))
        /\ UNCHANGED <<saved, image, trial>>
    BY HeadTail DEF Erase, Next_is, Typed, Tasks, ram_vars, boot_vars
  <1>2. x[2] \in Bases /\ x[3] \in Slots
    BY <1>1, StepShape
  <1>3. asked = {} /\ asked' = {} /\ wiped' = wiped
    BY <1>1, RemainingIs DEF asked, wiped
  <1>4. sector' = sector \/ task.kind \in {"wipe", "migrate"}
    BY DEF Erase, Keep
  <1>5. CASE sector' = sector
    BY <1>1, <1>3, <1>5, QuietMaps
  <1>6. CASE task.kind = "wipe"
    <2>1. wiped' = TRUE
      BY <1>3, <1>6 DEF Kept, Stages, wiped
    <2>2. retained' \in SettingsValues /\ (tried' = tried \/ \E w \in SettingsValues : tried' = {w})
      BY <1>1, ValuesMapNext DEF tried
    <2> QED
      BY <1>3, <2>1, <2>2, WipeMaps
  <1>7. CASE task.kind = "migrate" /\ sector' # sector
    <2>1. ~trial /\ ~trial'
      BY <1>1, <1>7 DEF Apart
    <2>2. /\ x[2] = "legacy" /\ Partitioned /\ \E i \in Slots : slot_valid(sector[Home][i], image)
      <3>1. x = task.todo[1] /\ 1 \in 1..Len(task.todo) /\ x # <<"save">>
        BY <1>1, EmptySeq, LenProperties
      <3> QED
        BY <1>1, <1>7, <3>1 DEF Kept, Stages, Typed
    <2>3. sector'[Home] = sector[Home]
      <3>1. sector' = [sector EXCEPT ![x[2]] = [sector[x[2]] EXCEPT ![x[3]] = Blank]]
        BY <1>7 DEF Erase, Keep, Write
      <3>2. x[2] # Home
        BY <2>2 DEF Home
      <3> QED
        BY <1>2, <3>1, <3>2, Basics DEF Typed
    <2>4. Best(sector[Home], image) # Blank
      BY <2>2, BestIs, Basics DEF Typed
    <2>5. LoadedFrom(sector', image) = LoadedFrom(sector, image)
      BY <2>3, <2>4, LoadedSame
    <2>6. retained' = retained /\ tried' = tried
      BY <1>1, <2>1, <2>5 DEF retained, tried
    <2> QED
      BY <1>3, <2>6, StutterMaps
  <1> QED
    BY <1>4, <1>5, <1>6, <1>7

LEMMA MainMaps == ASSUME Typed, Main PROVE [Record!Next]_Record!vars
  <1>1. ASSUME NEW kind, NEW todo, Begin(kind, todo), UNCHANGED <<sector, cut>>
        PROVE  asked = {} /\ asked' = {}
    BY <1>1 DEF Begin, Free, NoTask, asked
  <1>2. ASSUME settings_save_poll \/ SaveNow \/ settings_migrate PROVE [Record!Next]_Record!vars
    <2>1. UNCHANGED <<sector, image, trial, saved, cut>>
      BY <1>2 DEF settings_save_poll, SaveNow, settings_migrate, Rest, boot_vars
    <2>2. asked = {} /\ asked' = {}
      BY <1>1, <1>2, <2>1 DEF settings_save_poll, SaveNow, settings_migrate
    <2> QED
      BY <2>1, <2>2, QuietMaps
  <1>3. ASSUME settings_wipe PROVE [Record!Next]_Record!vars
    <2>1. UNCHANGED <<sector, image, trial, cut>> /\ saved' = {}
      BY <1>3 DEF settings_wipe, boot_vars
    <2>2. asked = {} /\ asked' = {}
      BY <1>1, <1>3, <2>1 DEF settings_wipe
    <2>3. retained' = retained /\ tried' = tried /\ retained \in SettingsValues /\ wiped' = TRUE
      BY <2>1, SameMaps, ValuesMap DEF wiped
    <2> QED
      BY <2>2, <2>3, WipeMaps
  <1>4. ASSUME NEW later \in BOOLEAN, Change(later) PROVE [Record!Next]_Record!vars
    <2>1. UNCHANGED <<sector, task, cut, saved, image, trial, buf>>
      BY <1>4 DEF Change, flash_vars, boot_vars
    <2> QED
      BY <2>1, QuietMaps DEF asked
  <1> QED
    BY <1>2, <1>3, <1>4 DEF Main

LEMMA PostMaps ==
    ASSUME Typed, Typed', Kept, Apart, Undisturbed, CallbackPost
    PROVE  [Record!Next]_Record!vars
  <1>1. /\ cut = {} /\ task.pc = "idle" /\ Target \in Slots
        /\ UNCHANGED <<task, saved, image, trial>>
    BY TargetTyped DEF CallbackPost, Interrupt, Undisturbed, boot_vars, Typed
  <1>2. PICK v \in Known(image), ok \in Outcomes("post") :
          IF ok THEN Write(Home, Target, Blank) /\ cut' = {Target} /\ buf'.val = v
                ELSE UNCHANGED <<sector, cut>>
    BY DEF CallbackPost
  <1>3. asked = {} /\ v \in SettingsValues
    BY <1>1 DEF asked, Known
  <1>4. CASE ok
    <2>1. asked' = {v} /\ Write(Home, Target, Blank)
      BY <1>2, <1>4 DEF asked
    <2>2. trial /\ saved # {} =>
             Target = IF trial_slot = -1 THEN Spare(sector[Home], "new") ELSE trial_slot
      BY TargetTrial
    <2>3. ~trial => Target = Spare(sector[Home], image)
      BY DEF Target, OtherSlot, Spare
    <2> QED
      BY <1>1, <1>3, <2>1, <2>2, <2>3, ErasedMaps
  <1>5. CASE ~ok
    BY <1>1, <1>2, <1>3, <1>5, QuietMaps DEF asked
  <1> QED
    BY <1>4, <1>5

LEMMA PostProgramMaps ==
    ASSUME Typed, Kept, Apart, TrialApart, PostProgram
    PROVE  Record!Next
  <1>1. PICK i \in cut : Write(Home, i, buf)
    BY DEF PostProgram
  <1>2. /\ i \in Slots /\ cut # {} /\ cut' = {} /\ task'.pc = "idle"
        /\ UNCHANGED <<g, image, trial, trials>>
        /\ saved' = {buf.val} \/ saved' = saved
    BY DEF PostProgram, Typed, boot_vars, Kept, InHand, Acknowledge
  <1>3. trial => ~slot_valid(sector[Home][i], "old")
    BY DEF Apart
  <1> QED
    BY <1>1, <1>2, <1>3, LandedMaps

LEMMA PowerMaps == ASSUME Typed, PowerLoss PROVE Record!Next
  <1>1. /\ sector' = sector /\ cut' = {} /\ task'.pc = "idle" /\ trial' = FALSE
        /\ image' = (IF trial THEN "old" ELSE image)
        /\ saved' = {} <=> saved = {}
    BY DEF PowerLoss, NoTask
  <1>2. retained' = retained /\ asked' = {} /\ tried' = {}
    BY <1>1 DEF retained, asked, tried
  <1>3. wiped' = wiped
    BY <1>1 DEF wiped
  <1> QED
    BY <1>2, <1>3, StartMaps

LEMMA InstallMaps == ASSUME Typed, Install PROVE Record!Next
  <1>1. /\ ~trial /\ image = "old" /\ image' = "new" /\ trial' = TRUE
        /\ UNCHANGED <<sector, buf, task, cut>> /\ (saved' = {} <=> saved = {})
    BY DEF Install, Typed
  <1>2. LoadedFrom(sector, "new").val \in SettingsValues
    BY LoadedIs DEF Typed, Images
  <1>3. /\ tried = {} /\ tried' = {LoadedFrom(sector, "new").val}
        /\ retained' = retained /\ asked' = asked
    BY <1>1 DEF retained, asked, tried
  <1>4. wiped' = wiped
    BY <1>1 DEF wiped
  <1> QED
    BY <1>2, <1>3, <1>4, TryMaps

LEMMA CommitMaps == ASSUME Typed, Commit PROVE Record!Next
  <1>1. /\ trial /\ trial' = FALSE /\ image = "new" /\ image' = "new" /\ task.pc = "idle" /\ cut = {}
        /\ UNCHANGED <<sector, buf, task, cut, saved>>
    BY DEF Commit, Free, NoTask, Typed
  <1>2. /\ tried # {} /\ tried' = {} /\ retained' \in tried /\ wiped' = wiped
        /\ asked = {} /\ asked' = asked
    BY <1>1 DEF retained, asked, tried, wiped
  <1> QED
    BY <1>2, AdoptMaps

LEMMA RecordStep ==
    ASSUME Typed, Typed', Kept, Apart, Undisturbed, TrialApart, [Next]_store_vars
    PROVE  [Record!Next]_Record!vars
  <1>1. CASE Saving
    BY <1>1, ChooseMaps, SaveEraseMaps, ProgramMaps, EraseMaps DEF Saving
  <1>2. CASE CallbackLater \/ UNCHANGED store_vars
    <2>1. UNCHANGED <<sector, task, cut, saved, image, trial, buf>>
      BY <1>2 DEF CallbackLater, store_vars, flash_vars, boot_vars
    <2> QED
      BY <2>1, QuietMaps DEF asked
  <1> QED
    BY <1>1, <1>2, MainMaps, PostMaps, PostProgramMaps, PowerMaps, InstallMaps, CommitMaps DEF Next

\* The two sectors, the two partitions and the image on trial are one record
\* that changes in single steps: a save lands whole or not at all, and what an
\* image on trial saves comes to count with its commit or goes with its revert
\* (settings_save(), settings_migrate(), settings_load(), and the bootrom's
\* choice of image).
THEOREM StoreIsOneRecord ==
    ASSUME Undisturbed, TrialApart
    PROVE  Spec => Durable
  <1> DEFINE IInv == Typed /\ WipeComes /\ Kept /\ Apart
  <1>1. Init => IInv /\ Record!Init
    BY InitTyped, InitWipe, InitKept, InitApart, InitMaps
  <1>2. IInv /\ [Next]_store_vars => IInv'
    <2>1. TriedOnce
      BY DEF TrialApart, TriedOnce
    <2> QED
      BY <2>1, TypedStep, WipeStep, KeptStep, ApartStep
  <1>3. IInv /\ IInv' /\ [Next]_store_vars => [Record!Next]_Record!vars
    BY RecordStep
  <1> HIDE DEF IInv
  <1> QED
    BY <1>1, <1>2, <1>3, PTL DEF Spec, Durable, Record!Spec

------------------------------------------------------------------------------
(* The ring of the fault log *)

RingSize == Sectors * PPS
Span == RingSize - PPS
LogRecords == [seq : Nat, port : Ports \cup {Chassis}]

\* The page before h, how many lie between p and h, and those that no append at
\* h is about to erase.
Before(h) == IF h = 0 THEN RingSize - 1 ELSE h - 1
Age(h, p) == IF p < h THEN h - 1 - p ELSE RingSize + h - 1 - p
Near(h, p) == Age(h, p) < Span

\* Of the numbers ps and the next page h: the newest number, and whether a
\* number is there.
Top(ps, h) == ps[Before(h)]
Carried(ps, t) == \E p \in Pages : ps[p] = t

\* The newest number is on the page before h; the numbers grow along a sector; the
\* next page and those behind it in its sector are blank.
Newer(ps, h) == \A p \in Pages : ps[p] <= Top(ps, h)
Unique(ps) == \A p, q \in Pages : ps[p] = ps[q] /\ ps[p] # 0 => p = q
SectorRises(ps) ==
    \A p, q \in Pages : p < q /\ q \in SectorOf(p) /\ ps[p] # 0 /\ ps[q] # 0 => ps[p] < ps[q]
Ahead(ps, h) == \A p \in SectorOf(h) : p >= h => ps[p] = 0

\* From the number f on they grow from page to page, over every page that is near.
Rising(ps, h, f) ==
    \A p, q \in Pages : ps[p] >= f /\ Near(h, q) /\ Age(h, q) < Age(h, p) => ps[q] > ps[p]
Spaced(ps, h, f) ==
    \A p \in Pages : Near(h, p) /\ ps[p] >= f => ps[p] + Age(h, p) <= Top(ps, h)

\* From f on, a number that is not there was lost, or is older than every page that
\* is near.
Chained(ps, h, L, f) ==
    \A t \in f..Top(ps, h) : t \in L \/ Carried(ps, t) \/ \A p \in Pages : Near(h, p) => ps[p] > t

\* A page that is blank, whatever the mirror says, was so before f.
LogFlash(pg, ps, f) ==
    /\ pg \in [Pages -> LogRecords] /\ ps \in [Pages -> Nat]
    /\ \A p \in Pages : pg[p].seq = 0 => pg[p] = BlankPage
    /\ \A p \in Pages : pg[p].seq = ps[p] \/ (pg[p].seq = 0 /\ ps[p] < f)

\* The numbers K were appended since f, which a clear that failed half way has set.
LogCore(pg, ps, h, L, K, f) ==
    /\ LogFlash(pg, ps, f) /\ h \in Pages /\ f \in 1..(Top(ps, h) + 1)
    /\ Newer(ps, h) /\ Unique(ps) /\ SectorRises(ps) /\ (h % PPS # 0 => Ahead(ps, h))
    /\ Rising(ps, h, f) /\ Spaced(ps, h, f) /\ Chained(ps, h, L, f) /\ K \subseteq f..Top(ps, h)

\* A port has its newest, unless a reader does not come so far.
Filed(pg, ps, h, l, f) ==
    \A p \in Pages, i \in Ports : pg[p].port = i /\ ps[p] >= f =>
       l[i] >= ps[p] \/ \E t \in ps[p]..Top(ps, h) : ~Carried(ps, t)

LEMMA RingCount ==
    /\ PPS \in Nat /\ PPS >= 1 /\ RingSize \in Nat /\ Span \in Nat /\ Span >= 1
    /\ RingSize = Span + PPS /\ Pages = 0..(RingSize - 1) /\ IsFiniteSet(Pages)
  <1>1. PPS \in Nat /\ PPS >= 1 /\ Sectors \in Nat /\ Sectors >= 2
    BY FaultLogAssumption
  <1>2. PICK k \in Nat : Sectors = k + 2
    BY <1>1
  <1>3. Sectors * PPS = k * PPS + 2 * PPS /\ k * PPS \in Nat
    BY <1>1, <1>2
  <1>4. RingSize \in Nat /\ Span \in Nat /\ Span >= 1 /\ RingSize = Span + PPS
    BY <1>1, <1>3 DEF RingSize, Span
  <1>5. Pages = 0..(RingSize - 1)
    BY DEF Pages, RingSize
  <1>6. IsFiniteSet(Pages)
    BY <1>4, <1>5, FS_Interval
  <1> QED
    BY <1>1, <1>4, <1>5, <1>6

LEMMA AgeIs ==
    ASSUME NEW h \in Pages
    PROVE  /\ Before(h) \in Pages /\ Age(h, Before(h)) = 0 /\ Near(h, Before(h))
           /\ \A p \in Pages : Age(h, p) \in 0..(RingSize - 1)
           /\ \A p \in Pages : p # Before(h) => Age(h, p) > 0
           /\ Age(h, h) = RingSize - 1
BY RingCount DEF Before, Age, Near

LEMMA InSector ==
    ASSUME NEW h \in Pages, NEW p \in SectorOf(h)
    PROVE  p \in Pages /\ (h % PPS = 0 => p >= h /\ p < h + PPS /\ ~Near(h, p))
  <1>1. p \in Nat /\ h \in Nat /\ p \in Pages /\ p \div PPS = h \div PPS
    BY RingCount DEF SectorOf
  <1>2. PPS \in Nat \ {0}
    BY RingCount
  <1>3. PICK q \in Nat, r \in Nat : p = PPS * q + r /\ r < PPS /\ q = p \div PPS
    <2>1. p = PPS * (p \div PPS) + (p % PPS) /\ p \div PPS \in Nat /\ p % PPS \in 0..(PPS - 1)
      BY ONLY <1>1, <1>2, Z3
    <2> QED
      BY <2>1, <1>2
  <1>4. h = PPS * q + (h % PPS)
    <2>1. h = PPS * (h \div PPS) + (h % PPS)
      BY ONLY <1>1, <1>2, Z3
    <2> QED
      BY <1>1, <1>3, <2>1
  <1>5. ASSUME h % PPS = 0
        PROVE  p >= h /\ p < h + PPS /\ ~Near(h, p)
    <2>1. PICK x \in Nat : x = PPS * q
      BY <1>2
    <2>2. h = x /\ p = x + r
      BY <1>3, <1>4, <1>5, <2>1
    <2>3. Age(h, p) = RingSize + h - 1 - p
      BY <1>1, <2>2 DEF Age
    <2> QED
      BY <1>1, <1>3, <2>2, <2>3, RingCount DEF Near
  <1> QED
    BY <1>1, <1>5

\* The page that follows h begins a sector or is of h's own.
LEMMA NextPage ==
    ASSUME NEW h \in Pages, NEW k, k = (h + 1) % (Sectors * PPS)
    PROVE  /\ k \in Pages /\ Before(k) = h
           /\ \A p \in Pages : p # h => Age(k, p) = Age(h, p) + 1
           /\ Age(k, h) = 0
           /\ k % PPS # 0 => k = h + 1 /\ SectorOf(k) = SectorOf(h)
  <1>1. h \in Nat /\ h < RingSize /\ k = (h + 1) % RingSize
    BY RingCount DEF RingSize
  <1>2. CASE h + 1 < RingSize
    <2>1. k = h + 1
      BY ONLY <1>1, <1>2, RingCount
    <2>2. /\ k \in Pages /\ Before(k) = h /\ Age(k, h) = 0
          /\ \A p \in Pages : p # h => Age(k, p) = Age(h, p) + 1
      BY <1>1, <1>2, <2>1, RingCount DEF Before, Age
    <2>3. ASSUME k % PPS # 0
          PROVE  SectorOf(k) = SectorOf(h)
      <3>1. PPS \in Nat \ {0}
        BY RingCount
      <3>2. PICK q \in Nat, r \in Nat : h = PPS * q + r /\ r < PPS /\ q = h \div PPS
        <4>1. h = PPS * (h \div PPS) + (h % PPS) /\ h \div PPS \in Nat /\ h % PPS \in 0..(PPS - 1)
          BY ONLY <1>1, <3>1, Z3
        <4> QED
          BY <4>1, <3>1
      <3>3. r + 1 # PPS
        <4>1. ASSUME r + 1 = PPS
              PROVE  FALSE
          <5>1. k = PPS * (q + 1)
            BY ONLY <2>1, <3>1, <3>2, <4>1, Z3
          <5>2. (PPS * (q + 1)) % PPS = 0
            BY ONLY <3>1, q \in Nat, Z3
          <5> QED
            BY <2>3, <5>1, <5>2
        <4> QED
          BY <4>1
      <3>4. k = PPS * q + (r + 1) /\ r + 1 < PPS
        BY <2>1, <3>1, <3>2, <3>3
      <3>5. k \div PPS = q
        BY ONLY <3>1, <3>4, q \in Nat, r \in Nat, Z3
      <3> QED
        BY <3>2, <3>5 DEF SectorOf
    <2> QED
      BY <2>1, <2>2, <2>3
  <1>3. CASE h + 1 = RingSize
    <2>1. k = 0
      BY ONLY <1>1, <1>3, RingCount
    <2>2. k % PPS = 0
      BY ONLY <2>1, RingCount
    <2>3. /\ k \in Pages /\ Before(k) = h /\ Age(k, h) = 0
          /\ \A p \in Pages : p # h => Age(k, p) = Age(h, p) + 1
      <3>1. k \in Pages /\ Before(k) = h
        BY <1>1, <1>3, <2>1, RingCount DEF Before
      <3>2. Age(k, h) = 0
        BY <1>1, <1>3, <2>1, RingCount DEF Age
      <3>3. ASSUME NEW p \in Pages, p # h
            PROVE  Age(k, p) = Age(h, p) + 1
        <4>1. p \in Nat /\ p < h
          BY <1>1, <1>3, <3>3, RingCount
        <4> QED
          BY <1>1, <1>3, <2>1, <4>1, RingCount DEF Age
      <3> QED
        BY <3>1, <3>2, <3>3
    <2> QED
      BY <2>2, <2>3
  <1> QED
    BY <1>1, <1>2, <1>3, RingCount

------------------------------------------------------------------------------
(* What an erase, a record and a boot do to the ring *)

LEMMA NearFirst ==
    ASSUME NEW h \in Pages, NEW p \in Pages, NEW q \in Pages, Near(h, q), ~Near(h, p)
    PROVE  Age(h, q) < Age(h, p)
  <1>1. Age(h, p) \in Int /\ Age(h, q) \in Int /\ Span \in Int
    BY AgeIs, RingCount
  <1> QED
    BY <1>1 DEF Near

LEMMA CoreFacts ==
    ASSUME NEW pg, NEW ps, NEW h, NEW L, NEW K, NEW f, LogCore(pg, ps, h, L, K, f)
    PROVE  /\ pg \in [Pages -> LogRecords] /\ ps \in [Pages -> Nat] /\ h \in Pages
           /\ Top(ps, h) \in Nat /\ f \in Nat /\ f >= 1 /\ f <= Top(ps, h) + 1
           /\ \A p \in Pages : ps[p] <= Top(ps, h)
           /\ LogFlash(pg, ps, f) /\ Unique(ps) /\ SectorRises(ps) /\ Rising(ps, h, f)
           /\ Spaced(ps, h, f) /\ Chained(ps, h, L, f) /\ K \subseteq f..Top(ps, h)
           /\ (h % PPS # 0 => Ahead(ps, h))
  <1>1. /\ LogFlash(pg, ps, f) /\ h \in Pages /\ f \in 1..(Top(ps, h) + 1)
        /\ Newer(ps, h) /\ Unique(ps) /\ SectorRises(ps) /\ (h % PPS # 0 => Ahead(ps, h))
        /\ Rising(ps, h, f) /\ Spaced(ps, h, f) /\ Chained(ps, h, L, f)
        /\ K \subseteq f..Top(ps, h)
    BY DEF LogCore
  <1>2. pg \in [Pages -> LogRecords] /\ ps \in [Pages -> Nat]
    BY <1>1 DEF LogFlash
  <1>3. Top(ps, h) \in Nat
    BY <1>1, <1>2, AgeIs DEF Top
  <1> QED
    BY <1>1, <1>2, <1>3 DEF Newer

LEMMA EraseKeepsRing ==
    ASSUME NEW pg, NEW ps, NEW h, NEW L, NEW K, NEW f, LogCore(pg, ps, h, L, K, f),
           NEW G \in SUBSET SectorOf(h), G # {} => h % PPS = 0,
           NEW pg2, pg2 = [p \in Pages |-> IF p \in G THEN BlankPage ELSE pg[p]],
           NEW ps2, ps2 = [p \in Pages |-> IF p \in G THEN 0 ELSE ps[p]]
    PROVE  /\ LogCore(pg2, ps2, h, L, K, f) /\ Top(ps2, h) = Top(ps, h)
           /\ \A p \in SectorOf(h) : G = SectorOf(h) => ps2[p] = 0
           /\ \A l : Filed(pg, ps, h, l, f) => Filed(pg2, ps2, h, l, f)
  <1>1. /\ pg \in [Pages -> LogRecords] /\ ps \in [Pages -> Nat] /\ h \in Pages
        /\ Top(ps, h) \in Nat /\ f \in Nat /\ f >= 1 /\ f <= Top(ps, h) + 1
        /\ (\A p \in Pages : ps[p] <= Top(ps, h))
        /\ LogFlash(pg, ps, f) /\ Unique(ps) /\ SectorRises(ps) /\ Rising(ps, h, f)
        /\ Spaced(ps, h, f) /\ Chained(ps, h, L, f) /\ K \subseteq f..Top(ps, h)
        /\ (h % PPS # 0 => Ahead(ps, h))
    BY CoreFacts
  <1>2. /\ ps2 \in [Pages -> Nat] /\ \A p \in Pages : ps2[p] = 0 \/ (ps2[p] = ps[p] /\ p \notin G)
        /\ \A p \in Pages : p \notin G => ps2[p] = ps[p]
    BY <1>1
  <1>3. \A p \in Pages : Near(h, p) => ps2[p] = ps[p]
    BY <1>1, <1>2, InSector
  <1>4. LogFlash(pg2, ps2, f)
    <2>1. BlankPage \in LogRecords /\ BlankPage.seq = 0
      BY DEF BlankPage, FL_EMPTY, LogRecords
    <2>2. /\ \A p \in Pages : pg[p].seq = 0 => pg[p] = BlankPage
          /\ \A p \in Pages : pg[p].seq = ps[p] \/ (pg[p].seq = 0 /\ ps[p] < f)
      BY <1>1 DEF LogFlash
    <2>3. pg2 \in [Pages -> LogRecords]
      BY <1>1, <2>1
    <2> QED
      BY <1>2, <2>1, <2>2, <2>3 DEF LogFlash
  <1>5. Top(ps2, h) = Top(ps, h)
    BY <1>1, <1>3, AgeIs DEF Top
  <1>6. Newer(ps2, h)
    BY <1>1, <1>2, <1>5 DEF Newer
  <1>7. Unique(ps2)
    BY <1>1, <1>2 DEF Unique
  <1>8. SectorRises(ps2)
    BY <1>1, <1>2 DEF SectorRises
  <1>9. Rising(ps2, h, f)
    BY <1>1, <1>2, <1>3 DEF Rising
  <1>10. Spaced(ps2, h, f)
    BY <1>1, <1>3, <1>5 DEF Spaced
  <1>11. Chained(ps2, h, L, f)
    <2>1. SUFFICES ASSUME NEW t \in f..Top(ps, h), t \notin L, ~Carried(ps2, t),
                          NEW q \in Pages, Near(h, q)
                   PROVE  ps2[q] > t
      BY <1>5 DEF Chained
    <2>2. CASE Carried(ps, t)
      <3>1. PICK p \in Pages : ps[p] = t
        BY <2>2 DEF Carried
      <3>2. p \in G
        BY <1>2, <2>1, <3>1 DEF Carried
      <3>3. ~Near(h, p)
        BY <1>1, <3>2, InSector
      <3>4. Age(h, q) < Age(h, p)
        BY <1>1, <2>1, <3>1, <3>3, NearFirst
      <3>5. ps[q] > ps[p]
        BY <1>1, <2>1, <3>1, <3>4 DEF Rising
      <3> QED
        BY <1>3, <2>1, <3>1, <3>5
    <2>3. CASE ~Carried(ps, t)
      BY <1>1, <1>3, <2>1, <2>3 DEF Chained
    <2> QED
      BY <2>2, <2>3
  <1>12. h % PPS # 0 => Ahead(ps2, h)
    BY <1>1, <1>2, InSector DEF Ahead
  <1>13. ASSUME NEW l, Filed(pg, ps, h, l, f)
         PROVE  Filed(pg2, ps2, h, l, f)
    <2>1. SUFFICES ASSUME NEW p \in Pages, NEW i \in Ports, pg2[p].port = i, ps2[p] >= f,
                          ~(l[i] >= ps2[p])
                   PROVE  \E t \in ps2[p]..Top(ps2, h) : ~Carried(ps2, t)
      BY DEF Filed
    <2>2. pg2[p] = pg[p] /\ ps2[p] = ps[p] /\ ps[p] \in Nat \ {0}
      BY <1>1, <1>2, <2>1
    <2>3. PICK t \in ps[p]..Top(ps, h) : ~Carried(ps, t)
      BY <1>13, <2>1, <2>2 DEF Filed
    <2>4. t # 0
      BY <1>1, <2>2
    <2>5. ~Carried(ps2, t)
      BY <1>2, <2>3, <2>4 DEF Carried
    <2> QED
      BY <1>5, <2>2, <2>3, <2>5
  <1>14. \A p \in SectorOf(h) : G = SectorOf(h) => ps2[p] = 0
    BY <1>1, InSector
  <1> QED
    BY <1>1, <1>4, <1>5, <1>6, <1>7, <1>8, <1>9, <1>10, <1>11, <1>12, <1>13, <1>14 DEF LogCore

\* Every number between the newest and s was lost.
LostSince(ps, h, L, s) == \A t \in (Top(ps, h) + 1)..(s - 1) : t \in L

\* A record that is newer than all, and that its port knows of; and the record on
\* the next page.
NewRecord(rec, ps, h, L, l) ==
    /\ rec \in LogRecords /\ rec.seq > Top(ps, h) /\ LostSince(ps, h, L, rec.seq)
    /\ rec.port \in Ports => l[rec.port] >= rec.seq
LogWrites(rec, pg, ps, h, pg2, ps2, k) ==
    /\ pg2 = [pg EXCEPT ![h] = rec] /\ ps2 = [ps EXCEPT ![h] = rec.seq]
    /\ k = (h + 1) % (Sectors * PPS)

LEMMA RecordKeepsRing ==
    ASSUME NEW pg, NEW ps, NEW h, NEW L, NEW K, NEW f, LogCore(pg, ps, h, L, K, f), Ahead(ps, h),
           NEW rec, NEW l, NewRecord(rec, ps, h, L, l), Filed(pg, ps, h, l, f),
           NEW pg2, NEW ps2, NEW k, LogWrites(rec, pg, ps, h, pg2, ps2, k),
           NEW K2, K2 = K \cup {rec.seq}
    PROVE  LogCore(pg2, ps2, k, L, K2, f) /\ Top(ps2, k) = rec.seq /\ Filed(pg2, ps2, k, l, f)
  <1>1. /\ pg \in [Pages -> LogRecords] /\ ps \in [Pages -> Nat] /\ h \in Pages
        /\ Top(ps, h) \in Nat /\ f \in Nat /\ f >= 1 /\ f <= Top(ps, h) + 1
        /\ (\A p \in Pages : ps[p] <= Top(ps, h))
        /\ LogFlash(pg, ps, f) /\ Unique(ps) /\ SectorRises(ps) /\ Rising(ps, h, f)
        /\ Spaced(ps, h, f) /\ Chained(ps, h, L, f) /\ K \subseteq f..Top(ps, h)
    BY CoreFacts
  <1>2. /\ rec \in LogRecords /\ rec.seq > Top(ps, h) /\ LostSince(ps, h, L, rec.seq)
        /\ (rec.port \in Ports => l[rec.port] >= rec.seq)
    BY DEF NewRecord
  <1>3. PICK s \in Nat : s = rec.seq
    BY <1>2 DEF LogRecords
  <1>4. /\ pg2 = [pg EXCEPT ![h] = rec] /\ ps2 = [ps EXCEPT ![h] = s]
        /\ k = (h + 1) % (Sectors * PPS)
    BY <1>3 DEF LogWrites
  <1>5. /\ k \in Pages /\ Before(k) = h /\ Age(k, h) = 0
        /\ \A p \in Pages : p # h => Age(k, p) = Age(h, p) + 1
        /\ k % PPS # 0 => k = h + 1 /\ SectorOf(k) = SectorOf(h)
    BY <1>1, <1>4, NextPage
  <1>6. ps[h] = 0
    BY <1>1, RingCount DEF Ahead, SectorOf
  <1>7. ps2 \in [Pages -> Nat] /\ ps2[h] = s /\ \A p \in Pages \ {h} : ps2[p] = ps[p]
    BY <1>1, <1>3, <1>4
  <1>8. Top(ps2, k) = s /\ s > Top(ps, h)
    BY <1>2, <1>3, <1>5, <1>7 DEF Top
  <1>9. \A p \in Pages \ {h} : Near(k, p) => Near(h, p)
    <2>1. SUFFICES ASSUME NEW p \in Pages, p # h, Age(k, p) < Span
                   PROVE  Age(h, p) < Span
      BY DEF Near
    <2>2. Age(k, p) = Age(h, p) + 1
      BY <1>5, <2>1
    <2>3. Age(h, p) \in Int
      BY <1>1, <2>1, AgeIs, RingCount
    <2> QED
      BY <2>1, <2>2, <2>3, RingCount
  <1>10. LogFlash(pg2, ps2, f)
    <2>1. /\ \A p \in Pages : pg[p].seq = 0 => pg[p] = BlankPage
          /\ \A p \in Pages : pg[p].seq = ps[p] \/ (pg[p].seq = 0 /\ ps[p] < f)
      BY <1>1 DEF LogFlash
    <2>2. pg2 \in [Pages -> LogRecords] /\ pg2[h] = rec /\ \A p \in Pages \ {h} : pg2[p] = pg[p]
      BY <1>1, <1>2, <1>4
    <2>3. s # 0
      BY <1>1, <1>3, <1>8
    <2> QED
      BY <1>3, <1>7, <2>1, <2>2, <2>3 DEF LogFlash
  <1>11. \A p \in Pages : p # h => ps2[p] < s
    BY <1>1, <1>3, <1>7, <1>8
  <1>12. Newer(ps2, k)
    BY <1>3, <1>7, <1>8, <1>11 DEF Newer
  <1>13. Unique(ps2)
    <2>1. SUFFICES ASSUME NEW p \in Pages, NEW q \in Pages, ps2[p] = ps2[q], ps2[p] # 0, p # q
                   PROVE  FALSE
      BY DEF Unique
    <2>2. p # h /\ q # h
      BY <1>3, <1>7, <1>11, <2>1
    <2> QED
      BY <1>1, <1>7, <2>1, <2>2 DEF Unique
  <1>14. SectorRises(ps2)
    <2>1. SUFFICES ASSUME NEW p \in Pages, NEW q \in Pages, p < q, q \in SectorOf(p),
                          ps2[p] # 0, ps2[q] # 0
                   PROVE  ps2[p] < ps2[q]
      BY DEF SectorRises
    <2>2. p \in Nat /\ q \in Nat
      BY <2>1, RingCount
    <2>3. CASE q = h
      BY <1>7, <1>11, <2>1, <2>2, <2>3
    <2>4. CASE p = h
      BY <1>7, <2>1, <2>2, <2>4 DEF Ahead
    <2>5. CASE p # h /\ q # h
      BY <1>1, <1>7, <2>1, <2>5 DEF SectorRises
    <2> QED
      BY <2>3, <2>4, <2>5
  <1>15. Rising(ps2, k, f)
    <2>1. SUFFICES ASSUME NEW p \in Pages, NEW q \in Pages, ps2[p] >= f, Near(k, q),
                          Age(k, q) < Age(k, p)
                   PROVE  ps2[q] > ps2[p]
      BY DEF Rising
    <2>2. Age(k, q) \in Nat
      BY <1>5, <2>1, AgeIs, RingCount
    <2>3. p # h
      BY <1>5, <2>1, <2>2
    <2>4. CASE q = h
      BY <1>7, <1>11, <2>1, <2>3, <2>4
    <2>5. CASE q # h
      <3>1. Near(h, q)
        BY <1>9, <2>1, <2>5
      <3>2. Age(k, q) = Age(h, q) + 1 /\ Age(k, p) = Age(h, p) + 1
        BY <1>5, <2>1, <2>3, <2>5
      <3>3. Age(h, q) \in Int /\ Age(h, p) \in Int
        BY <1>1, <2>1, AgeIs, RingCount
      <3>4. Age(h, q) < Age(h, p)
        BY <2>1, <3>2, <3>3
      <3>5. ps2[p] = ps[p] /\ ps2[q] = ps[q]
        BY <1>7, <2>1, <2>3, <2>5
      <3> QED
        BY <1>1, <2>1, <3>1, <3>4, <3>5 DEF Rising
    <2> QED
      BY <2>4, <2>5
  <1>16. Spaced(ps2, k, f)
    <2>1. SUFFICES ASSUME NEW p \in Pages, Near(k, p), ps2[p] >= f
                   PROVE  ps2[p] + Age(k, p) <= s
      BY <1>8 DEF Spaced
    <2>2. CASE p = h
      BY <1>3, <1>5, <1>7, <2>2
    <2>3. CASE p # h
      <3>1. ps[p] + Age(h, p) <= Top(ps, h) /\ ps2[p] = ps[p] /\ ps[p] \in Nat
        BY <1>1, <1>7, <1>9, <2>1, <2>3 DEF Spaced
      <3>2. Age(k, p) = Age(h, p) + 1 /\ Age(h, p) \in Int
        BY <1>1, <1>5, <2>1, <2>3, AgeIs, RingCount
      <3> QED
        BY <1>1, <1>3, <1>8, <3>1, <3>2
    <2> QED
      BY <2>2, <2>3
  <1>17. \A t \in Nat \ {0} : (t = s \/ Carried(ps, t)) => Carried(ps2, t)
    BY <1>1, <1>6, <1>7 DEF Carried
  <1>18. Chained(ps2, k, L, f)
    <2>1. SUFFICES ASSUME NEW t \in f..s, t \notin L, ~Carried(ps2, t), NEW q \in Pages, Near(k, q)
                   PROVE  ps2[q] > t
      BY <1>8 DEF Chained
    <2>2. t \in Nat \ {0}
      BY <1>1, <1>3, <2>1
    <2>3. t # s /\ ~Carried(ps, t)
      BY <1>17, <2>1, <2>2
    <2>4. t < s
      BY <1>3, <2>1, <2>3
    <2>5. t \in f..Top(ps, h)
      BY <1>1, <1>2, <1>3, <2>1, <2>2, <2>4 DEF LostSince
    <2>6. CASE q = h
      BY <1>7, <2>4, <2>6
    <2>7. CASE q # h
      BY <1>1, <1>7, <1>9, <2>1, <2>3, <2>5, <2>7 DEF Chained
    <2> QED
      BY <2>6, <2>7
  <1>19. k % PPS # 0 => Ahead(ps2, k)
    <2>1. SUFFICES ASSUME k % PPS # 0, NEW p \in SectorOf(k), p >= k
                   PROVE  ps2[p] = 0
      BY DEF Ahead
    <2>2. k = h + 1 /\ p \in SectorOf(h) /\ p \in Pages
      BY <1>5, <2>1 DEF SectorOf
    <2>3. h \in Nat /\ p \in Nat
      BY <1>1, <2>2, RingCount
    <2>4. p >= h /\ p # h
      BY <2>1, <2>2, <2>3
    <2>5. ps[p] = 0
      BY <2>2, <2>4 DEF Ahead
    <2>6. ps2[p] = ps[p]
      BY ONLY <1>7, <2>2, <2>4
    <2> QED
      BY ONLY <2>5, <2>6
  <1>20. K2 \subseteq f..s
    <2>1. f <= s
      BY <1>1, <1>3, <1>8
    <2>2. s \in f..s /\ \A x \in f..Top(ps, h) : x \in f..s
      BY <1>1, <1>3, <1>8, <2>1
    <2> QED
      BY <1>1, <1>3, <2>2
  <1>21. f \in 1..(s + 1)
    BY <1>1, <1>3, <1>8
  <1>22. Filed(pg2, ps2, k, l, f)
    <2>1. SUFFICES ASSUME NEW p \in Pages, NEW i \in Ports, pg2[p].port = i, ps2[p] >= f,
                          ~(l[i] >= ps2[p])
                   PROVE  \E t \in ps2[p]..s : ~Carried(ps2, t)
      BY <1>8 DEF Filed
    <2>2. p # h
      <3>1. ASSUME p = h
            PROVE  FALSE
        <4>1. pg2[p] = rec /\ ps2[p] = rec.seq
          BY <1>1, <1>3, <1>4, <1>7, <3>1
        <4> QED
          BY <1>2, <2>1, <4>1
      <3> QED
        BY <3>1
    <2>3. pg2[p] = pg[p] /\ ps2[p] = ps[p] /\ ps[p] \in Nat \ {0}
      BY <1>1, <1>4, <1>7, <2>1, <2>2
    <2>4. PICK t \in ps[p]..Top(ps, h) : ~Carried(ps, t)
      BY <2>1, <2>3 DEF Filed
    <2>5. t \in Nat \ {0} /\ t < s
      <3>1. t \in Int /\ t >= ps[p] /\ t <= Top(ps, h)
        BY <1>1, <2>3, <2>4
      <3> QED
        BY <1>1, <1>3, <1>8, <2>3, <3>1
    <2>6. ~Carried(ps2, t)
      <3>1. t # s
        BY <1>3, <2>5
      <3>2. \A q \in Pages : ps2[q] # t
        BY <1>7, <2>4, <3>1 DEF Carried
      <3> QED
        BY <3>2 DEF Carried
    <2> QED
      BY <1>3, <2>3, <2>4, <2>5, <2>6
  <1>23. Top(ps2, k) = rec.seq
    BY <1>3, <1>8
  <1> QED
    BY <1>5, <1>8, <1>10, <1>12, <1>13, <1>14, <1>15, <1>16, <1>18, <1>19, <1>20, <1>21, <1>22,
       <1>23 DEF LogCore

\* A bounded set of naturals has a greatest, and one of pages a least.
LEMMA LeastOf ==
    ASSUME NEW T \in SUBSET Nat, T # {}
    PROVE  \E x \in T : \A y \in T : x <= y
  <1> DEFINE R == OpToRel(<, Nat)
  <1>1. IsWellFoundedOn(R, Nat)
    BY NatLessThanWellFounded
  <1>2. \A y, x \in Nat : y < x => <<y, x>> \in R
    BY DEF OpToRel
  <1> HIDE DEF R
  <1>3. PICK x \in T : \A y \in T : ~(<<y, x>> \in R)
    BY <1>1, WFMin
  <1>4. \A y \in T : ~(y < x)
    BY <1>2, <1>3
  <1>5. \A y \in T : x <= y
    BY <1>4
  <1> QED
    BY <1>5

LEMMA GreatestOf ==
    ASSUME NEW n \in Nat, NEW T \in SUBSET (0..n), T # {}
    PROVE  Newest(T) \in T /\ \A x \in T : x <= Newest(T)
  <1> DEFINE V == {n - x : x \in T}
  <1>1. V \in SUBSET Nat /\ V # {}
    <2>1. \A x \in T : n - x \in Nat
      OBVIOUS
    <2> QED
      BY <2>1
  <1>2. PICK v \in V : \A y \in V : v <= y
    <2> HIDE DEF V
    <2> QED
      BY <1>1, LeastOf
  <1>3. PICK m \in T : v = n - m
    BY <1>2
  <1>4. \A x \in T : x <= m
    BY <1>2, <1>3
  <1> QED
    BY <1>4 DEF Newest

Held(ps) == {p \in Pages : ps[p] # 0}

\* An empty log.
LEMMA BlankHolds ==
    ASSUME NEW pg, pg = [p \in Pages |-> BlankPage], NEW ps, ps = [p \in Pages |-> FL_EMPTY],
           NEW L, NEW l
    PROVE  /\ LogCore(pg, ps, 0, L, {}, 1) /\ Filed(pg, ps, 0, l, 1)
           /\ Held(ps) = {} /\ Top(ps, 0) = 0
  <1>1. \A p \in Pages : ps[p] = 0 /\ pg[p] = BlankPage
    BY DEF FL_EMPTY
  <1>2. 0 \in Pages /\ Before(0) \in Pages /\ 0 % PPS = 0
    BY RingCount DEF Before
  <1>3. Top(ps, 0) = 0
    BY <1>1, <1>2 DEF Top
  <1>4. LogFlash(pg, ps, 1)
    <2>1. BlankPage \in LogRecords /\ BlankPage.seq = 0
      BY DEF BlankPage, FL_EMPTY, LogRecords
    <2> QED
      BY <1>1, <2>1 DEF LogFlash, FL_EMPTY
  <1>5. Rising(ps, 0, 1) /\ Spaced(ps, 0, 1) /\ Chained(ps, 0, L, 1)
    BY <1>1, <1>3 DEF Rising, Spaced, Chained
  <1>6. Newer(ps, 0) /\ Unique(ps) /\ SectorRises(ps)
    BY <1>1, <1>3 DEF Newer, Unique, SectorRises
  <1>7. Filed(pg, ps, 0, l, 1) /\ Held(ps) = {}
    BY <1>1 DEF Filed, Held
  <1>8. 1 \in 1..(Top(ps, 0) + 1)
    BY <1>3
  <1> QED
    BY <1>2, <1>3, <1>4, <1>5, <1>6, <1>7, <1>8 DEF LogCore

\* The numbers that a boot reads are those of the mirror, the least of which a clear
\* may have taken.
Reread(ps, ps2, f) ==
    /\ ps2 \in [Pages -> Nat]
    /\ \A p \in Pages : ps2[p] = ps[p] \/ (ps2[p] = 0 /\ ps[p] < f)

\* The page that a boot goes on from, and the newest number it has read.
Resumes(ps2, m, k) ==
    /\ k \in Pages /\ m \in Nat \ {0} /\ Top(ps2, k) = m
    /\ Newer(ps2, k) /\ Unique(ps2) /\ SectorRises(ps2) /\ (k % PPS # 0 => Ahead(ps2, k))

LEMMA ResumeHolds ==
    ASSUME NEW pg, NEW ps, NEW h, NEW L, NEW K, NEW f, LogCore(pg, ps, h, L, K, f),
           NEW ps2, Reread(ps, ps2, f), NEW m \in Nat \ {0}, NEW x \in Pages, ps2[x] = m,
           \A p \in Pages : ps2[p] <= m, NEW k, k = (x + 1) % (Sectors * PPS)
    PROVE  Resumes(ps2, m, k)
  <1>1. Unique(ps) /\ SectorRises(ps) /\ ps \in [Pages -> Nat] /\ ps2 \in [Pages -> Nat]
    BY CoreFacts DEF Reread
  <1>2. \A p \in Pages : ps2[p] = 0 \/ ps2[p] = ps[p]
    BY DEF Reread
  <1>3. Unique(ps2)
    BY <1>1, <1>2 DEF Unique
  <1>4. SectorRises(ps2)
    BY <1>1, <1>2 DEF SectorRises
  <1>5. k \in Pages /\ Before(k) = x /\ (k % PPS # 0 => k = x + 1 /\ SectorOf(k) = SectorOf(x))
    BY NextPage
  <1>6. Top(ps2, k) = m /\ Newer(ps2, k)
    BY <1>5 DEF Top, Newer
  <1>7. k % PPS # 0 => Ahead(ps2, k)
    <2>1. SUFFICES ASSUME k % PPS # 0, NEW p \in SectorOf(k), p >= k, ps2[p] # 0
                   PROVE  FALSE
      BY DEF Ahead
    <2>2. k = x + 1 /\ p \in SectorOf(x) /\ p \in Pages
      BY <1>5, <2>1 DEF SectorOf
    <2>3. p \in Nat /\ x \in Nat
      BY <2>2, RingCount
    <2>4. x < p
      BY <2>1, <2>2, <2>3
    <2>5. ps2[x] < ps2[p]
      BY <1>4, <2>1, <2>2, <2>4 DEF SectorRises
    <2> QED
      BY <1>1, <2>2, <2>5
  <1> QED
    BY <1>3, <1>4, <1>5, <1>6, <1>7 DEF Resumes

\* What LogCore says of the ring a boot has read.
FromFlash(pg, ps2, m, L, L2) == ps2 = [p \in Pages |-> pg[p].seq] /\ L2 = {s \in L : s < m}
Stays(ps, h, f, k) == f <= Top(ps, h) => k = h

LEMMA RereadHolds ==
    ASSUME NEW pg, NEW ps, NEW h, NEW L \in SUBSET Nat, NEW K, NEW f, LogCore(pg, ps, h, L, K, f),
           NEW ps2, NEW m, NEW k, Resumes(ps2, m, k), Stays(ps, h, f, k),
           NEW L2, FromFlash(pg, ps2, m, L, L2)
    PROVE  \E f2 \in Nat \ {0} : LogCore(pg, ps2, k, L2, K, f2)
  <1>1. /\ pg \in [Pages -> LogRecords] /\ ps \in [Pages -> Nat] /\ h \in Pages
        /\ Top(ps, h) \in Nat /\ f \in Nat /\ f >= 1 /\ f <= Top(ps, h) + 1
        /\ (\A p \in Pages : ps[p] <= Top(ps, h))
        /\ LogFlash(pg, ps, f) /\ Rising(ps, h, f)
        /\ Spaced(ps, h, f) /\ Chained(ps, h, L, f) /\ K \subseteq f..Top(ps, h)
    BY CoreFacts
  <1>2. /\ \A p \in Pages : pg[p].seq = 0 => pg[p] = BlankPage
        /\ \A p \in Pages : pg[p].seq = ps[p] \/ (pg[p].seq = 0 /\ ps[p] < f)
    BY <1>1 DEF LogFlash
  <1>3. /\ \A p \in Pages : ps2[p] = pg[p].seq /\ (ps2[p] = ps[p] \/ (ps2[p] = 0 /\ ps[p] < f))
        /\ ps2 \in [Pages -> Nat] /\ L2 = {s \in L : s < m}
    BY <1>1, <1>2 DEF LogRecords, FromFlash
  <1>4. /\ k \in Pages /\ m \in Nat \ {0} /\ Top(ps2, k) = m
        /\ Newer(ps2, k) /\ Unique(ps2) /\ SectorRises(ps2) /\ (k % PPS # 0 => Ahead(ps2, k))
    BY DEF Resumes
  <1>5. \A x \in 1..(m + 1) : LogFlash(pg, ps2, x)
    BY <1>1, <1>2, <1>3 DEF LogFlash
  <1>6. CASE f <= Top(ps, h)
    <2>1. k = h /\ Before(h) \in Pages
      BY <1>1, <1>6, AgeIs DEF Stays
    <2>2. m = Top(ps, h)
      BY <1>1, <1>3, <1>4, <1>6, <2>1 DEF Top
    <2>3. \A p \in Pages : (ps2[p] >= f <=> ps[p] >= f) /\ (ps2[p] >= f => ps2[p] = ps[p])
      BY <1>1, <1>3
    <2>4. f \in 1..(Top(ps2, k) + 1) /\ K \subseteq f..Top(ps2, k)
      BY <1>1, <1>4, <2>2
    <2>5. Rising(ps2, h, f)
      <3>1. SUFFICES ASSUME NEW p \in Pages, NEW q \in Pages, ps2[p] >= f, Near(h, q),
                            Age(h, q) < Age(h, p)
                     PROVE  ps2[q] > ps2[p]
        BY DEF Rising
      <3>2. ps[p] >= f /\ ps2[p] = ps[p]
        BY <2>3, <3>1
      <3>3. ps[q] > ps[p]
        BY <1>1, <3>1, <3>2 DEF Rising
      <3> QED
        BY <1>1, <2>3, <3>2, <3>3
    <2>6. Spaced(ps2, h, f)
      BY <1>1, <1>4, <2>1, <2>2, <2>3 DEF Spaced
    <2>7. Chained(ps2, h, L2, f)
      <3>1. SUFFICES ASSUME NEW t \in f..m, t \notin L2, ~Carried(ps2, t), NEW q \in Pages, Near(h, q)
                     PROVE  ps2[q] > t
        BY <1>4, <2>1 DEF Chained
      <3>2. ~Carried(ps, t)
        BY <1>1, <1>4, <2>3, <3>1 DEF Carried
      <3>3. t # m
        BY <1>4, <2>1, <3>1 DEF Carried, Top
      <3>4. t \notin L
        BY <1>1, <1>3, <1>4, <3>1, <3>3
      <3>5. ps[q] > t
        BY <1>1, <2>2, <3>1, <3>2, <3>4 DEF Chained
      <3>6. ps[q] >= f
        BY <1>1, <1>4, <3>1, <3>5
      <3> QED
        BY <2>3, <3>1, <3>5, <3>6
    <2>8. f \in 1..(m + 1)
      BY <1>4, <2>4
    <2>9. /\ Newer(ps2, h) /\ Unique(ps2) /\ SectorRises(ps2) /\ (h % PPS # 0 => Ahead(ps2, h))
          /\ f \in 1..(Top(ps2, h) + 1) /\ K \subseteq f..Top(ps2, h)
      BY <1>4, <2>1, <2>4
    <2>10. LogFlash(pg, ps2, f)
      BY <1>5, <2>8
    <2>11. LogCore(pg, ps2, h, L2, K, f)
      BY <1>1, <2>5, <2>6, <2>7, <2>9, <2>10 DEF LogCore
    <2> QED
      BY <1>1, <2>1, <2>11
  <1>7. CASE ~(f <= Top(ps, h))
    <2>1. K = {}
      BY <1>1, <1>7
    <2>2. PICK f3 \in Nat \ {0} : f3 = m + 1
      BY <1>4
    <2>3. \A p \in Pages : ~(ps2[p] >= f3)
      BY <1>3, <1>4, <2>2 DEF Newer
    <2>4. Rising(ps2, k, f3) /\ Spaced(ps2, k, f3)
      BY <2>3 DEF Rising, Spaced
    <2>5. Chained(ps2, k, L2, f3)
      <3>1. m \in Nat
        BY <1>4
      <3>2. \A t \in (m + 1)..m : FALSE
        BY ONLY <3>1
      <3> QED
        BY <1>4, <2>2, <3>2 DEF Chained
    <2>6. f3 \in 1..(Top(ps2, k) + 1) /\ f3 \in 1..(m + 1)
      BY <1>4, <2>2
    <2>7. LogCore(pg, ps2, k, L2, K, f3)
      BY <1>4, <1>5, <2>1, <2>4, <2>5, <2>6 DEF LogCore
    <2> QED
      BY <2>7
  <1> QED
    BY <1>6, <1>7

LEMMA BootReads ==
    ASSUME NEW pg, NEW ps, NEW h, NEW L \in SUBSET Nat, NEW K, NEW f, LogCore(pg, ps, h, L, K, f),
           Booted(pg)
    PROVE  /\ seq_max' \in Nat /\ seq_max' <= Top(ps, h) /\ seq_max' = Top(page_seq', next_page')
           /\ valid_count' = Cardinality(Held(page_seq')) /\ last' \in [Ports -> Nat]
           /\ \E f2 \in Nat \ {0} :
                /\ LogCore(pg, page_seq', next_page', {s \in L : s < seq_max'}, K, f2)
                /\ Filed(pg, page_seq', next_page', last', f2)
  <1> DEFINE used == {p \in Pages : pg[p] # BlankPage}
             newest == IF used = {} THEN 0 ELSE Newest({pg[p].seq : p \in used})
             found(s) == \E p \in used : pg[p].seq = s
             listed == {s \in 1..newest : \A t \in s..newest : found(t)}
             ofPort(i) == {s \in listed : \E p \in used : pg[p] = [seq |-> s, port |-> i]}
  <1>1. /\ page_seq' = [p \in Pages |-> pg[p].seq] /\ seq_max' = newest
        /\ valid_count' = Cardinality(used)
        /\ next_page' = IF used = {} THEN 0
                        ELSE ((CHOOSE p \in used : pg[p].seq = newest) + 1) % (Sectors * PPS)
        /\ last' = [i \in Ports |-> IF ofPort(i) = {} THEN 0 ELSE Newest(ofPort(i))]
    BY DEF Booted
  <1>2. /\ pg \in [Pages -> LogRecords] /\ ps \in [Pages -> Nat] /\ h \in Pages
        /\ Top(ps, h) \in Nat /\ f \in Nat /\ f >= 1 /\ f <= Top(ps, h) + 1
        /\ (\A p \in Pages : ps[p] <= Top(ps, h)) /\ LogFlash(pg, ps, f) /\ Unique(ps)
    BY CoreFacts
  <1>3. PICK ps2 : ps2 = [p \in Pages |-> pg[p].seq]
    OBVIOUS
  <1>4. /\ \A p \in Pages : pg[p].seq = 0 => pg[p] = BlankPage
        /\ \A p \in Pages : pg[p].seq = ps[p] \/ (pg[p].seq = 0 /\ ps[p] < f)
        /\ BlankPage.seq = 0
    BY <1>2 DEF LogFlash, BlankPage, FL_EMPTY
  <1>5. /\ ps2 \in [Pages -> Nat] /\ \A p \in Pages : ps2[p] = pg[p].seq
        /\ \A p \in Pages : ps2[p] # 0 <=> p \in used
    BY <1>2, <1>3, <1>4 DEF LogRecords
  <1>6. Reread(ps, ps2, f) /\ \A p \in Pages : ps2[p] <= Top(ps, h)
    BY <1>2, <1>4, <1>5 DEF Reread
  <1>7. used = Held(ps2) /\ page_seq' = ps2
    BY <1>1, <1>3, <1>5 DEF Held
  <1>8. PICK m : m = newest
    OBVIOUS
  <1>9. CASE used = {}
    <2>1. \A p \in Pages : pg[p] = BlankPage /\ ps2[p] = 0
      BY <1>5, <1>9
    <2>2. pg = [p \in Pages |-> BlankPage] /\ ps2 = [p \in Pages |-> FL_EMPTY]
      BY <1>2, <1>5, <2>1 DEF FL_EMPTY
    <2>3. K \subseteq {}
      <3>1. Top(ps, h) < f
        <4>1. Before(h) \in Pages
          BY <1>2, AgeIs
        <4>2. ps2[Before(h)] = 0 /\ (pg[Before(h)].seq = ps[Before(h)] \/ ps[Before(h)] < f)
          BY <1>4, <2>1, <4>1
        <4> QED
          BY <1>2, <1>5, <4>1, <4>2 DEF Top
      <3>2. K \subseteq f..Top(ps, h)
        BY CoreFacts
      <3> QED
        BY <1>2, <3>1, <3>2
    <2>4. /\ LogCore(pg, ps2, 0, {s \in L : s < seq_max'}, {}, 1) /\ Filed(pg, ps2, 0, last', 1)
          /\ Top(ps2, 0) = 0
      BY <2>2, BlankHolds
    <2>5. next_page' = 0 /\ seq_max' = 0 /\ K = {}
      BY <1>1, <1>9, <2>3
    <2>6. last' = [i \in Ports |-> 0]
      <3>1. \A i \in Ports : ofPort(i) = {}
        BY <1>9
      <3> HIDE DEF ofPort
      <3> QED
        BY <1>1, <3>1
    <2>7. LogCore(pg, page_seq', next_page', {s \in L : s < seq_max'}, K, 1)
      BY <1>7, <2>4, <2>5
    <2>8. Filed(pg, page_seq', next_page', last', 1) /\ seq_max' = Top(page_seq', next_page')
      <3>1. PICK l : l = last'
        OBVIOUS
      <3>2. Filed(pg, ps2, 0, l, 1)
        BY <2>2, BlankHolds
      <3>3. seq_max' = Top(page_seq', next_page')
        BY <1>7, <2>4, <2>5
      <3> QED
        BY <1>7, <2>5, <3>1, <3>2, <3>3
    <2>9. valid_count' = Cardinality(Held(page_seq')) /\ last' \in [Ports -> Nat]
      <3>1. valid_count' = Cardinality(Held(page_seq'))
        BY <1>1, <1>7
      <3> QED
        BY <2>6, <3>1
    <2>10. seq_max' \in Nat /\ seq_max' <= Top(ps, h)
      BY <1>2, <2>5
    <2>11. \E f2 \in Nat \ {0} :
             /\ LogCore(pg, page_seq', next_page', {s \in L : s < seq_max'}, K, f2)
             /\ Filed(pg, page_seq', next_page', last', f2)
      <3>1. 1 \in Nat \ {0}
        OBVIOUS
      <3> QED
        BY <2>7, <2>8, <3>1
    <2> QED
      BY <2>8, <2>9, <2>10, <2>11
  <1>10. CASE used # {}
    <2> DEFINE S == {pg[p].seq : p \in used}
    <2>1. S \in SUBSET (0..Top(ps, h)) /\ S # {}
      <3>1. \A p \in used : pg[p].seq \in 0..Top(ps, h)
        BY <1>2, <1>5, <1>6
      <3> QED
        BY <1>10, <3>1
    <2>2. m = Newest(S)
      BY <1>8, <1>10
    <2>3. m \in S /\ \A x \in S : x <= m
      <3> HIDE DEF S
      <3> QED
        BY <1>2, <2>1, <2>2, GreatestOf
    <2>4. m \in Nat \ {0} /\ m <= Top(ps, h) /\ \A p \in Pages : ps2[p] <= m
      <3>1. m \in Nat /\ m <= Top(ps, h)
        <4> HIDE DEF S
        <4> QED
          BY <1>2, <2>1, <2>3
      <3>2. m # 0
        BY <1>4, <1>5, <2>3
      <3>3. \A p \in Pages : ps2[p] <= m
        <4>1. \A p \in used : ps2[p] <= m
          BY <1>5, <2>3
        <4> HIDE DEF used, S
        <4> QED
          BY <1>5, <3>1, <4>1
      <3> QED
        BY <3>1, <3>2, <3>3
    <2>5. PICK x \in used : pg[x].seq = m
      BY <2>3
    <2>6. ps2[x] = m /\ x \in Pages
      BY <1>5, <2>5
    <2>7. \A p \in used : pg[p].seq = m => p = x
      <3>1. \A p \in Pages : ps2[p] = m => ps[p] = m
        BY <1>4, <1>5, <2>4
      <3> QED
        BY <1>2, <1>5, <2>4, <2>6, <3>1 DEF Unique
    <2>8. (CHOOSE p \in used : pg[p].seq = m) = x
      <3> HIDE DEF used
      <3> QED
        BY <2>5, <2>7
    <2>9. next_page' = (x + 1) % (Sectors * PPS) /\ seq_max' = m
      <3> HIDE DEF used, newest
      <3> QED
        BY <1>1, <1>8, <1>10, <2>8
    <2>10. Resumes(ps2, m, next_page')
      BY <1>6, <2>4, <2>6, <2>9, ResumeHolds
    <2>11. ASSUME f <= Top(ps, h)
           PROVE  next_page' = h
      <3>1. Before(h) \in Pages /\ ps2[Before(h)] = Top(ps, h)
        <4>1. Before(h) \in Pages
          BY <1>2, AgeIs
        <4> QED
          BY <1>2, <1>4, <1>5, <2>11, <4>1 DEF Top
      <3>2. m = Top(ps, h)
        BY <1>2, <2>4, <3>1
      <3>3. Before(h) \in used /\ pg[Before(h)].seq = m
        BY <1>5, <2>4, <3>1, <3>2
      <3>4. x = Before(h)
        BY <2>7, <3>3
      <3>5. h \in 0..(RingSize - 1) /\ RingSize \in Nat \ {0}
        BY <1>2, RingCount
      <3>6. CASE h = 0
        <4>1. x + 1 = RingSize
          BY <3>4, <3>5, <3>6 DEF Before
        <4>2. RingSize % RingSize = 0
          BY ONLY <3>5
        <4> QED
          BY <2>9, <3>6, <4>1, <4>2 DEF RingSize
      <3>7. CASE h # 0
        <4>1. x + 1 = h
          BY <3>4, <3>5, <3>7 DEF Before
        <4>2. h % RingSize = h
          BY ONLY <3>5
        <4> QED
          BY <2>9, <4>1, <4>2 DEF RingSize
      <3> QED
        BY <3>6, <3>7
    <2>12. PICK L2 : L2 = {s \in L : s < m}
      OBVIOUS
    <2>13. PICK f2 \in Nat \ {0} : LogCore(pg, ps2, next_page', L2, K, f2)
      <3>1. PICK k : k = next_page'
        OBVIOUS
      <3>2. Resumes(ps2, m, k) /\ Stays(ps, h, f, k) /\ FromFlash(pg, ps2, m, L, L2)
        BY <1>3, <2>10, <2>11, <2>12, <3>1 DEF Stays, FromFlash
      <3>3. \E f2 \in Nat \ {0} : LogCore(pg, ps2, k, L2, K, f2)
        BY <3>2, RereadHolds
      <3> QED
        BY <3>1, <3>3
    <2>14. Top(ps2, next_page') = m
      BY <2>10 DEF Resumes
    <2>15. \A i \in Ports : ofPort(i) # {} =>
             Newest(ofPort(i)) \in ofPort(i) /\ \A y \in ofPort(i) : y <= Newest(ofPort(i))
      <3>1. SUFFICES ASSUME NEW i \in Ports, ofPort(i) # {}
                     PROVE  Newest(ofPort(i)) \in ofPort(i) /\ \A y \in ofPort(i) : y <= Newest(ofPort(i))
        OBVIOUS
      <3>2. PICK T : T = ofPort(i)
        OBVIOUS
      <3>3. T \in SUBSET (0..m) /\ T # {}
        <4>1. T \subseteq 1..newest
          BY <3>2
        <4> HIDE DEF newest
        <4> QED
          BY <1>8, <2>4, <3>1, <3>2, <4>1
      <3>4. Newest(T) \in T /\ \A y \in T : y <= Newest(T)
        BY <2>4, <3>3, GreatestOf
      <3> HIDE DEF ofPort
      <3> QED
        BY <3>2, <3>4
    <2>16. \A i \in Ports : ofPort(i) \subseteq Nat
      OBVIOUS
    <2>17. last' \in [Ports -> Nat]
      <3> HIDE DEF ofPort
      <3> QED
        BY <1>1, <2>15, <2>16
    <2>18. Filed(pg, ps2, next_page', last', f2)
      <3>1. SUFFICES ASSUME NEW p \in Pages, NEW i \in Ports, pg[p].port = i, ps2[p] >= f2,
                            \A t \in ps2[p]..m : Carried(ps2, t)
                     PROVE  last'[i] >= ps2[p]
        BY <2>14 DEF Filed
      <3>2. ps2[p] \in 1..m /\ p \in used
        BY <1>5, <2>4, <2>13, <3>1
      <3>3. \A t \in ps2[p]..m : found(t)
        <4>1. SUFFICES ASSUME NEW t \in ps2[p]..m
                       PROVE  found(t)
          OBVIOUS
        <4>2. PICK q \in Pages : ps2[q] = t
          BY <3>1 DEF Carried
        <4>3. t # 0
          BY <1>5, <3>2
        <4> QED
          BY <1>5, <4>2, <4>3
      <3>4. pg[p] = [seq |-> ps2[p], port |-> i]
        BY <1>2, <1>5, <3>1 DEF LogRecords
      <3>5. ps2[p] \in listed
        BY <1>8, <3>2, <3>3
      <3>6. ps2[p] \in ofPort(i)
        BY <3>2, <3>4, <3>5
      <3> HIDE DEF ofPort
      <3>7. last'[i] = Newest(ofPort(i))
        BY <1>1, <3>6
      <3> QED
        BY <2>15, <2>16, <3>6, <3>7
    <2>19. \E f3 \in Nat \ {0} :
             /\ LogCore(pg, page_seq', next_page', {s \in L : s < seq_max'}, K, f3)
             /\ Filed(pg, page_seq', next_page', last', f3)
      BY <1>7, <2>9, <2>12, <2>13, <2>18
    <2>20. seq_max' \in Nat /\ seq_max' <= Top(ps, h) /\ seq_max' = Top(page_seq', next_page')
      BY <1>7, <2>4, <2>9, <2>14
    <2>21. valid_count' = Cardinality(Held(page_seq'))
      BY <1>1, <1>7
    <2> QED
      BY <2>17, <2>19, <2>20, <2>21
  <1> QED
    BY <1>9, <1>10

------------------------------------------------------------------------------
(* The inductive invariant of the fault log, and its steps *)

\* An append under way writes the newest number to the next page; a sector that
\* it has yet to erase begins there, and one that it has erased is blank.
Appending(o) ==
    /\ o.rec \in LogRecords /\ o.page = next_page /\ o.rec.seq = seq_max
    /\ seq_max > Top(page_seq, next_page)
    /\ o.pc = "erase" => next_page % PPS = 0
    /\ o.pc = "program" => Ahead(page_seq, next_page)
    /\ o.rec.port \in Ports => last[o.rec.port] = Live

\* The numbers past the newest record are the lost ones and that of the append.
UsedUp ==
    \A t \in (Top(page_seq, next_page) + 1)..seq_max :
       t \in lost \/ (op.pc # "idle" /\ t = seq_max)

LogFrom(f) ==
    /\ LogCore(page, page_seq, next_page, lost, kept, f) /\ Filed(page, page_seq, next_page, last, f)
    /\ valid_count = Cardinality(Held(page_seq)) /\ last \in [Ports -> Nat] /\ lost \subseteq Nat
    /\ seq_max \in 0..MaxRecords /\ Top(page_seq, next_page) <= seq_max /\ UsedUp
    /\ \/ op = LogIdle
       \/ \E c \in {"erase", "program"}, q \in Pages, r \in LogRecords :
            op = [pc |-> c, page |-> q, rec |-> r] /\ Appending(op)

LogInv == \E f \in Nat \ {0} : LogFrom(f)

LEMMA LogFacts ==
    ASSUME NEW f, LogFrom(f)
    PROVE  /\ LogFlash(page, page_seq, f) /\ next_page \in Pages /\ page_seq \in [Pages -> Nat]
           /\ f \in Nat /\ f >= 1 /\ Top(page_seq, next_page) \in Nat
           /\ (\A p \in Pages : page_seq[p] <= Top(page_seq, next_page))
           /\ seq_max \in Nat /\ seq_max <= MaxRecords /\ MaxRecords \in Nat
           /\ Live \in Nat /\ Live > seq_max
           /\ (op.pc = "idle" => op = LogIdle) /\ (op # LogIdle => op.pc \in {"erase", "program"})
  <1>1. LogCore(page, page_seq, next_page, lost, kept, f)
    BY DEF LogFrom
  <1>2. /\ LogFlash(page, page_seq, f) /\ next_page \in Pages /\ page_seq \in [Pages -> Nat]
        /\ f \in Nat /\ f >= 1 /\ Top(page_seq, next_page) \in Nat
        /\ \A p \in Pages : page_seq[p] <= Top(page_seq, next_page)
    BY <1>1, CoreFacts
  <1>4. seq_max \in Nat /\ seq_max <= MaxRecords /\ MaxRecords \in Nat /\ Live \in Nat /\ Live > seq_max
    BY FaultLogAssumption DEF LogFrom, Live
  <1>5. (op.pc = "idle" => op = LogIdle) /\ (op # LogIdle => op.pc \in {"erase", "program"})
    BY DEF LogFrom, LogIdle
  <1> QED
    BY <1>2, <1>4, <1>5

\* The flash and what is kept of it, which the beginning of an append leaves alone.
SameFlash == UNCHANGED <<page, page_seq, next_page, valid_count, kept, lost>>

LEMMA SameFlashHolds ==
    ASSUME NEW f, LogFrom(f), SameFlash, last' \in [Ports -> Nat],
           \A i \in Ports : last'[i] = last[i] \/ last'[i] = Live
    PROVE  /\ LogCore(page, page_seq, next_page, lost, kept, f)' /\ Filed(page, page_seq, next_page, last, f)'
           /\ valid_count' = Cardinality(Held(page_seq')) /\ last' \in [Ports -> Nat] /\ lost' \subseteq Nat
           /\ Top(page_seq, next_page)' = Top(page_seq, next_page)
  <1>1. LogCore(page', page_seq', next_page', lost', kept', f)
    BY DEF SameFlash, LogFrom
  <1>2. Filed(page', page_seq', next_page', last', f)
    <2>1. SUFFICES ASSUME NEW p \in Pages, NEW i \in Ports, page[p].port = i, page_seq[p] >= f,
                          ~(last'[i] >= page_seq[p])
                   PROVE  \E t \in page_seq[p]..Top(page_seq, next_page) : ~Carried(page_seq, t)
      BY DEF SameFlash, Filed
    <2>2. Live >= page_seq[p]
      BY LogFacts DEF LogFrom
    <2>3. last'[i] = last[i]
      BY <2>1, <2>2
    <2> QED
      BY <2>1, <2>3 DEF LogFrom, Filed
  <1>3. valid_count' = Cardinality(Held(page_seq')) /\ lost' \subseteq Nat
    BY DEF SameFlash, LogFrom
  <1>4. Top(page_seq, next_page)' = Top(page_seq, next_page)
    BY DEF SameFlash, Top
  <1> QED
    BY <1>1, <1>2, <1>3, <1>4

\* The next page is blank unless it begins a sector, so an append begins there.
LEMMA BeginHolds ==
    ASSUME NEW f, LogFrom(f), op = LogIdle, NEW port \in Ports \cup {Chassis}, BeginAppend(port),
           UNCHANGED <<page, page_seq, valid_count, kept, lost>>, last' \in [Ports -> Nat],
           \A i \in Ports : last'[i] = last[i] \/ last'[i] = Live, port \in Ports => last'[port] = Live
    PROVE  LogFrom(f)'
  <1>1. /\ LogFlash(page, page_seq, f) /\ next_page \in Pages /\ page_seq \in [Pages -> Nat]
        /\ Top(page_seq, next_page) \in Nat /\ seq_max \in Nat /\ MaxRecords \in Nat
    BY LogFacts
  <1>2. next_page % PPS # 0 => Ahead(page_seq, next_page)
    BY DEF LogFrom, LogCore
  <1>3. next_page \in SectorOf(next_page) /\ next_page >= next_page
    BY <1>1, RingCount DEF SectorOf
  <1>4. TargetPage = next_page
    BY <1>2, <1>3 DEF TargetPage, Ahead, FL_EMPTY
  <1>5. PICK n \in Nat : n = seq_max + 1
    BY <1>1
  <1>6. PICK r \in LogRecords : r = [seq |-> n, port |-> port]
    BY <1>5 DEF LogRecords
  <1>7. PICK c \in {"erase", "program"} : c = IF Dirty(next_page) THEN "erase" ELSE "program"
    OBVIOUS
  <1>8. /\ seq_max < MaxRecords /\ seq_max' = n /\ next_page' = next_page
        /\ op' = [pc |-> c, page |-> next_page, rec |-> r]
    BY <1>4, <1>5, <1>6, <1>7 DEF BeginAppend
  <1>9. SameFlash
    BY <1>8 DEF SameFlash
  <1>10. /\ LogCore(page, page_seq, next_page, lost, kept, f)'
         /\ Filed(page, page_seq, next_page, last, f)'
         /\ valid_count' = Cardinality(Held(page_seq')) /\ last' \in [Ports -> Nat] /\ lost' \subseteq Nat
         /\ Top(page_seq, next_page)' = Top(page_seq, next_page)
    BY <1>9, SameFlashHolds
  <1>11. seq_max' \in 0..MaxRecords /\ Top(page_seq, next_page) <= seq_max' - 1
    BY <1>1, <1>5, <1>8 DEF LogFrom
  <1>12. c = "erase" => next_page % PPS = 0
    BY <1>7 DEF Dirty
  <1>13. c = "program" => Ahead(page_seq, next_page)
    BY <1>2, <1>7 DEF Dirty, Ahead, FL_EMPTY
  <1>14. op'.pc = c /\ op'.page = next_page /\ op'.rec = r
    BY <1>8
  <1>15. Appending(op)'
    <2>1. r.seq = seq_max' /\ r.port = port
      BY <1>6, <1>8
    <2>2. Ahead(page_seq, next_page) => Ahead(page_seq, next_page)'
      BY <1>8 DEF Ahead
    <2>3. seq_max' > Top(page_seq, next_page)'
      BY <1>1, <1>8, <1>10, <1>11
    <2> QED
      BY <1>8, <1>12, <1>13, <1>14, <2>1, <2>2, <2>3 DEF Appending, Live
  <1>16. UsedUp'
    <2>1. SUFFICES ASSUME NEW t \in (Top(page_seq, next_page) + 1)..seq_max'
                   PROVE  t \in lost \/ (op'.pc # "idle" /\ t = seq_max')
      BY <1>10 DEF UsedUp
    <2>2. CASE t = seq_max'
      BY <1>14, <2>2
    <2>3. CASE t # seq_max'
      <3>1. t \in (Top(page_seq, next_page) + 1)..seq_max
        BY <1>1, <1>5, <1>8, <2>1, <2>3
      <3> QED
        BY <3>1 DEF LogFrom, UsedUp, LogIdle
    <2> QED
      BY <2>2, <2>3
  <1> QED
    BY <1>1, <1>8, <1>10, <1>11, <1>15, <1>16 DEF LogFrom

LEMMA EventHolds ==
    ASSUME NEW f, LogFrom(f), NEW i \in Ports, fault_log_event(i)
    PROVE  LogFrom(f)'
  <1>1. /\ op = LogIdle /\ last' = [last EXCEPT ![i] = Live]
        /\ UNCHANGED <<page, page_seq, valid_count, kept, lost>> /\ last \in [Ports -> Nat]
        /\ Live \in Nat
    BY LogFacts DEF fault_log_event, LogFrom
  <1>2. /\ last' \in [Ports -> Nat] /\ last'[i] = Live
        /\ \A j \in Ports : last'[j] = last[j] \/ last'[j] = Live
    BY <1>1
  <1>3. CASE limited
    <2>1. seq_max' = seq_max /\ next_page' = next_page /\ op' = op
      BY <1>3 DEF fault_log_event
    <2>2. SameFlash
      BY <1>1, <2>1 DEF SameFlash
    <2>3. UsedUp'
      BY <1>1, <2>1 DEF LogFrom, UsedUp, Top
    <2>4. /\ LogCore(page, page_seq, next_page, lost, kept, f)'
          /\ Filed(page, page_seq, next_page, last, f)'
          /\ valid_count' = Cardinality(Held(page_seq')) /\ last' \in [Ports -> Nat] /\ lost' \subseteq Nat
          /\ Top(page_seq, next_page)' = Top(page_seq, next_page)
      BY <1>2, <2>2, SameFlashHolds
    <2> QED
      BY <1>1, <2>1, <2>3, <2>4 DEF LogFrom
  <1>4. CASE ~limited
    BY <1>1, <1>2, <1>4, BeginHolds DEF fault_log_event
  <1> QED
    BY <1>3, <1>4

LEMMA BootHolds ==
    ASSUME NEW f, LogFrom(f), fault_log_boot
    PROVE  LogFrom(f)'
  <1>1. /\ op = LogIdle /\ BeginAppend(Chassis) /\ last' = last /\ last \in [Ports -> Nat]
        /\ UNCHANGED <<page, page_seq, valid_count, kept, lost>>
    BY DEF fault_log_boot, LogFrom
  <1>2. Chassis \notin Ports
    BY FaultLogAssumption DEF Chassis
  <1> QED
    BY <1>1, <1>2, BeginHolds

\* An append that fails leaves its number to the lost ones.
LEMMA FailHolds ==
    ASSUME NEW f, LogFrom(f), Fail
    PROVE  LogFrom(f)'
  <1>1. /\ op # LogIdle /\ op' = LogIdle /\ lost' = lost \cup {op.rec.seq}
        /\ UNCHANGED <<page, page_seq, seq_max, next_page, valid_count, last, kept>>
    BY DEF Fail
  <1>2. Appending(op)
    BY <1>1 DEF LogFrom
  <1>3. op.rec.seq = seq_max /\ seq_max \in Nat
    BY <1>2, LogFacts DEF Appending
  <1>4. lost' = lost \cup {seq_max} /\ lost' \subseteq Nat
    BY <1>1, <1>3 DEF LogFrom
  <1>5. LogCore(page', page_seq', next_page', lost', kept', f)
    <2>1. Chained(page_seq, next_page, lost', f)
      BY <1>4 DEF LogFrom, LogCore, Chained
    <2> QED
      BY <1>1, <2>1 DEF LogFrom, LogCore
  <1>6. UsedUp'
    BY <1>1, <1>4 DEF LogFrom, UsedUp, Top
  <1> QED
    BY <1>1, <1>4, <1>5, <1>6 DEF LogFrom, Top

LEMMA EraseHolds ==
    ASSUME NEW f, LogFrom(f), EraseSector
    PROVE  LogFrom(f)'
  <1>1. /\ op.pc = "erase" /\ op' = [op EXCEPT !.pc = "program"]
        /\ page' = [p \in Pages |-> IF p \in SectorOf(op.page) THEN BlankPage ELSE page[p]]
        /\ page_seq' = [p \in Pages |-> IF p \in SectorOf(op.page) THEN 0 ELSE page_seq[p]]
        /\ valid_count' = valid_count - Cardinality({p \in SectorOf(op.page) : page_seq[p] # 0})
        /\ UNCHANGED <<seq_max, next_page, last, kept, lost>>
    BY DEF EraseSector, FL_EMPTY
  <1>2. PICK q \in Pages, r \in LogRecords :
          op = [pc |-> "erase", page |-> q, rec |-> r] /\ Appending(op)
    BY <1>1 DEF LogFrom, LogIdle
  <1>3. q = next_page /\ next_page % PPS = 0 /\ op.page = q /\ op.rec = r
    BY <1>2 DEF Appending
  <1>4. /\ op' = [pc |-> "program", page |-> q, rec |-> r]
        /\ op'.pc = "program" /\ op'.page = q /\ op'.rec = r
    BY <1>1, <1>2
  <1>5. /\ LogCore(page', page_seq', next_page, lost, kept, f)
        /\ Top(page_seq', next_page) = Top(page_seq, next_page)
        /\ (\A p \in SectorOf(next_page) : page_seq'[p] = 0)
        /\ Filed(page', page_seq', next_page, last, f)
    <2>1. /\ page' = [p \in Pages |-> IF p \in SectorOf(next_page) THEN BlankPage ELSE page[p]]
          /\ page_seq' = [p \in Pages |-> IF p \in SectorOf(next_page) THEN 0 ELSE page_seq[p]]
      BY <1>1, <1>3
    <2>2. LogCore(page, page_seq, next_page, lost, kept, f) /\ Filed(page, page_seq, next_page, last, f)
      BY DEF LogFrom
    <2> QED
      BY <1>3, <2>1, <2>2, EraseKeepsRing
  <1>6. valid_count' = Cardinality(Held(page_seq'))
    <2> DEFINE gone == {p \in SectorOf(next_page) : page_seq[p] # 0}
    <2>1. gone \subseteq Held(page_seq) /\ Held(page_seq') = Held(page_seq) \ gone
      BY <1>1, <1>3 DEF Held, SectorOf
    <2>2. IsFiniteSet(Held(page_seq))
      BY RingCount, FS_Subset DEF Held
    <2>3. Held(page_seq) \cap gone = gone
      BY <2>1
    <2>4. Cardinality(Held(page_seq')) = Cardinality(Held(page_seq)) - Cardinality(gone)
      <3> HIDE DEF gone
      <3> QED
        BY <2>1, <2>2, <2>3, FS_Difference
    <2> QED
      BY <1>1, <1>3, <2>4 DEF LogFrom
  <1>7. Appending(op)'
    <2>1. Ahead(page_seq, next_page)'
      BY <1>1, <1>5 DEF Ahead
    <2>2. seq_max' > Top(page_seq, next_page)'
      BY <1>1, <1>2, <1>5 DEF Appending, Top
    <2> QED
      BY <1>1, <1>2, <1>3, <1>4, <2>1, <2>2 DEF Appending, Live
  <1>8. Top(page_seq, next_page)' = Top(page_seq, next_page)
    BY <1>1, <1>5 DEF Top
  <1>9. UsedUp'
    BY <1>1, <1>4, <1>8 DEF LogFrom, UsedUp
  <1>10. LogCore(page, page_seq, next_page, lost, kept, f)' /\ Filed(page, page_seq, next_page, last, f)'
    BY <1>1, <1>5
  <1> QED
    BY <1>1, <1>4, <1>6, <1>7, <1>8, <1>9, <1>10 DEF LogFrom

LEMMA ProgramHolds ==
    ASSUME NEW f, LogFrom(f), ProgramPage
    PROVE  LogFrom(f)'
  <1>1. /\ op.pc = "program" /\ op' = LogIdle /\ page' = [page EXCEPT ![op.page] = op.rec]
        /\ page_seq' = [page_seq EXCEPT ![next_page] = op.rec.seq]
        /\ valid_count' = valid_count + 1 /\ next_page' = (next_page + 1) % (Sectors * PPS)
        /\ kept' = kept \cup {op.rec.seq} /\ UNCHANGED <<seq_max, last, lost>>
    BY DEF ProgramPage
  <1>2. Appending(op)
    BY <1>1 DEF LogFrom, LogIdle
  <1>3. PICK r \in LogRecords :
          /\ r = op.rec /\ op.page = next_page /\ r.seq = seq_max
          /\ seq_max > Top(page_seq, next_page) /\ Ahead(page_seq, next_page)
          /\ (r.port \in Ports => last[r.port] = Live)
    BY <1>1, <1>2 DEF Appending
  <1>4. /\ next_page \in Pages /\ page_seq \in [Pages -> Nat] /\ seq_max \in Nat
        /\ Top(page_seq, next_page) \in Nat /\ Live \in Nat /\ Live > seq_max
    BY LogFacts
  <1>5. LostSince(page_seq, next_page, lost, r.seq)
    <2>1. SUFFICES ASSUME NEW t \in (Top(page_seq, next_page) + 1)..(seq_max - 1)
                   PROVE  t \in lost
      BY <1>3 DEF LostSince
    <2>2. t \in (Top(page_seq, next_page) + 1)..seq_max /\ t # seq_max
      BY <1>4, <2>1
    <2> QED
      BY <2>2 DEF LogFrom, UsedUp
  <1>6. /\ LogCore(page', page_seq', next_page', lost, kept', f)
        /\ Top(page_seq', next_page') = r.seq
        /\ Filed(page', page_seq', next_page', last, f)
    <2>1. LogCore(page, page_seq, next_page, lost, kept, f) /\ Filed(page, page_seq, next_page, last, f)
      BY DEF LogFrom
    <2>2. page' = [page EXCEPT ![next_page] = r] /\ page_seq' = [page_seq EXCEPT ![next_page] = r.seq]
      BY <1>1, <1>3
    <2>3. r.seq > Top(page_seq, next_page) /\ (r.port \in Ports => last[r.port] >= r.seq)
      BY <1>3, <1>4
    <2>4. next_page' = (next_page + 1) % (Sectors * PPS)
      BY <1>1
    <2>5. LogWrites(r, page, page_seq, next_page, page', page_seq', next_page')
      BY <2>2, <2>4 DEF LogWrites
    <2>6. Ahead(page_seq, next_page)
      BY <1>3
    <2>7. NewRecord(r, page_seq, next_page, lost, last)
      BY <1>3, <1>5, <2>3 DEF NewRecord
    <2>8. PICK K2 : K2 = kept \cup {r.seq}
      OBVIOUS
    <2>9. kept' = K2
      BY <1>1, <1>3, <2>8
    <2>10. LogCore(page', page_seq', next_page', lost, K2, f)
      BY <2>1, <2>5, <2>6, <2>7, <2>8, RecordKeepsRing
    <2>11. Top(page_seq', next_page') = r.seq /\ Filed(page', page_seq', next_page', last, f)
      BY <2>1, <2>5, <2>6, <2>7, <2>8, RecordKeepsRing
    <2> QED
      BY <2>9, <2>10, <2>11
  <1>7. valid_count' = Cardinality(Held(page_seq'))
    <2>1. page_seq[next_page] = 0
      BY <1>3, <1>4, RingCount DEF Ahead, SectorOf
    <2>2. seq_max # 0
      BY <1>3, <1>4
    <2>3. Held(page_seq') = Held(page_seq) \cup {next_page} /\ next_page \notin Held(page_seq)
      BY <1>1, <1>3, <1>4, <2>1, <2>2 DEF Held
    <2>4. IsFiniteSet(Held(page_seq))
      BY RingCount, FS_Subset DEF Held
    <2>5. Cardinality(Held(page_seq')) = Cardinality(Held(page_seq)) + 1
      BY <2>3, <2>4, FS_AddElement
    <2> QED
      BY <1>1, <2>5 DEF LogFrom
  <1>8. Top(page_seq, next_page)' = seq_max
    BY <1>3, <1>6 DEF Top
  <1>9. UsedUp'
    <2>1. PICK m \in Nat : m = seq_max
      BY <1>4
    <2>2. \A t \in (m + 1)..m : FALSE
      BY ONLY m \in Nat
    <2>3. (Top(page_seq, next_page) + 1)' = m + 1 /\ seq_max' = m
      BY <1>1, <1>8, <2>1
    <2> QED
      BY <2>2, <2>3, Zenon DEF UsedUp
  <1>10. LogCore(page, page_seq, next_page, lost, kept, f)' /\ Filed(page, page_seq, next_page, last, f)'
    BY <1>1, <1>3, <1>6
  <1> QED
    BY <1>1, <1>4, <1>7, <1>8, <1>9, <1>10 DEF LogFrom

\* A clear leaves an empty log; or, when a sector fails, what it has not come to, with
\* the mirror as it was: what is kept since has newer numbers than all.
LEMMA ClearHolds ==
    ASSUME ClearAt \subseteq {"idle"}, NEW f, LogFrom(f), fault_log_clear
    PROVE  LogInv'
  <1>1. /\ op = LogIdle /\ op' = LogIdle /\ last' = last /\ last \in [Ports -> Nat]
        /\ MaxRecords \in Nat /\ kept' = {}
    BY LogFacts DEF fault_log_clear, LogFrom
  <1>2. PICK n \in Nat :
          /\ page' = [p \in Pages |-> IF p \div PPS < n THEN BlankPage ELSE page[p]]
          /\ IF n = Sectors
             THEN /\ page_seq' = [p \in Pages |-> FL_EMPTY] /\ valid_count' = 0 /\ next_page' = 0
                  /\ seq_max' = 0 /\ lost' = {}
             ELSE UNCHANGED <<page_seq, valid_count, next_page, seq_max, lost>>
    <2>1. Sectors \in Nat
      BY FaultLogAssumption
    <2>2. (IF "clear" \in LogFailing THEN 0..Sectors ELSE {Sectors}) \subseteq Nat
      BY <2>1
    <2> QED
      BY <2>2 DEF fault_log_clear
  <1>3. CASE n = Sectors
    <2>1. /\ page_seq' = [p \in Pages |-> FL_EMPTY] /\ valid_count' = 0 /\ next_page' = 0
          /\ seq_max' = 0 /\ lost' = {}
      BY <1>2, <1>3
    <2>2. \A p \in Pages : p \div PPS < n
      <3>1. SUFFICES ASSUME NEW p \in Pages
                     PROVE  p \div PPS < Sectors
        BY <1>3
      <3>2. p \in Nat /\ PPS \in Nat \ {0} /\ Sectors \in Nat /\ p < Sectors * PPS
        BY <3>1, RingCount, FaultLogAssumption DEF RingSize
      <3> QED
        BY ONLY <3>2, Z3
    <2>3. page' = [p \in Pages |-> BlankPage]
      BY <1>2, <2>2
    <2>4. /\ LogCore(page', page_seq', 0, {}, {}, 1) /\ Filed(page', page_seq', 0, last, 1)
          /\ Held(page_seq') = {} /\ Top(page_seq', 0) = 0
      BY <2>1, <2>3, BlankHolds
    <2>5. valid_count' = Cardinality(Held(page_seq'))
      BY <2>1, <2>4, FS_EmptySet
    <2>6. Top(page_seq, next_page)' = 0
      BY <2>1, <2>4 DEF Top
    <2>7. UsedUp'
      BY <2>1, <2>6 DEF UsedUp
    <2>8. LogCore(page, page_seq, next_page, lost, kept, 1)' /\ Filed(page, page_seq, next_page, last, 1)'
      BY <1>1, <2>1, <2>4
    <2>9. LogFrom(1)'
      BY <1>1, <2>1, <2>5, <2>6, <2>7, <2>8 DEF LogFrom
    <2> QED
      BY <2>9 DEF LogInv
  <1>4. CASE n # Sectors
    <2>1. UNCHANGED <<page_seq, valid_count, next_page, seq_max, lost>>
      BY <1>2, <1>4
    <2>2. /\ page \in [Pages -> LogRecords] /\ page_seq \in [Pages -> Nat] /\ next_page \in Pages
          /\ Top(page_seq, next_page) \in Nat
          /\ (\A p \in Pages : page_seq[p] <= Top(page_seq, next_page))
          /\ LogFlash(page, page_seq, f) /\ Unique(page_seq) /\ SectorRises(page_seq)
          /\ (next_page % PPS # 0 => Ahead(page_seq, next_page))
      <3>1. LogCore(page, page_seq, next_page, lost, kept, f)
        BY DEF LogFrom
      <3> QED
        BY <3>1, CoreFacts
    <2>3. PICK m \in Nat, f3 \in Nat \ {0} : m = Top(page_seq, next_page) /\ f3 = m + 1
      <3>1. Top(page_seq, next_page) + 1 \in Nat \ {0}
        BY <2>2
      <3> QED
        BY <2>2, <3>1
    <2>4. \A p \in Pages : page_seq[p] < f3
      BY <2>2, <2>3
    <2>5. LogFlash(page', page_seq, f3)
      <3>1. BlankPage \in LogRecords /\ BlankPage.seq = 0
        BY DEF BlankPage, FL_EMPTY, LogRecords
      <3>2. \A p \in Pages : page'[p] = BlankPage \/ page'[p] = page[p]
        BY <1>2
      <3>3. page' \in [Pages -> LogRecords]
        BY <1>2, <2>2, <3>1
      <3>4. /\ \A p \in Pages : page[p].seq = 0 => page[p] = BlankPage
            /\ \A p \in Pages : page[p].seq = page_seq[p] \/ page[p].seq = 0
        BY <2>2 DEF LogFlash
      <3> QED
        BY <2>2, <2>4, <3>1, <3>2, <3>3, <3>4 DEF LogFlash
    <2>6. \A p \in Pages : ~(page_seq[p] >= f3)
      BY <2>2, <2>4
    <2>7. Rising(page_seq, next_page, f3) /\ Spaced(page_seq, next_page, f3)
      BY <2>6 DEF Rising, Spaced
    <2>8. Filed(page', page_seq, next_page, last, f3)
      BY <2>6 DEF Filed
    <2>9. Chained(page_seq, next_page, lost, f3)
      <3>1. \A t \in (m + 1)..m : FALSE
        BY ONLY m \in Nat
      <3> QED
        BY <2>3, <3>1 DEF Chained
    <2>10. f3 \in 1..(Top(page_seq, next_page) + 1) /\ Newer(page_seq, next_page)
      BY <2>2, <2>3 DEF Newer
    <2>11. LogCore(page', page_seq, next_page, lost, {}, f3)
      BY <2>2, <2>5, <2>7, <2>9, <2>10 DEF LogCore
    <2>12. LogCore(page, page_seq, next_page, lost, kept, f3)' /\ Filed(page, page_seq, next_page, last, f3)'
      BY <1>1, <2>1, <2>8, <2>11
    <2>13. UsedUp'
      BY <1>1, <2>1 DEF LogFrom, UsedUp, Top
    <2>14. LogFrom(f3)'
      BY <1>1, <2>1, <2>12, <2>13 DEF LogFrom, Top
    <2> QED
      BY <2>14 DEF LogInv
  <1> QED
    BY <1>3, <1>4

LEMMA RestHolds ==
    ASSUME NEW f, LogFrom(f), GapOver \/ UNCHANGED log_vars
    PROVE  LogFrom(f)'
  <1>1. UNCHANGED <<page, page_seq, seq_max, next_page, valid_count, last, op, kept, lost>>
    BY DEF GapOver, log_vars
  <1> QED
    BY <1>1 DEF LogFrom, UsedUp, Appending, Top, Ahead

\* A power cut, in an erase or not, and the boot that reads what it has left.
LEMMA PowerHolds ==
    ASSUME NEW f, LogFrom(f), LogPowerLoss
    PROVE  LogInv'
  <1>1. PICK gone \in (IF op.pc = "erase" THEN SUBSET SectorOf(op.page) ELSE {{}}) :
          page' = [p \in Pages |-> IF p \in gone THEN BlankPage ELSE page[p]]
    BY DEF LogPowerLoss
  <1>2. /\ Booted(page') /\ op' = LogIdle /\ kept' = kept /\ lost' = {s \in lost : s < seq_max'}
    BY DEF LogPowerLoss
  <1>3. gone \in SUBSET SectorOf(next_page) /\ (gone # {} => next_page % PPS = 0)
    <2>1. CASE op.pc = "erase"
      <3>1. Appending(op)
        BY <2>1 DEF LogFrom, LogIdle
      <3> QED
        BY <1>1, <2>1, <3>1 DEF Appending
    <2>2. CASE op.pc # "erase"
      BY <1>1, <2>2
    <2> QED
      BY <2>1, <2>2
  <1>4. PICK pg, ps : /\ pg = page' /\ ps = [p \in Pages |-> IF p \in gone THEN 0 ELSE page_seq[p]]
    OBVIOUS
  <1>5. LogCore(pg, ps, next_page, lost, kept, f) /\ Top(ps, next_page) = Top(page_seq, next_page)
    <2>1. pg = [p \in Pages |-> IF p \in gone THEN BlankPage ELSE page[p]]
      BY <1>1, <1>4
    <2>2. LogCore(page, page_seq, next_page, lost, kept, f)
      BY DEF LogFrom
    <2> QED
      BY <1>3, <1>4, <2>1, <2>2, EraseKeepsRing
  <1>6. Booted(pg) /\ lost \in SUBSET Nat
    BY <1>2, <1>4 DEF LogFrom
  <1>7. /\ seq_max' \in Nat /\ seq_max' <= Top(ps, next_page)
        /\ seq_max' = Top(page_seq', next_page')
        /\ valid_count' = Cardinality(Held(page_seq')) /\ last' \in [Ports -> Nat]
        /\ \E f2 \in Nat \ {0} :
             /\ LogCore(pg, page_seq', next_page', {s \in lost : s < seq_max'}, kept, f2)
             /\ Filed(pg, page_seq', next_page', last', f2)
    BY <1>5, <1>6, BootReads
  <1>8. PICK f3 \in Nat \ {0} :
          /\ LogCore(pg, page_seq', next_page', {s \in lost : s < seq_max'}, kept, f3)
          /\ Filed(pg, page_seq', next_page', last', f3)
    BY <1>7
  <1>9. /\ LogCore(page', page_seq', next_page', lost', kept', f3) /\ lost' \subseteq Nat
        /\ Filed(page', page_seq', next_page', last', f3)
    BY <1>2, <1>4, <1>6, <1>8
  <1>10. seq_max' \in 0..MaxRecords /\ seq_max' \in Nat
    <2>1. Top(page_seq, next_page) \in Nat /\ MaxRecords \in Nat /\ seq_max \in Nat /\ seq_max <= MaxRecords
      BY LogFacts
    <2>2. Top(page_seq, next_page) <= seq_max
      BY DEF LogFrom
    <2> QED
      BY <1>5, <1>7, <2>1, <2>2
  <1>11. Top(page_seq, next_page)' = seq_max'
    BY <1>7 DEF Top
  <1>12. UsedUp'
    <2>1. PICK m \in Nat : m = seq_max'
      BY <1>10
    <2>2. \A t \in (m + 1)..m : FALSE
      BY ONLY m \in Nat
    <2>3. (Top(page_seq, next_page) + 1)' = m + 1 /\ seq_max' = m
      BY <1>11, <2>1
    <2> QED
      BY <2>2, <2>3, Zenon DEF UsedUp
  <1>13. LogFrom(f3)'
    BY <1>2, <1>7, <1>9, <1>10, <1>11, <1>12 DEF LogFrom
  <1> QED
    BY <1>13 DEF LogInv

LEMMA LogInitHolds == LogInit => LogInv
  <1> SUFFICES ASSUME LogInit PROVE LogInv
    OBVIOUS
  <1>1. /\ page = [p \in Pages |-> BlankPage] /\ page_seq = [p \in Pages |-> FL_EMPTY]
        /\ seq_max = 0 /\ next_page = 0 /\ valid_count = 0 /\ last = [i \in Ports |-> 0]
        /\ op = LogIdle /\ kept = {} /\ lost = {}
    BY DEF LogInit
  <1>2. /\ LogCore(page, page_seq, next_page, lost, kept, 1)
        /\ Filed(page, page_seq, next_page, last, 1)
        /\ Held(page_seq) = {} /\ Top(page_seq, next_page) = 0
    BY <1>1, BlankHolds
  <1>3. valid_count = Cardinality(Held(page_seq))
    BY <1>1, <1>2, FS_EmptySet
  <1>4. UsedUp
    BY <1>1, <1>2 DEF UsedUp
  <1>5. LogFrom(1)
    BY <1>1, <1>2, <1>3, <1>4, FaultLogAssumption DEF LogFrom
  <1> QED
    BY <1>5 DEF LogInv

------------------------------------------------------------------------------
(* The listing *)

\* The numbers that are there are no more than the pages that hold one.
LEMMA EnoughHeld ==
    ASSUME NEW ps \in [Pages -> Nat], NEW a \in Nat, NEW b \in Nat, a >= 1, a <= b,
           \A t \in a..b : Carried(ps, t)
    PROVE  Cardinality(Held(ps)) \in Nat /\ b - a < Cardinality(Held(ps))
  <1> DEFINE f == [t \in a..b |-> CHOOSE p \in Pages : ps[p] = t]
  <1>1. IsFiniteSet(Held(ps))
    BY RingCount, FS_Subset DEF Held
  <1>2. \A t \in a..b : f[t] \in Pages /\ ps[f[t]] = t
    BY DEF Carried
  <1>3. f \in [a..b -> Held(ps)]
    <2>1. \A t \in a..b : t # 0
      OBVIOUS
    <2>2. \A t \in a..b : f[t] \in Held(ps)
      <3> HIDE DEF f
      <3> QED
        BY <1>2, <2>1 DEF Held
    <2> QED
      BY <2>2
  <1>4. \A t, u \in a..b : f[t] = f[u] => t = u
    <2> HIDE DEF f
    <2> QED
      BY <1>2
  <1>5. f \in Injection(a..b, Held(ps))
    <2> HIDE DEF f
    <2> QED
      BY <1>3, <1>4 DEF Injection, IsInjective
  <1>6. Cardinality(a..b) <= Cardinality(Held(ps))
    <2> HIDE DEF f
    <2> QED
      BY <1>1, <1>5, FS_Injection
  <1>7. Cardinality(a..b) = b - a + 1
    BY FS_Interval
  <1>8. Cardinality(Held(ps)) \in Nat
    BY <1>1, FS_CardinalityType
  <1> QED
    BY <1>6, <1>7, <1>8

\* A number that is there is read at its distance from the newest.
LEMMA Reads ==
    ASSUME NEW f, LogFrom(f), NEW n \in Nat, n < valid_count, seq_max - n >= f, Carried(page_seq, seq_max - n)
    PROVE  /\ Get(n) # {} /\ \E r \in Get(n) : r.seq = seq_max - n
  <1> DEFINE at == {p \in Pages : page_seq[p] = seq_max - n /\ page_seq[p] # FL_EMPTY}
             p == CHOOSE p \in at : \A q \in at : p <= q
  <1>1. at # {} /\ at \in SUBSET Nat
    <2>1. PICK q \in Pages : page_seq[q] = seq_max - n
      BY DEF Carried
    <2>2. page_seq[q] # FL_EMPTY
      BY <2>1, LogFacts DEF FL_EMPTY
    <2> QED
      BY <2>1, <2>2, RingCount
  <1>2. p \in at
    <2> HIDE DEF at
    <2>1. \E x \in at : \A y \in at : x <= y
      BY <1>1, LeastOf
    <2> QED
      BY <2>1
  <1>3. Get(n) = {page[p]}
    BY <1>1 DEF Get
  <1>4. page_seq[p] = seq_max - n /\ p \in Pages
    <2> HIDE DEF p
    <2> QED
      BY <1>2
  <1>5. page[p].seq = seq_max - n
    <2> HIDE DEF p
    <2> QED
      BY <1>4, LogFacts DEF LogFlash
  <1> HIDE DEF p
  <1> QED
    BY <1>3, <1>5

LEMMA ListsRecent == LogInv => RecentListed
  <1> SUFFICES ASSUME NEW f \in Nat \ {0}, LogFrom(f), op = LogIdle, NEW s \in kept, Recent(s)
               PROVE  /\ \E r \in Listed : r.seq = s
                      /\ \A i \in Ports, p \in Pages :
                           page[p] = [seq |-> s, port |-> i] => last[i] >= s
    BY DEF RecentListed, LogInv
  <1> DEFINE top == Top(page_seq, next_page)
  <1>1. /\ next_page \in Pages /\ page_seq \in [Pages -> Nat] /\ top \in Nat /\ seq_max \in Nat
        /\ seq_max <= MaxRecords /\ MaxRecords \in Nat /\ LogFlash(page, page_seq, f)
        /\ \A p \in Pages : page_seq[p] <= top
    BY LogFacts
  <1>2. s \in 1..top /\ s >= f /\ top <= seq_max
    BY <1>1 DEF LogFrom, LogCore
  <1>3. s > seq_max - Span /\ \A n \in lost : s > n
    <2>1. (Sectors - 1) * PPS = Span
      <3>1. Sectors \in Nat /\ PPS \in Nat
        BY FaultLogAssumption
      <3> QED
        BY ONLY <3>1, Z3 DEF Span, RingSize
    <2> QED
      BY <2>1 DEF Recent
  <1>4. top = seq_max
    <2>1. SUFFICES ASSUME top # seq_max PROVE FALSE
      OBVIOUS
    <2>2. seq_max \in (top + 1)..seq_max
      BY <1>1, <1>2, <2>1
    <2>3. seq_max \in lost
      BY <2>2 DEF LogFrom, UsedUp, LogIdle
    <2>4. s > seq_max
      BY <1>3, <2>3
    <2> QED
      BY <1>1, <1>2, <2>4
  <1>5. \A t \in s..seq_max : Carried(page_seq, t)
    <2>1. SUFFICES ASSUME NEW t \in s..seq_max, ~Carried(page_seq, t)
                   PROVE  FALSE
      OBVIOUS
    <2>2. t \in f..top /\ t \in 1..top /\ s <= t
      BY <1>1, <1>2, <1>4, <2>1
    <2>3. t \notin lost
      <3>1. ASSUME t \in lost
            PROVE  FALSE
        <4>1. s > t
          BY <1>3, <3>1
        <4> QED
          BY <1>2, <2>2, <4>1
      <3> QED
        BY <3>1
    <2>4. \A p \in Pages : Near(next_page, p) => page_seq[p] > t
      BY <2>1, <2>2, <2>3 DEF LogFrom, LogCore, Chained
    <2>5. PICK p \in Pages : Age(next_page, p) = Span - 1
      <3>1. next_page \in Nat /\ next_page < RingSize
        BY <1>1, RingCount
      <3>2. CASE next_page >= Span
        <4>1. next_page - Span \in Pages
          BY <3>1, <3>2, RingCount
        <4>2. Age(next_page, next_page - Span) = Span - 1
          BY <3>1, <3>2, RingCount DEF Age
        <4> QED
          BY <4>1, <4>2
      <3>3. CASE next_page < Span
        <4>1. RingSize + next_page - Span \in Pages
          BY <3>1, <3>3, RingCount
        <4>2. Age(next_page, RingSize + next_page - Span) = Span - 1
          BY <3>1, <3>3, RingCount DEF Age
        <4> QED
          BY <4>1, <4>2
      <3> QED
        BY <3>1, <3>2, <3>3, RingCount
    <2>6. Near(next_page, p)
      BY <2>5, RingCount DEF Near
    <2>7. page_seq[p] > t /\ page_seq[p] >= f
      BY <1>1, <2>2, <2>4, <2>6
    <2>8. page_seq[p] + (Span - 1) <= top
      BY <2>5, <2>6, <2>7 DEF LogFrom, LogCore, Spaced
    <2> QED
      BY <1>1, <1>2, <1>3, <1>4, <2>2, <2>7, <2>8, RingCount
  <1>6. Cardinality(Held(page_seq)) \in Nat /\ seq_max - s < Cardinality(Held(page_seq))
    BY <1>1, <1>2, <1>4, <1>5, EnoughHeld
  <1>7. ASSUME NEW n \in 0..(seq_max - s)
        PROVE  Get(n) # {} /\ \E r \in Get(n) : r.seq = seq_max - n
    <2>1. n \in Nat /\ seq_max - n >= f /\ seq_max - n \in s..seq_max
      BY <1>1, <1>2
    <2>2. n < valid_count
      BY <1>1, <1>2, <1>6 DEF LogFrom
    <2> QED
      BY <1>5, <2>1, <2>2, Reads
  <1>8. \E r \in Listed : r.seq = s
    <2>1. PICK m \in Nat : m = seq_max - s /\ m <= MaxRecords
      BY <1>1, <1>2
    <2>2. PICK r \in Get(m) : r.seq = s
      BY <1>1, <1>2, <1>7, <2>1
    <2>3. \A k \in 0..m : Get(k) # {}
      BY <1>7, <2>1
    <2>4. m \in {x \in 0..MaxRecords : \A k \in 0..x : Get(k) # {}}
      BY <1>1, <2>1, <2>3
    <2> QED
      BY <2>2, <2>4 DEF Listed
  <1>9. ASSUME NEW i \in Ports, NEW p \in Pages, page[p] = [seq |-> s, port |-> i]
        PROVE  last[i] >= s
    <2>1. page_seq[p] = s /\ page[p].port = i /\ page_seq[p] >= f
      BY <1>1, <1>2, <1>9 DEF LogFlash
    <2> QED
      BY <1>2, <1>4, <1>5, <2>1 DEF LogFrom, Filed
  <1> QED
    BY <1>8, <1>9

\* The listing shows the newest records, as many as the sectors hold that no append
\* is about to erase, down to the last that failed (fault_log_get()), and a port the
\* newest of its own: whatever appends and clears fail, and wherever the power goes, in
\* the middle of an erase too (fault_log_init()), as long as the log is cleared between
\* two appends.
THEOREM NewestAreListed ==
    ASSUME ClearAt \subseteq {"idle"}
    PROVE  LogSpec => []RecentListed
  <1>1. LogInv /\ [LogNext]_log_vars => LogInv'
    <2> SUFFICES ASSUME NEW f \in Nat \ {0}, LogFrom(f), [LogNext]_log_vars PROVE LogInv'
      BY DEF LogInv
    <2>1. CASE \E i \in Ports : fault_log_event(i)
      BY <2>1, EventHolds DEF LogInv
    <2>2. CASE fault_log_boot
      BY <2>2, BootHolds DEF LogInv
    <2>3. CASE fault_log_clear
      BY <2>3, ClearHolds
    <2>4. CASE EraseSector
      BY <2>4, EraseHolds DEF LogInv
    <2>5. CASE ProgramPage
      BY <2>5, ProgramHolds DEF LogInv
    <2>6. CASE Fail
      BY <2>6, FailHolds DEF LogInv
    <2>7. CASE LogPowerLoss
      BY <2>7, PowerHolds
    <2>8. CASE GapOver \/ UNCHANGED log_vars
      BY <2>8, RestHolds DEF LogInv
    <2> QED
      BY <2>1, <2>2, <2>3, <2>4, <2>5, <2>6, <2>7, <2>8, Zenon DEF LogNext
  <1> QED
    BY LogInitHolds, <1>1, ListsRecent, PTL DEF LogSpec

================================================================================
