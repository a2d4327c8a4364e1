--------------------------------- MODULE Update ---------------------------------
(***************************************************************************)
(* A new firmware image for the controller: the transfer into the slot     *)
(* that does not run (update.c), pushed by a client over HTTP (http.c) or  *)
(* pulled from a server (ota_pull.c); the restart into it on trial, its    *)
(* commit or its end (main.c, flash_map.c); and the automatic install of   *)
(* the newest release known (update_check.c).                              *)
(*                                                                         *)
(* The network's callbacks interrupt the main loop.  A client may fall     *)
(* silent or leave, a flash write may fail or go bad, and the power or the *)
(* watchdog may restart the controller between any two steps.              *)
(*                                                                         *)
(* An image is its version and a number of cells of that version: the      *)
(* first sector, which says what the image is, and the rest.  A signed     *)
(* image is a raw one whose last cell ends in the signature; an unsigned   *)
(* one is a UF2, whose cells say where they belong.                        *)
(***************************************************************************)
EXTENDS Integers, Sequences, FiniteSets

CONSTANTS
    Factory,   \* the version that a new controller runs
    Pushed, Pulled, Releases, \* the versions that clients push, that the
               \* console has pulled, and that are released
    Signed,    \* those with a signature for this board
    Cells,     \* the cells of an image
    Conns,     \* HTTP connections
    Waivers,   \* what the console waives: sets of "unsigned" and "downgrade"
    MaxFaults  \* bound: flash operations that fail

ASSUME UpdateAssumption ==
    /\ {Factory} \cup Pushed \cup Pulled \cup Releases \subseteq Nat \ {0}
    /\ Cells \in Nat \ {0, 1} /\ MaxFaults \in Nat
    /\ Waivers \subseteq SUBSET {"unsigned", "downgrade"}

VARIABLES
    slot,    \* what the slots hold: their cells, 0 for none, and the trial flag
    run,     \* the slot that the running image booted from
    pending, \* it is on trial: buy_pending
    up,      \* the transfer: update.c's `up`
    http,    \* the uploads of the HTTP connections
    pull,    \* the download of ota_pull.c
    busy,    \* ota_pull.c's busy
    latest,  \* the newest release known, 0 for none
    auto,    \* the automatic installs: skip and tried, in RAM and in flash
    trying, noted, \* update_check.c's, tried_noted
    faults,
    owner,   \* history: who began the transfer
    undone   \* history: the noted versions that did not stay, until they do: the last one
             \* (0 for none) and the others before it

net_vars == <<http, pull, busy>>
boot_vars == <<run, pending>>
auto_vars == <<latest, auto, trying, noted>>
vars == <<slot, boot_vars, up, net_vars, auto_vars, faults, owner, undone>>

Slots == {"A", "B"}
Versions == Pushed \cup Pulled \cup Releases \cup {Factory}
Empty == [cells |-> [i \in 1..Cells |-> 0], trial |-> FALSE]
Running == slot[run].cells[1]
Whole(s) == s.cells[1] # 0 /\ \A i \in 1..Cells : s.cells[i] = s.cells[1]

------------------------------------------------------------------------------
(* The transport core.  Its operations take the transfer and the slots and *)
(* return them with the outcome; f is what the flash does: "good", "bad"   *)
(* (it reads back otherwise) or "fails" (nothing is written).              *)

NoTransfer == [active |-> FALSE, stale |-> FALSE, allow |-> {}, fmt |-> "unknown", placed |-> <<>>,
               target |-> "B", reboot |-> FALSE, ver |-> 0]

Here == [ok |-> TRUE, up |-> up, slot |-> slot]

update_abort(d) == [d EXCEPT !.ok = FALSE, !.up.active = FALSE]

\* Mutant: always the second slot.
Target_b == "B"

\* flash_map_update_target(): the slot the running image did not boot from.
Target == CHOOSE s \in Slots : s # run

FlashOutcomes == IF faults < MaxFaults THEN {"good", "bad", "fails"} ELSE {"good"}

Refuses == (up.active /\ ~up.stale) \/ up.reboot \/ pending

\* update_begin(): the first sector of the target is erased at once.
update_begin(allow, f) ==
    IF Refuses THEN [Here EXCEPT !.ok = FALSE]
    ELSE [ok |-> f # "fails",
          up |-> [NoTransfer EXCEPT !.active = f # "fails", !.allow = allow, !.target = Target],
          slot |-> IF f = "fails" THEN slot ELSE [slot EXCEPT ![Target].cells[1] = 0]]

\* flash_sector(): one sector erased and programmed.
flash_sector(d, i, v, f) ==
    IF f = "fails" THEN update_abort(d)
    ELSE [d EXCEPT !.slot[d.up.target].cells[i] = IF f = "bad" THEN 0 ELSE v]

\* put_bytes(): the first cell is held back, the others are written.
put_bytes(d, v, f) ==
    LET at == Len(d.up.placed) + 1
        e == IF at = 1 THEN d ELSE flash_sector(d, at, v, f)
    IN  IF at > Cells THEN update_abort(d)
        ELSE IF ~e.ok THEN e ELSE [e EXCEPT !.up.placed = Append(@, v), !.up.stale = FALSE]

\* update_write() of cell i of image v.  The first cell decides the format;
\* in a UF2 stream a cell must be a frame, of the address that comes next.
update_write(v, i, f) ==
    LET fmt == IF up.fmt # "unknown" THEN up.fmt ELSE IF v \in Signed THEN "bin" ELSE "uf2"
        d == [Here EXCEPT !.up.fmt = fmt]
    IN  IF ~up.active THEN [Here EXCEPT !.ok = FALSE]
        ELSE IF fmt = "uf2" /\ (v \in Signed \/ i # Len(up.placed) + 1) THEN update_abort(d)
        ELSE put_bytes(d, v, f)

older(v) == v < Running

\* Mutant: the signature is only looked for.
Unfit_hash(u) ==
    LET sealed == u.fmt = "bin" /\ u.placed[Len(u.placed)] \in Signed
    IN  \/ u.fmt = "bin" /\ Len(u.placed) < Cells
        \/ ~sealed /\ "unsigned" \notin u.allow
        \/ Len(u.placed) < 2
        \/ older(u.placed[1]) /\ "downgrade" \notin u.allow

\* What update_finish() refuses before it writes the first sector: a short
\* raw image, a signature that does not fit, an image without one or an
\* older one unless the caller waived that.
Unfit(u) ==
    LET sealed == u.fmt = "bin" /\ u.placed[Len(u.placed)] \in Signed
    IN  \/ u.fmt = "bin" /\ Len(u.placed) < Cells
        \/ sealed /\ \E i \in DOMAIN u.placed : u.placed[i] # u.placed[Len(u.placed)]
        \/ ~sealed /\ "unsigned" \notin u.allow
        \/ Len(u.placed) < 2
        \/ older(u.placed[1]) /\ "downgrade" \notin u.allow

\* update_finish() on d: the first sector, flagged as a trial, goes last;
\* then all is read back.
update_finish(d, f) ==
    LET u == d.up
        e == flash_sector([d EXCEPT !.slot[u.target].trial = TRUE], 1, u.placed[1], f)
        same == \A i \in DOMAIN u.placed : e.slot[u.target].cells[i] = u.placed[i]
    IN  IF ~u.active THEN [d EXCEPT !.ok = FALSE]
        ELSE IF u.placed = <<>> \/ Unfit(u) THEN update_abort(d)
        ELSE IF f = "fails" THEN update_abort(d)
        ELSE IF ~same THEN update_abort(e)
        ELSE [e EXCEPT !.ok = TRUE, !.up.active = FALSE, !.up.ver = u.placed[1]]

update_schedule_reboot(d) == [d EXCEPT !.up.reboot = TRUE]

Becomes(d, f) ==
    /\ up' = d.up /\ slot' = d.slot
    /\ faults' = faults + (IF f = "good" THEN 0 ELSE 1)

Owner(who) == owner' = IF up'.active THEN who ELSE "none"

\* A transfer sends nothing for 30 s: another may take its place.
Stalls ==
    /\ up.active /\ ~up.stale /\ up' = [up EXCEPT !.stale = TRUE]
    /\ UNCHANGED <<slot, boot_vars, net_vars, auto_vars, faults, owner, undone>>

------------------------------------------------------------------------------
(* An upload over HTTP *)

Idle == [on |-> FALSE, img |-> Factory, at |-> 0]

\* update_post_start(): a new upload drops the connection of the one that
\* stalled.
HttpStart(c) == \E v \in Pushed, f \in FlashOutcomes :
    LET d == update_begin({}, f)
    IN  /\ ~http[c].on /\ Becomes(d, f)
        /\ http' = IF d.ok THEN [b \in Conns |-> IF b = c THEN [on |-> TRUE, img |-> v, at |-> 0]
                                                         ELSE Idle]
                           ELSE http
        /\ owner' = IF d.ok THEN c ELSE IF up'.active THEN owner ELSE "none"
        /\ UNCHANGED <<boot_vars, pull, busy, auto_vars, undone>>

\* update_feed_bytes() with update_complete() or update_fail(): a cell of
\* the body, and at its end the finish and the restart.
HttpFeed(c) == \E f \in FlashOutcomes, g \in FlashOutcomes :
    LET at == http[c].at + 1
        d == update_write(http[c].img, at, f)
        e == update_finish(d, g)
        last == d.ok /\ at = Cells
        r == IF last /\ e.ok THEN update_schedule_reboot(e)
             ELSE IF last THEN update_abort(e) ELSE IF d.ok THEN d ELSE update_abort(d)
    IN  /\ http[c].on /\ (f = "good" \/ g = "good") /\ (last \/ g = "good")
        /\ Becomes(r, IF f = "good" THEN g ELSE f)
        /\ http' = [http EXCEPT ![c] = IF r.ok /\ ~last THEN [@ EXCEPT !.at = at] ELSE Idle]
        /\ owner' = IF up'.active THEN owner ELSE "none"
        /\ UNCHANGED <<boot_vars, pull, busy, auto_vars, undone>>

\* conn_free(): the client closes the connection, or it is lost.
HttpDrop(c) ==
    /\ http[c].on /\ http' = [http EXCEPT ![c] = Idle]
    /\ Becomes(update_abort(Here), "good") /\ Owner("none")
    /\ UNCHANGED <<boot_vars, pull, busy, auto_vars, undone>>

------------------------------------------------------------------------------
(* A download *)

NoPull == [ph |-> "off", img |-> Factory, at |-> 0, failed |-> FALSE, allow |-> {}, marks |-> FALSE]

\* ota_pull_start(), of a callback (MQTT, the web page) or of the main loop
\* (the console, an automatic install).  The main loop sets busy only after
\* it let the callbacks run again.
pull_start(v, allow, main) ==
    /\ ~busy /\ pull.ph = "off"
    /\ pull' = [NoPull EXCEPT !.ph = "asked", !.img = v, !.allow = allow, !.marks = main]
    /\ busy' = ~main

PullStart ==
    /\ \/ \E v \in Pulled, allow \in Waivers : pull_start(v, allow, TRUE)
       \/ latest # 0 /\ pull_start(latest, {}, FALSE)
    /\ ~pull.marks
    /\ UNCHANGED <<slot, boot_vars, up, http, auto_vars, faults, owner, undone>>

PullMarks ==
    /\ pull.marks /\ busy' = TRUE /\ pull' = [pull EXCEPT !.marks = FALSE]
    /\ UNCHANGED <<slot, boot_vars, up, http, auto_vars, faults, owner, undone>>

PullOver == busy' = FALSE /\ pull' = [NoPull EXCEPT !.marks = pull.marks]

\* headers_cb(): the transfer begins, or the pull is refused and result_cb()
\* sees it aborted.
PullHeaders == \E f \in FlashOutcomes :
    LET d == update_begin(pull.allow, f)
    IN  /\ pull.ph = "asked"
        /\ Becomes(IF d.ok THEN d ELSE update_abort(d), f)
        /\ IF d.ok THEN pull' = [pull EXCEPT !.ph = "body"] /\ UNCHANGED busy ELSE PullOver
        /\ Owner("pull") /\ UNCHANGED <<boot_vars, http, auto_vars, undone>>

\* recv_cb(): once a write is refused the rest is read and dropped.
PullBody == \E f \in FlashOutcomes :
    LET d == IF pull.failed THEN Here ELSE update_write(pull.img, pull.at + 1, f)
    IN  /\ pull.ph = "body" /\ pull.at < Cells /\ (pull.failed => f = "good")
        /\ Becomes(d, f)
        /\ pull' = [pull EXCEPT !.at = @ + 1, !.failed = @ \/ ~d.ok]
        /\ owner' = IF up'.active THEN owner ELSE "none"
        /\ UNCHANGED <<boot_vars, http, busy, auto_vars, undone>>

\* result_cb(), of a download that ended well or of one that did not.
PullDone == \E f \in FlashOutcomes :
    LET e == update_finish(Here, f)
    IN  /\ pull.ph = "body" /\ pull.at = Cells /\ ~pull.failed
        /\ Becomes(IF e.ok THEN update_schedule_reboot(e) ELSE e, f)
        /\ PullOver /\ owner' = IF up'.active THEN owner ELSE "none"
        /\ UNCHANGED <<boot_vars, http, auto_vars, undone>>

PullFails ==
    /\ pull.ph # "off" /\ PullOver
    /\ Becomes(IF pull.failed THEN Here ELSE update_abort(Here), "good")
    /\ owner' = IF up'.active THEN owner ELSE "none"
    /\ UNCHANGED <<boot_vars, http, auto_vars, undone>>

------------------------------------------------------------------------------
(* What is known and installed by itself *)

\* update_latest_offer(), from the daily check or from an MQTT message.
Offer(v) ==
    /\ v > latest /\ latest' = v
    /\ UNCHANGED <<slot, boot_vars, up, net_vars, auto, trying, noted, faults, owner, undone>>

\* update_auto_decide(), but for the time: that comes sooner or later.
MayInstall == latest > Running /\ latest # auto.ram.skip

\* update_auto_poll() before a restart into a new image: it is noted which.
AutoNotes == \E f \in FlashOutcomes \ {"bad"} :
    /\ up.reboot /\ ~noted /\ noted' = TRUE
    /\ LET ram == [auto.ram EXCEPT !.tried = up.ver]
       IN  auto' = [ram |-> ram, flash |-> IF f = "good" THEN ram ELSE auto.flash]
    /\ faults' = faults + (IF f = "good" THEN 0 ELSE 1)
    /\ UNCHANGED <<slot, boot_vars, up, net_vars, latest, trying, owner, undone>>

\* update_auto_poll() otherwise.
AutoPoll ==
    /\ ~up.reboot /\ ~pull.marks /\ ~(trying /\ busy)
    /\ IF ~pending /\ ~up.active /\ ~busy /\ MayInstall
         THEN pull_start(latest, {}, TRUE) /\ trying' = TRUE
         ELSE trying /\ trying' = FALSE /\ UNCHANGED <<pull, busy>>
    /\ UNCHANGED <<slot, boot_vars, up, http, latest, auto, noted, faults, owner, undone>>

\* Mutant: only the mark is cleared.
settle_forgets(s, v) == [s EXCEPT !.tried = 0]

\* update_auto_settle() on the settings s, as the image v runs.
settle(s, v) ==
    IF s.tried = 0 THEN s ELSE [skip |-> IF s.tried = v THEN s.skip ELSE s.tried, tried |-> 0]

NoneUndone == [last |-> 0, before |-> {}]

\* update_auto_skip(): the owner skips the version known.
UserSkips ==
    /\ latest > Running /\ auto.ram.skip # latest
    /\ auto' = [auto EXCEPT !.ram.skip = latest] /\ undone' = NoneUndone
    /\ UNCHANGED <<slot, boot_vars, up, net_vars, latest, trying, noted, faults, owner>>

\* settings_save_poll(), once there is something to save.  An image on
\* trial keeps what it saves to itself until it is committed.
SettingsSaved ==
    /\ ~pending /\ auto.flash # auto.ram /\ auto' = [auto EXCEPT !.flash = auto.ram]
    /\ UNCHANGED <<slot, boot_vars, up, net_vars, latest, trying, noted, faults, owner, undone>>

------------------------------------------------------------------------------
(* Restarts *)

\* The bootrom's choice: of the slots with an image that is not on trial
\* one with the highest version.
Bootable(s) == slot[s].cells[1] # 0 /\ ~slot[s].trial
Bootables == {s \in Slots : Bootable(s) /\
              \A t \in Slots : Bootable(t) => slot[t].cells[1] <= slot[s].cells[1]}

\* main() from the start, with the image of slot s.
Start(s, on_trial) ==
    LET v == slot[s].cells[1]
    IN  /\ run' = s /\ pending' = on_trial
        /\ auto' = [auto EXCEPT !.ram = IF on_trial THEN auto.flash ELSE settle(auto.flash, v)]
        /\ undone' = IF on_trial \/ auto.flash.tried \in {0, v} THEN undone
                     ELSE [last |-> auto.flash.tried,
                           before |-> (undone.before \cup {undone.last}) \ {0, auto.flash.tried}]
        /\ up' = NoTransfer /\ http' = [c \in Conns |-> Idle] /\ pull' = NoPull /\ busy' = FALSE
        /\ latest' = 0 /\ trying' = FALSE /\ noted' = FALSE /\ owner' = "none"
        /\ UNCHANGED <<slot, faults>>

\* The power, the watchdog, a restart that was asked for or the deadline of
\* a trial: the bootrom skips an image on trial.
Restart == \E s \in Bootables : Start(s, FALSE)

\* update_reboot_now(), a second after the transfer: the bootrom takes the
\* slot that was written.
RebootIntoUpdate ==
    /\ up.reboot /\ noted
    /\ IF slot[up.target].cells[1] # 0 THEN Start(up.target, slot[up.target].trial)
                                       ELSE Restart

\* The trial has been healthy for 10 s: flash_map_commit_update() with the
\* bootrom's purchase, which erases an image with a higher version.
Commit ==
    /\ pending /\ pending' = FALSE
    /\ slot' = [s \in Slots |->
         IF s = run THEN [slot[s] EXCEPT !.trial = FALSE]
         ELSE IF slot[s].cells[1] > Running THEN [slot[s] EXCEPT !.cells[1] = 0] ELSE slot[s]]
    /\ auto' = [auto EXCEPT !.ram = settle(auto.ram, Running)]
    /\ undone' = [last |-> IF undone.last = Running THEN 0 ELSE undone.last,
                  before |-> undone.before \ {Running}]
    /\ UNCHANGED <<run, up, net_vars, latest, trying, noted, faults, owner>>

------------------------------------------------------------------------------
(* The specification *)

Init ==
    /\ slot = [s \in Slots |->
                 IF s = "A" THEN [cells |-> [i \in 1..Cells |-> Factory], trial |-> FALSE]
                 ELSE Empty]
    /\ run = "A" /\ pending = FALSE /\ up = NoTransfer
    /\ http = [c \in Conns |-> Idle] /\ pull = NoPull /\ busy = FALSE
    /\ latest = 0 /\ auto = [ram |-> [skip |-> 0, tried |-> 0], flash |-> [skip |-> 0, tried |-> 0]]
    /\ trying = FALSE /\ noted = FALSE /\ faults = 0 /\ owner = "none" /\ undone = NoneUndone

HttpNext == \E c \in Conns : HttpStart(c) \/ HttpFeed(c) \/ HttpDrop(c)
PullNext == PullStart \/ PullMarks \/ PullHeaders \/ PullBody \/ PullDone \/ PullFails
AutoNext == (\E v \in Releases : Offer(v)) \/ AutoNotes \/ AutoPoll \/ UserSkips \/ SettingsSaved
BootNext == Restart \/ RebootIntoUpdate \/ Commit

Next == Stalls \/ HttpNext \/ PullNext \/ AutoNext \/ BootNext

Spec == Init /\ [][Next]_vars

------------------------------------------------------------------------------
(* Properties *)

SkipMarks == [skip : Versions \cup {0}, tried : Versions \cup {0}]

\* The variables keep their types: never more cells than an image has, and
\* only versions that exist are noted.
TypeOK ==
    /\ slot \in [Slots -> [cells : [1..Cells -> Versions \cup {0}], trial : BOOLEAN]]
    /\ run \in Slots /\ pending \in BOOLEAN
    /\ up.active \in BOOLEAN /\ up.stale \in BOOLEAN
    /\ up.allow \in SUBSET {"unsigned", "downgrade"} /\ up.fmt \in {"unknown", "bin", "uf2"}
    /\ up.placed \in Seq(Versions) /\ Len(up.placed) <= Cells
    /\ up.target \in Slots /\ up.reboot \in BOOLEAN /\ up.ver \in Versions \cup {0}
    /\ http \in [Conns -> [on : BOOLEAN, img : Versions, at : 0..Cells]]
    /\ pull.ph \in {"off", "asked", "body"} /\ pull.img \in Versions /\ pull.at \in 0..Cells
    /\ pull.failed \in BOOLEAN /\ pull.marks \in BOOLEAN /\ busy \in BOOLEAN
    /\ latest \in Releases \cup {0} /\ auto \in [ram : SkipMarks, flash : SkipMarks]
    /\ trying \in BOOLEAN /\ noted \in BOOLEAN /\ faults \in 0..MaxFaults
    /\ owner \in Conns \cup {"none", "pull"}
    /\ undone.last \in Versions \cup {0} /\ undone.before \subseteq Versions

\* Whenever the power goes there is a whole image, not on trial, that the
\* bootrom takes: an update never touches the image it would fall back to,
\* and what it leaves behind half-written is never chosen.
FallsBackWhole == Bootables # {} /\ \A s \in Bootables : Whole(slot[s])

\* The image that a restart goes into, or that runs, is one that somebody
\* sent whole: never parts of two transfers, however they interrupt each
\* other, and never one that the flash did not take.
RunsWhole == Whole(slot[run]) /\ (up.reboot => Whole(slot[up.target]))

\* The version that was noted, restarted into and rolled back last is not
\* installed by itself again, unless the owner skips another one instead.
RolledBackStays == [][trying' /\ ~trying => latest # undone.last]_vars

\* What update_auto.h:16 says of every such version.  One skip is kept, and
\* the next version rolled back takes it, so this does not hold.
EverySkipped == [][trying' /\ ~trying => latest \notin undone.before \cup {undone.last}]_vars

\* A transfer that has not stalled ends by its own end, its own client's
\* leaving or a restart: nobody else's doing aborts it.
OthersLetItBe ==
    [][(owner \in Conns /\ ~up.stale /\ ~up'.active) => ~(http'[owner].on)]_vars

================================================================================
