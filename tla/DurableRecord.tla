----------------------------- MODULE DurableRecord -----------------------------
(***************************************************************************)
(* What the settings store promises: one value that restarts find, changed *)
(* only by a save that lands in a single step, however many writes it took *)
(* (settings.h, and the comments of settings.c).  An image on trial has a  *)
(* value of its own, which its commit adopts and its revert forgets.       *)
(***************************************************************************)
CONSTANT Value

VARIABLES
    kept,   \* what the image that a restart starts would find
    tried,  \* {} or {what the image on trial would find}
    asked,  \* the values whose save is under way
    wiped   \* a factory reset has begun and no save has landed since

vars == <<kept, tried, asked, wiped>>

Init == kept \in Value /\ tried = {} /\ asked = {} /\ wiped = FALSE

\* An image on trial gives up what it saved last to save again.
Ask(v) ==
    /\ asked' = asked \cup {v} /\ UNCHANGED <<kept, wiped>>
    /\ IF tried = {} THEN UNCHANGED tried ELSE tried' \in {{w} : w \in Value}

\* A save that fails, or that the power cuts short, leaves what was there.
Drop == asked' \in SUBSET asked /\ UNCHANGED <<kept, tried, wiped>>

Land(v) ==
    /\ asked' = asked \ {v} /\ wiped' \in {wiped, FALSE}
    /\ IF tried = {} THEN kept' = v /\ UNCHANGED tried ELSE tried' = {v} /\ UNCHANGED kept

Try(v) == tried = {} /\ tried' = {v} /\ UNCHANGED <<kept, asked, wiped>>

\* The bootrom falls back when the power goes or the watchdog fires.
Revert == tried # {} /\ tried' = {} /\ asked' = {} /\ UNCHANGED <<kept, wiped>>

Adopt == tried # {} /\ asked = {} /\ kept' \in tried /\ tried' = {} /\ UNCHANGED <<asked, wiped>>

\* Nothing is promised from the start of a reset to the end of its save.
Wipe ==
    /\ wiped' = TRUE \/ (wiped /\ UNCHANGED wiped)
    /\ kept' \in Value /\ tried' \in {tried} \cup {{v} : v \in Value}
    /\ asked' \in SUBSET Value

Next ==
    \/ \E v \in Value : Ask(v) \/ Try(v)
    \/ \E v \in asked : Land(v)
    \/ Drop \/ Revert \/ Adopt \/ Wipe

Spec == Init /\ [][Next]_vars

================================================================================
