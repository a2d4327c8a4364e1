---------------------------- MODULE MCChassisLive -----------------------------
(* Values of the constants of ChassisLive that a cfg cannot write. *)
EXTENDS ChassisLive

SlotPrio == [i \in Ports |-> i]
AllSeated == {Ports}
NobodyOff == {{}}

AllGood == [ok |-> TRUE, cmds |-> TRUE, due |-> {}]
Outdated == [ok |-> TRUE, cmds |-> TRUE, due |-> {"rewrite"}]
BootsWrong == [ok |-> TRUE, cmds |-> TRUE, due |-> {"boot_opt"}]
CurrentIds == {AllGood}
UnsettledIds == {Outdated, BootsWrong}

\* Two chassis in one run, told apart by their budget: a tight one whose
\* devices come, ask and are pulled with their slots, and a roomy one whose
\* blades are never as wanted while a trial image may be committed.  (The tight
\* one has no image on trial.)
Tight == 6
Roomy == 20

InTight == INSTANCE ChassisLive WITH
    Totals <- {Tight}, Found <- {"GEN_2"}, Identities <- CurrentIds,
    Events <- {"attach", "unseat"}, UPDATE_ROUNDS_MAX <- 1

InRoomy == INSTANCE ChassisLive WITH
    Totals <- {Roomy}, Found <- {"GEN_3", "LOADER"}, Identities <- UnsettledIds,
    Events <- {"commit"}

EitherInit == ((InTight!Init /\ ~hold_updates) \/ InRoomy!Init) /\ step = "other"

EitherNext ==
    \/ total = Tight /\ InTight!LiveNext
    \/ total = Roomy /\ InRoomy!LiveNext

EitherSpec == EitherInit /\ [][EitherNext]_live_vars /\ Fairness
================================================================================
