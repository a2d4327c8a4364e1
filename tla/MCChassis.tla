------------------------------ MODULE MCChassis -------------------------------
(* Values of the constants of Chassis that a cfg cannot write. *)
EXTENDS Chassis

\* Two peers over one weaker port that has its tick first; a strict order.
PeersPrio == [i \in Ports |-> IF i = 0 THEN 1 ELSE 0]
SlotPrio == [i \in Ports |-> i]

AllSeated == {Ports}
NobodyOff == {{}}
OneOff == {{}, {0}}

AllGood == [ok |-> TRUE, cmds |-> TRUE, due |-> {}]
Outdated == [ok |-> TRUE, cmds |-> TRUE, due |-> {"rewrite"}]
BootsWrong == [ok |-> TRUE, cmds |-> TRUE, due |-> {"boot_opt"}]
CurrentIds == {AllGood}
TwoIds == {AllGood, Outdated}
UnsettledIds == {Outdated, BootsWrong}
================================================================================
