-------------------------------- MODULE Budget --------------------------------
(***************************************************************************)
(* The chassis power account (controller engine/budget.c).  Each port has a *)
(* reservation, and the account compares their sum with the chassis total. *)
(* Power is in whole watts, or in any coarser unit a model picks: only     *)
(* comparisons and differences are ever taken.                             *)
(*                                                                         *)
(* The operators take the reservations as a function of the port, so that  *)
(* a handler which reserves several times in one step can chain them.      *)
(***************************************************************************)
EXTENDS Integers

CONSTANTS
    NUM_PORTS,      \* the slots modelled; the chassis has 6
    BASE_RESERVE    \* BUDGET_BASE_RESERVE_MW: what every powered port holds

ASSUME PortsAssumption == NUM_PORTS \in 1..6
ASSUME BaseAssumption == BASE_RESERVE \in Nat \ {0}

Ports == 0..(NUM_PORTS - 1)

\* A sum over the six slots; a slot that is not modelled adds nothing.
At(f, i) == IF i \in Ports THEN f[i] ELSE 0
OverSlots(f) == At(f, 0) + At(f, 1) + At(f, 2) + At(f, 3) + At(f, 4) + At(f, 5)

budget_reserved(res) == OverSlots(res)

budget_headroom(res, total) ==
    IF budget_reserved(res) >= total THEN 0 ELSE total - budget_reserved(res)

\* Mutant: the other ports are forgotten.
budget_fits_alone(res, total, port, w) == w <= total

\* What budget_try_reserve() asks before it commits anything.
budget_fits(res, total, port, w) ==
    (budget_reserved(res) - res[port]) + w <= total

\* The part of the reservations that was granted on request, above the base
\* every powered port is given unasked.
Granted(res) ==
    OverSlots([i \in Ports |->
                 IF res[i] > BASE_RESERVE THEN res[i] - BASE_RESERVE ELSE 0])
================================================================================
