------------------------------- MODULE MCStorage -------------------------------
(***************************************************************************)
(* What the controller keeps in flash: the settings record and the fault   *)
(* log.  They share nothing but the power that goes: a behaviour is one of *)
(* either, so that their states add up instead of multiplying.             *)
(***************************************************************************)
EXTENDS SettingsStore, FaultLog

VARIABLE subject \* "settings" or "log"

\* The places in a save of the main loop where a callback does no harm.
Polite == {<<"later", "idle">>, <<"later", "copied">>, <<"post", "idle">>}

StorageInit ==
    /\ subject \in {"settings", "log"} /\ Init /\ LogInit
    /\ subject = "log" => saved = {Defaults} /\ ~migrate

StorageNext ==
    /\ UNCHANGED subject
    /\ \/ subject = "settings" /\ Next /\ UNCHANGED log_vars
       \/ subject = "log" /\ LogNext /\ UNCHANGED store_vars

StorageSpec == StorageInit /\ [][StorageNext]_<<subject, store_vars, log_vars>>

================================================================================
