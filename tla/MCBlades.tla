-------------------------------- MODULE MCBlades --------------------------------
(***************************************************************************)
(* A gen-3 blade: its way through the ROM bootloader, and the firmware that*)
(* is started there; and the bus on which the controller reaches it.  A    *)
(* behaviour is one of the bootloader, one of the firmware where parts     *)
(* fail, one where nothing does and the offer changes, or one of the bus,  *)
(* so that their states add up instead of multiplying.                     *)
(***************************************************************************)
EXTENDS BladeLoader, Blade, Backplane

VARIABLE subject \* "loader", "faults", "offers" or "bus"

On(w, mv) == [port_en |-> TRUE, max_w |-> w, max_mv |-> mv]
Powers == {On(60, 9000), On(18, 9000)}
Caps == {On(100, 15000), On(100, 20000)}

BladesInit ==
    /\ subject \in {"loader", "faults", "offers", "bus"}
    /\ LoaderInit /\ BladeInit /\ BackplaneInit
    /\ subject # "loader" => flash = CHOOSE image_before \in Contents : TRUE

\* Bound: where parts fail, one configuration and the plain cable.
OneOffer ==
    /\ image'.max_w # 18 /\ limits'.cable_ma = 3000
    /\ \A i \in DOMAIN cmds' : cmds'[i] \in {"CLEAR_FAULTS", "RESET"}

\* Bound: where offers change, the slot stays on and the parts do as told.
NoFault ==
    /\ (en_pin => en_pin') /\ ~alerting' /\ ~pw'.trip
    /\ pw'.vbus_on => pw'.gate /\ pw'.oe /\ pw'.vout = pw'.setpoint
    /\ \A i \in DOMAIN cmds' : cmds'[i] \in {"SRC_CAP", "HARD_RESET"}

BladesNext ==
    /\ UNCHANGED subject
    /\ \/ subject = "loader" /\ LoaderNext /\ UNCHANGED <<blade_vars, backplane_vars>>
       \/ /\ subject = "faults" /\ BladeNext /\ OneOffer
          /\ UNCHANGED <<loader_vars, backplane_vars>>
       \/ /\ subject = "offers" /\ BladeNext /\ NoFault
          /\ UNCHANGED <<loader_vars, backplane_vars>>
       \/ subject = "bus" /\ BackplaneNext /\ UNCHANGED <<loader_vars, blade_vars>>

BladesSpec ==
    BladesInit /\ [][BladesNext]_<<subject, loader_vars, blade_vars, backplane_vars>>

================================================================================
