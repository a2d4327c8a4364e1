-------------------------------- MODULE MCManage --------------------------------
(***************************************************************************)
(* Core 0 and its network: the update of the controller, the main loop with*)
(* the queues to core 1, the broker link and the log sink; and the fan that*)
(* core 1 drives.  A behaviour is one of them, so that their states add up *)
(* instead of multiplying.                                                 *)
(***************************************************************************)
EXTENDS Update, MainLoop, Mqtt, LogShip, Fan

VARIABLE subject \* "update", "loop", "broker", "log" or "fan"

Moves == {{"bus", "port"}, {"dim", "bright", "flags"}, {"hold", "budget"}, {"port", "ask"}}
Texts == {<<"n">>, <<"c", "n">>, <<"c", "c", "c", "n">>}

\* Bound: uploads come while no release is known.  An upload still meets
\* downloads, those that the console asks for.
Apart == latest' = 0 \/ \A c \in Conns : ~http'[c].on

ManageInit ==
    /\ subject \in {"update", "loop", "broker", "log", "fan"}
    /\ Init /\ MainInit /\ MqttInit /\ ShipInit /\ FanInit
    /\ subject # "loop" => world.scene = {"bus", "port"} /\ world.bus = "fine"
                           /\ world.flags = "fine" /\ conf.level = 100 /\ conf.budget = 200
    /\ subject # "broker" => labels = "old" /\ tls = "off"
    /\ subject # "log" => host = "h1"
    /\ subject # "fan" => fan.auto

ManageNext ==
    /\ UNCHANGED subject
    /\ \/ /\ subject = "update" /\ Next /\ Apart
          /\ UNCHANGED <<main_vars, mqtt_vars, ship_vars, fan_vars>>
       \/ subject = "loop" /\ MainNext /\ UNCHANGED <<vars, mqtt_vars, ship_vars, fan_vars>>
       \/ subject = "broker" /\ MqttNext /\ UNCHANGED <<vars, main_vars, ship_vars, fan_vars>>
       \/ subject = "log" /\ ShipNext /\ UNCHANGED <<vars, main_vars, mqtt_vars, fan_vars>>
       \/ subject = "fan" /\ FanNext /\ UNCHANGED <<vars, main_vars, mqtt_vars, ship_vars>>

ManageSpec ==
    ManageInit /\ [][ManageNext]_<<subject, vars, main_vars, mqtt_vars, ship_vars, fan_vars>>

================================================================================
