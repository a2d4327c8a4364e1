----------------------------------- MODULE Mqtt ------------------------------------
(***************************************************************************)
(* The link to the MQTT broker (mqtt.c, mqtt_tls.c): a connection that is  *)
(* made again when it is lost, when nothing gets out or when the settings  *)
(* of the link change; then the command topics, one per SUBACK; then every *)
(* entity Home Assistant should know, one per PUBACK, which starts over    *)
(* when a label changes and in part when a slot's blade does.  mqtt_poll() *)
(* holds lwIP's lock, so callbacks fall between two of its calls.          *)
(***************************************************************************)
EXTENDS Integers

CONSTANTS
    NUM_PORTS, N_SUBS, STALL_CYCLES,
    Labels,   \* what the ports may be called
    TlsModes, \* of {"off", "unverified", "verified", "blocked"}: the last is verified with
              \* no certificate to trust
    MidRun,   \* a slot's blade may change while entities are announced
    AtOnce    \* the blades of several slots may change between two telemetries

ASSUME MqttAssumption ==
    /\ {NUM_PORTS, N_SUBS, STALL_CYCLES} \subseteq Nat \ {0} /\ {MidRun, AtOnce} \subseteq BOOLEAN
    /\ Labels # {} /\ Labels \cap {"stale", "gone", "fixed"} = {}
    /\ TlsModes \subseteq {"off", "unverified", "verified", "blocked"} /\ TlsModes # {}

VARIABLES
    mq,     \* state, reconnect_wanted, discovery_idx, discovery_end, disc_inflight,
            \* temp_disc, sub_idx, sub_inflight, stalled_cycles; tls: what the connection was
            \* made with; wire: the config that is under way
    joined, \* lwIP has the connection
    labels, tls, clock, \* g_settings and the clock
    port_gen, \* the blades' generations as of the last telemetry: 0 is unknown
    broker  \* the config it keeps of each entity

mqtt_vars == <<mq, joined, labels, tls, clock, port_gen, broker>>

Bays == 1..NUM_PORTS
PORT_ENTITIES == 3  \* one that carries the label, then the two thermometers
PORT_TEMP_FIRST == 1
N_DISCOVERY == NUM_PORTS * PORT_ENTITIES + 1

PortOf(i) == i \div PORT_ENTITIES + 1
TempAt(i) == i % PORT_ENTITIES >= PORT_TEMP_FIRST
OfPort(i) == i < NUM_PORTS * PORT_ENTITIES

------------------------------------------------------------------------------
(* Discovery *)

\* What is published of an entity.  An entity of a port carries the port's
\* label; nothing is known of the thermometers of an empty slot.
PortConfig == {labels}
TempConfig(gen) == IF gen = 3 THEN {labels} ELSE IF gen = 2 THEN {"gone"} ELSE {}
ChassisConfig == {"fixed"}

Config(i, gens) ==
    IF ~OfPort(i) THEN ChassisConfig
    ELSE IF TempAt(i) THEN TempConfig(gens[PortOf(i)]) ELSE PortConfig

\* discovery_step(): one that lwIP refuses is sent again.
discovery_step(m, took) ==
    LET i == m.idx
        sends == Config(i, port_gen) # {}
        noted == IF OfPort(i) /\ TempAt(i)
                 THEN [m EXCEPT !.temp[PortOf(i)] = port_gen[PortOf(i)]] ELSE m
    IN  IF m.inflight \/ i >= m.end THEN m
        ELSE [noted EXCEPT !.idx = IF sends /\ ~took THEN i ELSE i + 1,
                           !.inflight = sends /\ took,
                           !.wire = IF sends /\ took THEN {<<i, c>> : c \in Config(i, port_gen)}
                                    ELSE {}]

\* temp_discovery_check(): once the run is over, the thermometers of the first
\* slot whose blade is another.
Restless(m, gens) == {s \in Bays : gens[s] # 0 /\ gens[s] # m.temp[s]}
temp_discovery_check(m, gens) ==
    IF m.idx < m.end \/ Restless(m, gens) = {} THEN m
    ELSE LET s == CHOOSE s \in Restless(m, gens) : \A t \in Restless(m, gens) : s <= t
             first == (s - 1) * PORT_ENTITIES + PORT_TEMP_FIRST
         IN  [m EXCEPT !.idx = first, !.end = first + 2]

------------------------------------------------------------------------------
(* The connection *)

\* try_connect(): it may fail at once, for want of memory or of a certificate
\* that parses.
try_connect(m) ==
    {[m EXCEPT !.state = "backoff"], [m EXCEPT !.state = "connecting", !.tls = {tls}]}

\* ST_IDLE: the connection about to be made reads the settings.
Attempt ==
    /\ mq.state = "idle"
    /\ LET m == [mq EXCEPT !.reconnect = FALSE]
       IN  \/ mq' = m
           \/ /\ tls # "blocked" /\ (tls = "verified" => clock)
              /\ mq' \in try_connect(m)
                   \cup {[m EXCEPT !.state = "resolving"], [m EXCEPT !.state = "backoff"]}
    /\ UNCHANGED <<joined, labels, tls, clock, port_gen, broker>>

dns_cb ==
    /\ mq.state = "resolving" /\ mq' \in try_connect(mq) \cup {[mq EXCEPT !.state = "backoff"]}
    /\ UNCHANGED <<joined, labels, tls, clock, port_gen, broker>>

\* connection_cb(): a link that comes up announces everything.
Accepted ==
    /\ mq.state = "connecting" /\ joined' = TRUE
    /\ mq' = [mq EXCEPT !.state = "up", !.idx = 0, !.end = N_DISCOVERY, !.temp = [s \in Bays |-> 0],
                        !.inflight = FALSE, !.wire = {}, !.sub_idx = 0, !.sub_inflight = FALSE]
    /\ UNCHANGED <<labels, tls, clock, port_gen, broker>>

\* What the broker keeps once it has what is under way.
Kept(m) == [i \in DOMAIN broker |-> IF \E w \in m.wire : w[1] = i
                                    THEN (CHOOSE w \in m.wire : w[1] = i)[2] ELSE broker[i]]

\* The connection ends: what is under way arrives or does not.
Dropped(m) == [m EXCEPT !.state = "backoff", !.wire = {}]
Ends(m) == joined' = FALSE /\ broker' \in {broker, Kept(m)}

Lost ==
    /\ mq.state = "connecting" \/ (mq.state = "up" /\ joined)
    /\ mq' = Dropped(mq) /\ Ends(mq)
    /\ UNCHANGED <<labels, tls, clock, port_gen>>

\* ST_BACKOFF, once its time is over.
Backoff ==
    /\ mq.state = "backoff" /\ mq' = [mq EXCEPT !.state = "idle"]
    /\ UNCHANGED <<joined, labels, tls, clock, port_gen, broker>>

\* ST_UP: the settings of the link have changed.
Reconnect ==
    /\ mq.state = "up" /\ mq.reconnect
    /\ mq' = [Dropped(mq) EXCEPT !.reconnect = FALSE] /\ Ends(mq)
    /\ UNCHANGED <<labels, tls, clock, port_gen>>

\* subscribe_step()
subscribe_step(m, took) ==
    IF m.sub_inflight \/ m.sub_idx >= N_SUBS \/ ~took THEN m
    ELSE [m EXCEPT !.sub_idx = @ + 1, !.sub_inflight = TRUE]

subscribed(m) == m.sub_idx >= N_SUBS /\ ~m.sub_inflight

\* publish_telemetry(), when it is due: some of it gets out, or all is refused.
Telemetry == {"not due", "out", "refused"}

\* The blades' generations that the snapshot may tell of.
Told == [Bays -> {0, 2, 3}]

\* The rest of ST_UP.  Telemetry, when it is due, tells which blade a slot holds.
\* When all of it has been refused for a while, the link is dropped.
Work ==
    /\ mq.state = "up" /\ ~mq.reconnect
    /\ \E sub, disc \in BOOLEAN, telemetry \in Telemetry :
         LET m1 == subscribe_step(mq, sub)
             m2 == IF subscribed(m1) THEN discovery_step(m1, disc) ELSE m1
             stuck == telemetry = "refused" /\ m2.stalled + 1 = STALL_CYCLES
         IN  IF telemetry = "not due" THEN mq' = m2 /\ UNCHANGED <<joined, port_gen, broker>>
             ELSE \E gens \in Told :
                    /\ gens = port_gen \/ MidRun \/ (m2.idx >= m2.end /\ ~m2.inflight)
                    /\ AtOnce \/ \E s \in Bays : \A t \in Bays \ {s} : gens[t] = port_gen[t]
                    /\ port_gen' = gens
                    /\ LET m3 == [temp_discovery_check(m2, gens) EXCEPT
                                    !.stalled = IF telemetry = "out" \/ stuck THEN 0 ELSE @ + 1]
                       IN  IF stuck THEN mq' = Dropped(m3) /\ Ends(m2)
                           ELSE mq' = m3 /\ UNCHANGED <<joined, broker>>
    /\ UNCHANGED <<labels, tls, clock>>

------------------------------------------------------------------------------
(* Answers of the broker: only while lwIP has the connection *)

sub_cb ==
    /\ joined /\ mq.sub_inflight
    /\ \E ok \in BOOLEAN :
         mq' = [mq EXCEPT !.sub_inflight = FALSE, !.sub_idx = IF ok THEN @ ELSE @ - 1]
    /\ UNCHANGED <<joined, labels, tls, clock, port_gen, broker>>

\* Mutant: a config that was never acknowledged counts as sent.
discovery_cb_any ==
    /\ joined /\ mq.inflight
    /\ mq' = [mq EXCEPT !.inflight = FALSE, !.wire = {}]
    /\ broker' \in {broker, Kept(mq)}
    /\ UNCHANGED <<joined, labels, tls, clock, port_gen>>

\* The PUBACK of the config that is under way, or no answer in time.
discovery_cb ==
    /\ joined /\ mq.inflight
    /\ \E ok \in BOOLEAN :
         /\ mq' = [mq EXCEPT !.inflight = FALSE, !.wire = {},
                             !.idx = IF ~ok /\ @ > 0 THEN @ - 1 ELSE @]
         /\ broker' \in IF ok THEN {Kept(mq)} ELSE {broker, Kept(mq)}
    /\ UNCHANGED <<joined, labels, tls, clock, port_gen>>

------------------------------------------------------------------------------
(* The settings *)

\* mqtt_names_changed()
mqtt_names_changed ==
    /\ labels' \in Labels \ {labels}
    /\ mq' = IF mq.state = "up" THEN [mq EXCEPT !.idx = 0, !.end = N_DISCOVERY] ELSE mq
    /\ UNCHANGED <<joined, tls, clock, port_gen, broker>>

\* Mutant: a link that is being made is left alone.
mqtt_reconnect_up ==
    /\ tls' \in TlsModes \ {tls}
    /\ mq' = [mq EXCEPT !.reconnect = @ \/ mq.state = "up"]
    /\ UNCHANGED <<joined, labels, clock, port_gen, broker>>

\* The mode or the certificate changes: mqtt_reconnect().
mqtt_reconnect ==
    /\ tls' \in TlsModes \ {tls} /\ mq' = [mq EXCEPT !.reconnect = TRUE]
    /\ UNCHANGED <<joined, labels, clock, port_gen, broker>>

ClockSet ==
    /\ ~clock /\ clock' = TRUE
    /\ UNCHANGED <<mq, joined, labels, tls, port_gen, broker>>

MqttInit ==
    /\ mq = [state |-> "idle", reconnect |-> FALSE, idx |-> 0, end |-> 0, inflight |-> FALSE,
             temp |-> [s \in Bays |-> 0], sub_idx |-> 0, sub_inflight |-> FALSE, stalled |-> 0,
             tls |-> {}, wire |-> {}]
    /\ joined = FALSE /\ labels \in Labels /\ tls \in TlsModes /\ clock = FALSE
    /\ port_gen = [s \in Bays |-> 0] /\ broker = [i \in 0..(N_DISCOVERY - 1) |-> "stale"]

MqttNext ==
    \/ Attempt \/ dns_cb \/ Accepted \/ Lost \/ Backoff \/ Reconnect
    \/ Work \/ sub_cb \/ discovery_cb
    \/ mqtt_names_changed \/ mqtt_reconnect \/ ClockSet

MqttSpec == MqttInit /\ [][MqttNext]_mqtt_vars

------------------------------------------------------------------------------
(* Properties *)

\* The indices stay inside the table of entities and topics, whatever order
\* answers, changes and refusals come in.
MqttTypeOK ==
    /\ mq.state \in {"idle", "resolving", "connecting", "up", "backoff"}
    /\ mq.idx \in 0..N_DISCOVERY /\ mq.end \in 0..N_DISCOVERY /\ mq.sub_idx \in 0..N_SUBS
    /\ mq.stalled \in 0..(STALL_CYCLES - 1) /\ mq.tls \subseteq TlsModes
    /\ \A i \in DOMAIN broker : broker[i] \in Labels \cup {"stale", "gone", "fixed"}

\* A link that is up, or is being made, with other settings than the present
\* ones is going to be dropped (mqtt_reconnect: "drop the connection so the
\* next one, made right away, reads the new settings").
LinkFollowsSettings == mq.state \in {"connecting", "up"} => mq.tls = {tls} \/ mq.reconnect

\* When everything has been announced, the broker has the config of every
\* entity with the labels of now, and the thermometers of the slots that hold
\* a gen-3 blade and no others.
Announced == mq.state = "up" /\ mq.idx >= mq.end /\ ~mq.inflight /\ Restless(mq, port_gen) = {}
EntitiesAnnounced ==
    Announced => \A i \in DOMAIN broker : Config(i, port_gen) \subseteq {broker[i]}
================================================================================
