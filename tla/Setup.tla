----------------------------------- MODULE Setup -----------------------------------
(***************************************************************************)
(* First-time setup: Wi-Fi credentials over Bluetooth (improv.c) with the  *)
(* network they are for (net.c), and the doors through which the first API *)
(* token gets in (http.c).  BTstack and lwIP call back in one context that *)
(* improv_poll() locks out; it acts on what they noted, and saves after it *)
(* has let go of the lock.  The passing of time is a choice.               *)
(***************************************************************************)
EXTENDS Integers

CONSTANTS
    Networks, \* whose credentials are sent; "none" is not one
    Subscribed,    \* what the client subscribes to, of {"state", "error", "result"}
    Meddles   \* the web page sets credentials while a join is tried

VARIABLES
    imp,   \* improv.c: open (window_open), reason, inhibit, state, error, req (req_creds),
           \* attempt, closing (close_at_ms); left (attempt_left_old_net) and prev, while a
           \* join is tried; owe: do_save
    ble,   \* con, en (notify_en), pending; asked: CAN_SEND_NOW will come
    creds, \* g_settings.wifi_*
    saved, \* the credentials in flash
    radio, \* on: the network joined; want: the one to join; refused: its answer
    eth,   \* the wired link is up
    door   \* wifi, eth: the windows are open; token: one is stored

setup_vars == <<imp, ble, creds, saved, radio, eth, door>>

Up == eth \/ radio.on # "none"

------------------------------------------------------------------------------
(* The network *)

\* start_connect()
start_connect(r, net) == [r EXCEPT !.want = net, !.refused = FALSE]

\* net_reconnect(): the network is left, soon or at once, or the driver never
\* starts the join and stays where it is (bound: with no other join under way).
net_reconnect(r, net) ==
    IF net = "none" THEN {r}
    ELSE {start_connect([r EXCEPT !.on = "none"], net), start_connect(r, net)}
         \cup IF r.on # "none" /\ r.on = r.want THEN {r} ELSE {}

\* net_poll(): a link that is down is tried again.
net_poll ==
    /\ creds # "none" /\ radio.on = "none"
    /\ radio' = start_connect(radio, creds)
    /\ UNCHANGED <<imp, ble, creds, saved, eth, door>>

\* The radio joins, is refused or loses its network.  Bound: a link that the
\* driver did not leave stays up while a join is tried.
Driver ==
    /\ \/ radio.on = "none" /\ radio.want # "none" /\ ~radio.refused
          /\ radio' \in {[radio EXCEPT !.on = radio.want], [radio EXCEPT !.refused = TRUE]}
       \/ radio.on # "none" /\ (radio.on # radio.want \/ ~imp.attempt)
          /\ radio' = [radio EXCEPT !.on = "none"]
    /\ UNCHANGED <<imp, ble, creds, saved, eth, door>>

Cable ==
    /\ eth' = ~eth
    /\ UNCHANGED <<imp, ble, creds, saved, radio, door>>

------------------------------------------------------------------------------
(* Notifications *)

queue_notify(b, bits) == [b EXCEPT !.pending = @ \cup bits, !.asked = @ \/ b.con]

\* set_state(), set_error(): what does not change is not told.
StateBits(i, state) == IF i.state = state THEN {} ELSE {"state"}
ErrorBits(i, error) == IF i.error = error THEN {} ELSE {"error"}

\* send_pending(): the result goes before the state.
First(bits) ==
    IF "result" \in bits THEN "result" ELSE IF "state" \in bits THEN "state" ELSE "error"

send_pending ==
    /\ ble.con /\ ble.asked
    /\ LET due == ble.pending \cap ble.en
           bit == First(due)
       IN  ble' = IF due = {} THEN [ble EXCEPT !.pending = {}, !.asked = FALSE]
                  ELSE [ble EXCEPT !.pending = due \ {bit}, !.asked = due # {bit}]
    /\ UNCHANGED <<imp, creds, saved, radio, eth, door>>

\* packet_handler(): a client connects while the window is open, or goes.
NoClient == [con |-> FALSE, en |-> {}, pending |-> {}, asked |-> FALSE]
Connected ==
    /\ imp.open /\ ~ble.con /\ ble' = [NoClient EXCEPT !.con = TRUE]
    /\ UNCHANGED <<imp, creds, saved, radio, eth, door>>
Disconnected ==
    /\ ble.con /\ ble' = NoClient
    /\ UNCHANGED <<imp, creds, saved, radio, eth, door>>

\* att_write_cb(): the client subscribes to a characteristic or no longer does.
Subscribe(bit) ==
    /\ ble.con
    /\ \E en \in {ble.en \cup {bit}, ble.en \ {bit}} :
          ble' = [ble EXCEPT !.en = en, !.asked = @ \/ ble.pending \cap en # {}]
    /\ UNCHANGED <<imp, creds, saved, radio, eth, door>>

\* process_rpc(): credentials, one attempt at a time; to identify; or nonsense.
process_rpc ==
    /\ ble.con
    /\ \/ \E net \in Networks :
             IF imp.attempt \/ imp.closing THEN UNCHANGED <<imp, ble>>
             ELSE /\ imp' = [imp EXCEPT !.req = net, !.error = FALSE]
                  /\ ble' = queue_notify(ble, ErrorBits(imp, FALSE))
       \/ \E error \in BOOLEAN :
             imp' = [imp EXCEPT !.error = error] /\ ble' = queue_notify(ble, ErrorBits(imp, error))
    /\ UNCHANGED <<creds, saved, radio, eth, door>>

------------------------------------------------------------------------------
(* The window *)

open_locked(i, reason) ==
    [i EXCEPT !.open = TRUE, !.reason = reason, !.state = "authorized", !.error = FALSE,
              !.closing = FALSE]

\* close_locked(): with the power of the radio the connection goes.
close_locked(i) == [i EXCEPT !.open = FALSE, !.reason = "none", !.closing = FALSE]

Opened(b) == [b EXCEPT !.pending = {}]

\* improv_open(): the console, the web page or the button
improv_open ==
    /\ imp' = IF imp.open THEN [imp EXCEPT !.inhibit = FALSE]
              ELSE open_locked([imp EXCEPT !.inhibit = FALSE], "manual")
    /\ ble' = IF imp.open THEN ble ELSE Opened(ble)
    /\ UNCHANGED <<creds, saved, radio, eth, door>>

improv_close ==
    /\ imp' = IF imp.open THEN close_locked([imp EXCEPT !.inhibit = TRUE])
              ELSE [imp EXCEPT !.inhibit = TRUE]
    /\ ble' = IF imp.open THEN NoClient ELSE ble
    /\ UNCHANGED <<creds, saved, radio, eth, door>>

\* improv_poll(), its first part: the windows that open and close by themselves.
Windows ==
    LET bare == creds = "none"
        opens == IF imp.open \/ imp.inhibit \/ Up THEN {}
                 ELSE {open_locked(imp, "down")}
                      \cup IF bare THEN {open_locked(imp, "unprovisioned")} ELSE {}
        may == imp.open /\ ~imp.attempt /\ ~imp.closing
        must == /\ may
                /\ \/ imp.reason = "unprovisioned" /\ (~bare \/ Up)
                   \/ imp.reason = "down" /\ Up
    IN  opens \cup (IF must THEN {} ELSE {imp})
              \cup (IF must \/ (may /\ imp.reason = "manual") THEN {close_locked(imp)} ELSE {})

\* Its second part: a join is begun.  A state is an improv.c, a client, a radio,
\* the credentials, and whether the Wi-Fi door opens.
Begun(i, b) ==
    IF i.req = "none" THEN {[i |-> i, b |-> b, r |-> radio, net |-> creds, opens |-> FALSE]}
    ELSE {[i |-> [i EXCEPT !.req = "none", !.prev = creds, !.attempt = TRUE, !.left = FALSE,
                           !.state = "provisioning"],
           b |-> queue_notify(b, StateBits(i, "provisioning")), r |-> r, net |-> i.req,
           opens |-> FALSE] : r \in net_reconnect(radio, i.req)}

Over(i) == [i EXCEPT !.attempt = FALSE, !.left = FALSE, !.prev = "none"]

\* Its third: the join has succeeded, was refused or takes too long, or goes on.
Joined(s) ==
    LET told == {"result"} \cup ErrorBits(s.i, FALSE) \cup StateBits(s.i, "provisioned")
    IN  [s EXCEPT !.i = [Over(@) EXCEPT !.state = "provisioned", !.error = FALSE,
                                        !.closing = TRUE, !.owe = TRUE],
                  !.b = queue_notify(@, told), !.opens = ~door.token]

Failed(s) ==
    {[s EXCEPT !.i = [Over(@) EXCEPT !.state = "authorized", !.error = TRUE],
               !.b = queue_notify(@, ErrorBits(s.i, TRUE) \cup StateBits(s.i, "authorized")),
               !.net = s.i.prev, !.r = r] : r \in net_reconnect(s.r, s.i.prev)}

Tried_up(s) ==
    IF ~s.i.attempt THEN {s}
    ELSE LET on == s.r.on # "none"
         IN  IF on THEN {Joined(s)}
             ELSE Failed(s) \cup IF s.r.refused THEN {} ELSE {s}
Tried(s) ==
    IF ~s.i.attempt THEN {s}
    ELSE LET on == s.r.on # "none"
             left == s.i.left \/ ~on
         IN  IF on /\ left THEN {Joined(s)}
             ELSE Failed(s) \cup IF s.r.refused THEN {} ELSE {[s EXCEPT !.i.left = left]}

\* Its last: a while after a success the window closes.
Closes(s) ==
    {s} \cup IF s.i.closing THEN {[s EXCEPT !.i = close_locked(@), !.b = NoClient]} ELSE {}

improv_poll ==
    /\ ~imp.owe
    /\ \E i \in Windows :
          LET b == IF i.open = imp.open THEN ble ELSE IF i.open THEN Opened(ble) ELSE NoClient
          IN  \E s0 \in Begun(i, b) : \E s1 \in Tried(s0) : \E s2 \in Closes(s1) :
                 /\ imp' = s2.i /\ ble' = s2.b /\ radio' = s2.r /\ creds' = s2.net
                 /\ door' = [door EXCEPT !.wifi = @ \/ s2.opens]
    /\ UNCHANGED <<saved, eth>>

\* improv_poll() once it has let go of the lock: the settings are saved, unless
\* the flash fails.
Save ==
    /\ imp.owe /\ imp' = [imp EXCEPT !.owe = FALSE] /\ saved' \in {saved, creds}
    /\ UNCHANGED <<ble, creds, radio, eth, door>>

------------------------------------------------------------------------------
(* The doors *)

\* settings_authorized(): the bearer, or a door that is open.
ViaSetup(wired) == ~door.token /\ (door.wifi \/ (door.eth /\ wired /\ eth))

\* settings_json_apply(): any subset of the fields, into a copy; nothing of it
\* when one is no good or when a door is used without a token.
Bodies ==
    [net : {"absent", "none"} \cup Networks, token : {"absent", "set", "cleared"}, good : BOOLEAN]
settings_json_apply(body, s, via_setup) ==
    LET t == [net |-> IF body.net = "absent" THEN s.net ELSE body.net,
              token |-> IF body.token = "absent" THEN s.token ELSE body.token = "set"]
    IN  IF body.good /\ (via_setup => t.token) THEN {t} ELSE {}

\* settings_post(): what was applied takes the place of the settings and is
\* saved, unless the flash fails; both doors close.
settings_post ==
    /\ \E wired \in BOOLEAN, body \in Bodies :
          /\ door.token \/ ViaSetup(wired)
          /\ body.net = "absent" \/ Meddles \/ ~(imp.attempt \/ imp.closing)
          /\ \E t \in settings_json_apply(body, [net |-> creds, token |-> door.token],
                                          ViaSetup(wired)) :
                /\ creds' = t.net /\ saved' \in {saved, creds'}
                /\ door' = [wifi |-> FALSE, eth |-> FALSE, token |-> t.token]
    /\ UNCHANGED <<imp, ble, radio, eth>>

\* http_setup_window_restart(): at the start and at a press of the button
Pressed ==
    /\ door' = [door EXCEPT !.eth = TRUE]
    /\ UNCHANGED <<imp, ble, creds, saved, radio, eth>>
Expires ==
    /\ door' \in {[door EXCEPT !.eth = FALSE], [door EXCEPT !.wifi = FALSE]}
    /\ UNCHANGED <<imp, ble, creds, saved, radio, eth>>

\* 'token' and 'token clear' at the console
Token ==
    /\ door' = [door EXCEPT !.token = ~@]
    /\ UNCHANGED <<imp, ble, creds, saved, radio, eth>>

\* settings_poll(): a save that something else asked for, such as a port that
\* was switched.
SaveLater ==
    /\ ~imp.owe /\ saved' = creds
    /\ UNCHANGED <<imp, ble, creds, radio, eth, door>>

------------------------------------------------------------------------------

FreshStart ==
    [open |-> FALSE, reason |-> "none", inhibit |-> FALSE, state |-> "authorized",
     error |-> FALSE, req |-> "none", attempt |-> FALSE, left |-> FALSE,
     prev |-> "none", closing |-> FALSE, owe |-> FALSE]

\* net_init()
RadioOff(net) == [on |-> "none", want |-> net, refused |-> FALSE]

SetupRestart ==
    /\ imp' = FreshStart /\ ble' = NoClient /\ creds' = saved /\ radio' = RadioOff(saved)
    /\ \E token \in BOOLEAN : door' = [wifi |-> FALSE, eth |-> TRUE, token |-> token]
    /\ UNCHANGED <<saved, eth>>

SetupInit ==
    /\ imp = FreshStart /\ ble = NoClient /\ eth = FALSE
    /\ creds \in Networks \cup {"none"} /\ saved = creds /\ radio = RadioOff(creds)
    /\ door = [wifi |-> FALSE, eth |-> TRUE, token |-> FALSE]

Callbacks ==
    \/ send_pending \/ Connected \/ Disconnected \/ process_rpc
    \/ \E bit \in Subscribed : Subscribe(bit)
    \/ settings_post
MainPass ==
    \/ improv_poll \/ Save \/ net_poll \/ improv_open \/ improv_close \/ SaveLater
    \/ Pressed \/ Token
Surroundings == Driver \/ Cable \/ Expires \/ SetupRestart

SetupNext == Callbacks \/ MainPass \/ Surroundings
SetupSpec == SetupInit /\ [][SetupNext]_setup_vars

------------------------------------------------------------------------------
(* Properties *)

\* What is reported as provisioned is the network that was asked for, and not
\* the one before, whose link may still read as up (attempt_left_old_net).
ProvisionedIsJoined == imp.closing => radio.on \in {"none", creds}

\* Credentials that failed are not left in flash for the next start: "previous
\* credentials come back on failure" (improv.c).
FailedJoinForgotten ==
    [][imp.attempt /\ ~imp'.attempt /\ imp'.error /\ creds # imp.prev => saved' # creds]_setup_vars

================================================================================
