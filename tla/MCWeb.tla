---------------------------------- MODULE MCWeb ----------------------------------
(***************************************************************************)
(* The web server, first-time setup and the wired network.  A behaviour is *)
(* about the pages, the certificates, setup or the wire, so that their     *)
(* states add up.                                                          *)
(***************************************************************************)
EXTENDS Web, Wired, Setup, TLC

VARIABLE subject \* "pages", "certificates", "setup" or "wire"

\* Uploads: a renewal, the chain in any order, and what is refused.
Key(c) == [kind |-> "key", of |-> c]
Cert(c) == [kind |-> "cert", of |-> c]
Chains ==
    {<<Key("A"), Cert("A")>>, <<Cert("B"), Cert("ca"), Key("B")>>,
     <<Cert("ca"), Cert("A"), Key("A")>>, <<Key("old"), Cert("old")>>, <<Cert("A")>>,
     <<Key("A"), Cert("A"), [kind |-> "encrypted", of |-> "A"]>>}

Request(host, port, version, connection) ==
    [host |-> host, port |-> port, version |-> version, connection |-> connection]
Heads ==
    {Request("address", "none", "1.1", {}), Request("certificate", "right", "1.0", {})}

Alike == Permutations(Conns) \cup Permutations(Networks)

\* What a behaviour is not about starts in one way only.
MCInit ==
    /\ WebInit /\ SetupInit /\ WiredInit
    /\ subject \in {"pages", "certificates", "setup", "wire"}
    /\ subject \in {"setup", "wire"} => ~https
    /\ subject # "setup" => creds = "none"

\* Bounds: where certificates change, a connection serves one request, and what
\* it discards comes when it has been answered; during setup the door of the
\* Ethernet port stays open, and no API token is stored while a client is
\* connected or the Wi-Fi door is open.
OneRequest == \A c \in Conns :
    ~web'.conns[c].keep /\ ~(web'.conns[c].discard /\ web'.conns[c].resp)
NoTokenYet == door'.eth /\ (door'.token => ~ble'.con /\ ~door'.wifi)

MCNext ==
    /\ UNCHANGED subject
    /\ \/ subject = "pages" /\ (Lwip \/ Pages) /\ UNCHANGED <<setup_vars, wired_vars>>
       \/ subject = "certificates" /\ (Lwip \/ Certificates) /\ OneRequest
          /\ UNCHANGED <<setup_vars, wired_vars>>
       \/ subject = "setup" /\ SetupNext /\ NoTokenYet /\ UNCHANGED <<web_vars, wired_vars>>
       \/ subject = "wire" /\ WiredNext /\ UNCHANGED <<web_vars, setup_vars>>

MCSpec == MCInit /\ [][MCNext]_<<web_vars, setup_vars, wired_vars, subject>>
================================================================================
