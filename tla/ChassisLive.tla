------------------------------ MODULE ChassisLive ------------------------------
(***************************************************************************)
(* What must happen in the chassis, under the fairness its scheduling      *)
(* gives: core 1 runs the engine loop and nothing else, every deadline of  *)
(* the port state machine is a matter of milliseconds to seconds, and the  *)
(* blades and devices do what the protocols ask of them in the end.        *)
(***************************************************************************)
EXTENDS Chassis

\* What the step just taken was: a tick whose deadlines had passed
\* ("timely"), one of those that found a bootloader ("loader"), or another.
VARIABLE step

live_vars == <<vars, step>>

FoundLoader == turn \in Ports /\ ctx'[turn].gen = "LOADER" /\ ctx[turn].gen # "LOADER"

LiveTick ==
    /\ turn \in Ports
    /\ \E c \in Chances(ctx[turn]) :
        /\ TickWith(c)
        /\ step' = IF ~((Waiting(ctx[turn]) => c.late) /\ c.due /\ c.charge = "same")
                   THEN "other"
                   ELSE IF FoundLoader THEN "loader" ELSE "timely"

LiveNext == LiveTick \/ (Others /\ step' = "other")

\* A blade told to reset into its bootloader, whose next probe can find it.
OnItsWay(i) ==
    /\ "LOADER" \in Found /\ ctx[i].state = "PROBE" /\ ctx[i].switching
    /\ ctx[i].en_on /\ present[i] /\ offer[i] = NoOffer

\* The loop goes round; each port again and again has a tick that finds its
\* deadlines passed; presence is looked at; a device moves within its offer;
\* a blade that keeps being sent to its bootloader gets there.
Fairness ==
    /\ WF_turn(turn = Top /\ turn' = 0)
    /\ WF_turn(turn \in Ports /\ turn' = turn + 1)
    /\ SF_hour(HourPasses)
    /\ SF_present(RefreshPresence)
    /\ \A i \in Ports :
         /\ SF_<<turn, step>>(turn = i /\ turn' = i + 1 /\ step' \in {"timely", "loader"})
         /\ SF_<<turn, step>>(turn = i /\ OnItsWay(i) /\ turn' = i + 1 /\ step' = "loader")
         /\ WF_vars(sink[i] > Open(i) /\ Ask(i))

LiveSpec == Init /\ step = "other" /\ [][LiveNext]_live_vars /\ Fairness

Alone(i) == \A j \in Ports \ {i} : ctx[j].state = "ABSENT" /\ ~seated[j]

\* Throttled ports recover when budget frees up: a port that has the chassis
\* to itself for good does not stay throttled.
ThrottledRecovers ==
    \A i \in Ports : <>[]Alone(i) => []<>(ctx[i].state # "THROTTLED")

\* What the recovery does pay back: the watts a throttled port asked for and
\* does not hold, as long as the account remembers that it asked.
OwedIsPaid ==
    \A i \in Ports : <>[]Alone(i) =>
        []<>~(ctx[i].state = "THROTTLED" /\ ctx[i].denied > reserved[i])

\* However often a blade turns up in its bootloader or asks to be updated,
\* its port always comes back to a state a user can see as working, off or
\* at fault: the rounds are counted, and the one bootloader conversation is
\* handed on.
TripsEnd ==
    \A i \in Ports : []<>(ctx[i].state \notin {"PROBE", "UPDATE"})
================================================================================
