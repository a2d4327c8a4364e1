---------------------------------- MODULE Wired ----------------------------------
(***************************************************************************)
(* The wired network: the W6100 (w6100.c) and its driver (eth.c).  Frames  *)
(* arrive in the chip's ring at any moment, also between two bus accesses  *)
(* of the worker that drains it.  The chip's interrupt is a level, masked  *)
(* by its handler and armed again by the worker.  The worker and the       *)
(* sender hold lwIP's lock, so that one of them is on the bus at a time.   *)
(***************************************************************************)
EXTENDS Integers

CONSTANTS
    RING,           \* bytes of the receive buffer
    Frames,         \* what a frame takes in it, with its header
    W6100_MAX_FRAME \* the largest frame that is taken out of it

ASSUME RingAssumption == RING \in Nat \ {0} /\ Frames \subseteq Nat \ {0}

VARIABLES
    chip, \* wr, rd (RX_RD), rsr (RX_RSR), head: the frame that starts at a byte, or 0;
          \* recv (Sn_IR RECV); unsent frames and sendok (Sn_IR SENDOK); phy
    rx,   \* at: the step of the driver; irq: INTn is armed; due: the worker is pending;
          \* rsr and total, of the frame that is read
    tx,   \* waits: in w6100_tx_end(); true: what was reported sent was
    link  \* what link_work() has seen

wired_vars == <<chip, rx, tx, link>>

HEADER == 2

\* One past x, n bytes on.
Past(x, n) == (x + n) % RING

Empty(phy) ==
    [wr |-> 0, rd |-> 0, rsr |-> 0, head |-> [x \in 0..RING - 1 |-> 0], recv |-> FALSE,
     unsent |-> 0, sendok |-> FALSE, phy |-> phy]

------------------------------------------------------------------------------
(* The chip *)

Open == rx.at \notin {"off", "absent"}

\* A frame arrives.  One that does not fit is lost.
Arrives ==
    /\ Open /\ chip.phy
    /\ \E n \in Frames :
          /\ chip.rsr + n <= RING
          /\ chip' = [chip EXCEPT !.head[chip.wr] = n, !.wr = Past(@, n), !.rsr = @ + n,
                                  !.recv = TRUE]
    /\ UNCHANGED <<rx, tx, link>>

\* Sn_CR_RECV with RX_RD n bytes on: they are free.
Received(n) ==
    chip' = [chip EXCEPT !.rd = Past(@, n), !.rsr = @ - n,
                         !.head = [x \in DOMAIN @ |-> IF (x - chip.rd) % RING < n THEN 0 ELSE @[x]]]

Transmits ==
    /\ chip.unsent > 0 /\ chip' = [chip EXCEPT !.unsent = @ - 1, !.sendok = TRUE]
    /\ UNCHANGED <<rx, tx, link>>

Plug ==
    /\ Open /\ chip' = [chip EXCEPT !.phy = ~@] /\ UNCHANGED <<rx, tx, link>>

------------------------------------------------------------------------------
(* Receiving *)

Step(now, next) == rx.at = now /\ ~tx.waits /\ rx' = [rx EXCEPT !.at = next]

\* gpio_irq()
gpio_irq ==
    /\ rx.irq /\ chip.recv /\ rx' = [rx EXCEPT !.irq = FALSE, !.due = TRUE]
    /\ UNCHANGED <<chip, tx, link>>

\* rx_work(): every bus access is a step.
rx_work ==
    /\ rx.at = "idle" /\ rx.due /\ ~tx.waits /\ rx' = [rx EXCEPT !.due = FALSE, !.at = "ack"]
    /\ UNCHANGED <<chip, tx, link>>

\* w6100_irq_ack()
w6100_irq_ack ==
    /\ Step("ack", "begin") /\ chip' = [chip EXCEPT !.recv = FALSE] /\ UNCHANGED <<tx, link>>

\* w6100_rx_begin(): how much there is, then where it starts and how long it is.
\* A length that makes no sense drops all that was counted.
RxSize ==
    /\ rx.at = "begin" /\ ~tx.waits
    /\ rx' = [rx EXCEPT !.rsr = chip.rsr, !.at = IF chip.rsr < HEADER THEN "check" ELSE "header"]
    /\ UNCHANGED <<chip, tx, link>>
w6100_rx_begin ==
    LET total == chip.head[chip.rd]
    IN  /\ rx.at = "header"
        /\ IF total < HEADER \/ total > rx.rsr \/ total - HEADER > W6100_MAX_FRAME
           THEN rx' = [rx EXCEPT !.at = "check"] /\ Received(rx.rsr)
           ELSE rx' = [rx EXCEPT !.total = total, !.at = "end"] /\ UNCHANGED chip
    /\ UNCHANGED <<tx, link>>

\* Mutant: the header is forgotten.
w6100_rx_end_short ==
    /\ Step("end", "begin") /\ Received(rx.total - HEADER) /\ UNCHANGED <<tx, link>>

\* w6100_rx_end(), whether or not there was a pbuf to read the frame into
w6100_rx_end ==
    /\ Step("end", "begin") /\ Received(rx.total) /\ UNCHANGED <<tx, link>>

\* Mutant: the line is armed as soon as there is nothing to read.
w6100_rx_pending_blind ==
    /\ rx.at = "check" /\ rx' = [rx EXCEPT !.at = "idle", !.irq = TRUE]
    /\ chip' = [chip EXCEPT !.recv = FALSE] /\ UNCHANGED <<tx, link>>

\* w6100_rx_pending(): one more look before the line is armed.
w6100_rx_pending ==
    /\ rx.at = "check"
    /\ rx' = IF chip.rsr # 0 THEN [rx EXCEPT !.at = "ack"]
             ELSE [rx EXCEPT !.at = "idle", !.irq = TRUE]
    /\ UNCHANGED <<chip, tx, link>>

------------------------------------------------------------------------------
(* Sending *)

\* linkoutput(), from the main loop or in answer to a frame, between two frames;
\* refused without a link or while the chip has no room (bound: for a third).
linkoutput ==
    /\ rx.at \in {"idle", "begin"} /\ ~tx.waits /\ link /\ chip.unsent < 2
    /\ tx' = [tx EXCEPT !.waits = TRUE] /\ chip' = [chip EXCEPT !.unsent = @ + 1]
    /\ UNCHANGED <<rx, link>>

\* w6100_tx_end(): sent, or waited for too long.
w6100_tx_end ==
    /\ tx.waits
    /\ \/ /\ chip.sendok /\ chip' = [chip EXCEPT !.sendok = FALSE]
          /\ tx' = [waits |-> FALSE, true |-> chip.unsent = 0]
       \/ ~chip.sendok /\ tx' = [tx EXCEPT !.waits = FALSE] /\ UNCHANGED chip
    /\ UNCHANGED <<rx, link>>

link_work ==
    /\ rx.at = "idle" /\ ~tx.waits /\ link' = chip.phy /\ UNCHANGED <<chip, rx, tx>>

------------------------------------------------------------------------------

\* eth_init(): the chip answers (w6100_init()) or the wired path stays off; the
\* worker is there before the line is armed.
w6100_init ==
    /\ rx.at = "off" /\ \E at \in {"opened", "absent"} : rx' = [rx EXCEPT !.at = at]
    /\ chip' = Empty(chip.phy) /\ UNCHANGED <<tx, link>>
eth_init ==
    /\ rx.at = "opened" /\ rx' = [rx EXCEPT !.at = "idle", !.irq = TRUE]
    /\ UNCHANGED <<chip, tx, link>>

Off == [at |-> "off", irq |-> FALSE, due |-> FALSE, rsr |-> 0, total |-> 0]

\* The controller restarts; the chip holds what it held until w6100_init().
StartAgain ==
    /\ rx' = Off /\ tx' = [waits |-> FALSE, true |-> TRUE] /\ link' = FALSE /\ UNCHANGED chip

\* Before eth_init(), or after it.
WiredInit ==
    /\ \E phy \in BOOLEAN : chip = Empty(phy)
    /\ rx \in {Off, [Off EXCEPT !.at = "idle", !.irq = TRUE]}
    /\ tx = [waits |-> FALSE, true |-> TRUE] /\ link = FALSE

WiredNext ==
    \/ Arrives \/ Transmits \/ Plug
    \/ gpio_irq \/ rx_work \/ w6100_irq_ack \/ RxSize \/ w6100_rx_begin \/ w6100_rx_end
    \/ w6100_rx_pending
    \/ linkoutput \/ w6100_tx_end \/ link_work
    \/ w6100_init \/ eth_init \/ StartAgain

WiredSpec == WiredInit /\ [][WiredNext]_wired_vars

------------------------------------------------------------------------------
(* Properties *)

\* The read pointer is at the start of a frame as long as there is one, whatever
\* arrives in the middle of a drain.
InStep == Open /\ chip.rsr > 0 => chip.head[chip.rd] > 0

\* A frame in the chip is seen: with the worker neither at work nor pending, the
\* line is low and armed ("anything that landed after the ack would not raise a
\* new edge", eth.c).
NoFrameForgotten == rx.at = "idle" /\ ~rx.due /\ chip.rsr > 0 => rx.irq /\ chip.recv

\* A frame reported as sent has left the chip.
SentIsSent == tx.true

================================================================================
