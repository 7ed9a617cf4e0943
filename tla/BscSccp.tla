------------------------------ MODULE BscSccp ------------------------------
(***************************************************************************)
(* The osmo-bsc side of the A interface: the SCCP connections the BSC      *)
(* opens towards the MSC for its subscriber connections                    *)
(* (src/openbsc/src/osmo-bsc/osmo_bsc_sccp.c) together with the IPA link   *)
(* to the MSC that carries them (src/openbsc/src/osmo-bsc/osmo_bsc_msc.c). *)
(*                                                                         *)
(* One osmo_bsc_sccp_con per subscriber connection in Conns.  Its SCCP     *)
(* state is driven by libosmo-sccp (outside this repository), which calls  *)
(* back msc_outgoing_sccp_state; the model lets the library move the state *)
(* the ways the SCCP protocol allows.  Data handed to bsc_queue_for_msc is *)
(* a numbered message, so that order, loss and early sending are visible.  *)
(***************************************************************************)
EXTENDS Integers, Sequences, SequencesExt

CONSTANTS
    Conns,          \* subscriber connections that may open an SCCP connection
    MaxMsgs,        \* bound on the DTAP messages one connection hands to the MSC
    SccpQueueMax,   \* the 10 of "conn->sccp_queue_size > 10" in bsc_queue_for_msc
    PingEnabled,    \* data->ping_timeout >= 0 (the ping/pong keep-alive is configured)
    PingTimeout,    \* data->ping_timeout, in ticks of one second
    PongTimeout     \* data->pong_timeout, in ticks of one second

ASSUME /\ MaxMsgs \in Nat /\ SccpQueueMax \in Nat /\ PingEnabled \in BOOLEAN
       /\ PingTimeout \in Nat \ {0} /\ PongTimeout \in Nat \ {0}

(* enum sccp_connection_state of libosmo-sccp, in its numeric order: the  *)
(* code compares states with >= and >.                                     *)
NONE == 0
REQUEST == 1
ESTABLISHED == 3
RELEASE == 4
RELEASE_COMPLETE == 5
REFUSED == 6

(* The ping and pong timers are countdowns to their expiry (only the      *)
(* distance to a deadline matters); OFF is a timer not pending.            *)
OFF == -1

(* How long the MSC can stay silent before the link has been dropped:    *)
(* the last PONG just before a PING, then a whole pong_timeout.           *)
SilenceBound == PingTimeout + PongTimeout

VARIABLES
    msc,   \* struct bsc_msc_connection + osmo_msc_data timers
    con    \* con[c]: the osmo_bsc_sccp_con of c and its sccp_connection

vars == <<msc, con>>

Msg == 1..MaxMsgs

(* A connection slot that holds no osmo_bsc_sccp_con. *)
NoCon == [active |-> FALSE, sccp |-> NONE, conn |-> FALSE,
          queue |-> <<>>, queueSize |-> 0, ccTimer |-> FALSE, itTimer |-> FALSE,
          submitted |-> 0, toMsc |-> <<>>, dropped |-> {}]

TypeOK ==
    /\ msc \in [connected : BOOLEAN, authenticated : BOOLEAN,
                pingTimer : {OFF} \cup 0..PingTimeout,
                pongTimer : {OFF} \cup 0..PongTimeout,
                pongOwed : BOOLEAN, silent : 0..SilenceBound + 1]
    /\ con \in [Conns -> [active : BOOLEAN,
                          sccp : {NONE, REQUEST, ESTABLISHED, RELEASE, RELEASE_COMPLETE, REFUSED},
                          conn : BOOLEAN,
                          queue : Seq(Msg), queueSize : 0..SccpQueueMax + 1,
                          ccTimer : BOOLEAN, itTimer : BOOLEAN,
                          submitted : 0..MaxMsgs, toMsc : Seq(Msg),
                          dropped : SUBSET Msg]]

Init ==
    /\ msc = [connected |-> FALSE, authenticated |-> FALSE,
              pingTimer |-> OFF, pongTimer |-> OFF,
              pongOwed |-> FALSE, silent |-> 0]
    /\ con = [c \in Conns |-> NoCon]

-----------------------------------------------------------------------------
(* Helpers on one osmo_bsc_sccp_con record.  An operator named after a    *)
(* fault (...NoCount, ...Reversed, ...KeepIt) is that helper with the fault, kept *)
(* next to it for mutation checks of the properties below.                 *)

(* free_queued: drop every queued message and zero the counter. *)
FreeQueued(r) ==
    [r EXCEPT !.queue = <<>>, !.queueSize = 0,
              !.dropped = @ \cup ToSet(r.queue)]

SendQueuedReversed(r) ==
    [r EXCEPT !.toMsc = @ \o Reverse(r.queue), !.queue = <<>>,
              !.queueSize = @ - Len(r.queue)]

(* send_queued: write the queue to the SCCP connection in FIFO order. *)
SendQueued(r) ==
    [r EXCEPT !.toMsc = @ \o r.queue, !.queue = <<>>,
              !.queueSize = @ - Len(r.queue)]

DeleteConnectionKeepIt(r) ==
    [FreeQueued(r) EXCEPT !.active = FALSE, !.conn = FALSE, !.ccTimer = FALSE]

(* The common tail of both free paths: the lchan association is cleared    *)
(* (gsm0808_clear + subscr_con_free), the queue freed, and                 *)
(* bsc_delete_connection unlinks the con and deletes both timers.          *)
DeleteConnection(r) ==
    [FreeQueued(r) EXCEPT !.active = FALSE, !.conn = FALSE,
                          !.ccTimer = FALSE, !.itTimer = FALSE]

-----------------------------------------------------------------------------
(* bsc_create_new_connection: refused unless the MSC link is              *)
(* authenticated; otherwise a fresh con is linked into active_connections. *)
BscCreateNewConnection(c) ==
    /\ ~con[c].active
    /\ msc.authenticated
    /\ con' = [con EXCEPT ![c] = [NoCon EXCEPT !.active = TRUE, !.conn = TRUE]]
    /\ UNCHANGED msc

(* bsc_open_connection: start the CC timer and send the CR. *)
BscOpenConnection(c) ==
    /\ con[c].active
    /\ con[c].sccp = NONE
    /\ con' = [con EXCEPT ![c].ccTimer = TRUE, ![c].sccp = REQUEST]
    /\ UNCHANGED msc

QueueForMscOffByOne(r, m) ==
    IF r.sccp > ESTABLISHED THEN [r EXCEPT !.dropped = @ \cup {m}]
    ELSE IF r.sccp = ESTABLISHED /\ r.queueSize = 0 THEN [r EXCEPT !.toMsc = Append(@, m)]
    ELSE IF r.queueSize > SccpQueueMax + 1 THEN [r EXCEPT !.dropped = @ \cup {m}]
    ELSE [r EXCEPT !.queueSize = @ + 1, !.queue = Append(@, m)]

QueueForMscNoCount(r, m) ==
    IF r.sccp > ESTABLISHED THEN [r EXCEPT !.dropped = @ \cup {m}]
    ELSE IF r.sccp = ESTABLISHED /\ r.queueSize = 0 THEN [r EXCEPT !.toMsc = Append(@, m)]
    ELSE IF r.queueSize > SccpQueueMax THEN [r EXCEPT !.dropped = @ \cup {m}]
    ELSE [r EXCEPT !.queue = Append(@, m)]

(* bsc_queue_for_msc: drop when closing, write when established with an   *)
(* empty queue, drop when the queue is over its limit, queue otherwise.    *)
QueueForMsc(r, m) ==
    IF r.sccp > ESTABLISHED THEN [r EXCEPT !.dropped = @ \cup {m}]
    ELSE IF r.sccp = ESTABLISHED /\ r.queueSize = 0 THEN [r EXCEPT !.toMsc = Append(@, m)]
    ELSE IF r.queueSize > SccpQueueMax THEN [r EXCEPT !.dropped = @ \cup {m}]
    ELSE [r EXCEPT !.queueSize = @ + 1, !.queue = Append(@, m)]

(* The BSC API hands the next DTAP message of c to bsc_queue_for_msc; it   *)
(* does so only after bsc_open_connection has sent the CR.                 *)
BscQueueForMsc(c) ==
    /\ con[c].active
    /\ con[c].sccp # NONE
    /\ con[c].submitted < MaxMsgs
    /\ LET m == con[c].submitted + 1
       IN con' = [con EXCEPT ![c] = [QueueForMsc(@, m) EXCEPT !.submitted = m]]
    /\ UNCHANGED msc

SccpStateNoFlush(r, new) ==
    IF new >= RELEASE_COMPLETE THEN DeleteConnection([r EXCEPT !.sccp = new])
    ELSE IF new = ESTABLISHED
         THEN [r EXCEPT !.sccp = new, !.ccTimer = FALSE, !.itTimer = TRUE]
    ELSE [r EXCEPT !.sccp = new]

(* msc_outgoing_sccp_state: on RELEASE_COMPLETE or worse the con is freed; *)
(* on ESTABLISHED the CC timer stops, the IT timer starts and the queue is *)
(* flushed; any other state change needs no action.                        *)
SccpState(r, new) ==
    IF new >= RELEASE_COMPLETE THEN DeleteConnection([r EXCEPT !.sccp = new])
    ELSE IF new = ESTABLISHED
         THEN SendQueued([r EXCEPT !.sccp = new, !.ccTimer = FALSE, !.itTimer = TRUE])
    ELSE [r EXCEPT !.sccp = new]

(* The moves libosmo-sccp makes on a BSC-originated connection: CC or CREF *)
(* answers the CR; the BSC API closes (RLSD sent, state RELEASE) or the    *)
(* MSC releases (RLSD received, RLC sent); RLC completes a BSC release.    *)
LibNext(s) ==
    CASE s = REQUEST     -> {ESTABLISHED, REFUSED}
      [] s = ESTABLISHED -> {RELEASE, RELEASE_COMPLETE}
      [] s = RELEASE     -> {RELEASE_COMPLETE}
      [] OTHER           -> {}

SccpStateChange(c) ==
    /\ con[c].active
    /\ \E new \in LibNext(con[c].sccp) :
          con' = [con EXCEPT ![c] = SccpState(@, new)]
    /\ UNCHANGED msc

(* sccp_cc_timeout: unless already established, force-free the con. *)
SccpCcTimeout(c) ==
    /\ con[c].ccTimer
    /\ con' = [con EXCEPT ![c] = IF @.sccp >= ESTABLISHED
                                 THEN [@ EXCEPT !.ccTimer = FALSE]
                                 ELSE DeleteConnection(@)]
    /\ UNCHANGED msc

(* sccp_it_timeout: send an IT and re-arm; no modelled state changes. *)
SccpItTimeout(c) ==
    /\ con[c].itTimer
    /\ UNCHANGED vars

-----------------------------------------------------------------------------
(* The MSC link (osmo_bsc_msc.c).  msc.pongOwed: a PING went out that the *)
(* MSC has not answered; msc.silent: ticks since the link came up or the  *)
(* last PONG arrived.                                                      *)

(* msc_connection_connected: TCP is up; msc_ping_timeout_cb sends a PING  *)
(* and arms the ping and pong timers unless pings are disabled.           *)
MscConnectionConnected ==
    /\ ~msc.connected
    /\ msc' = [msc EXCEPT !.connected = TRUE, !.silent = 0, !.pongOwed = PingEnabled,
                          !.pingTimer = IF PingEnabled THEN PingTimeout ELSE OFF,
                          !.pongTimer = IF PingEnabled THEN PongTimeout ELSE OFF]
    /\ UNCHANGED con

(* ipaccess_a_fd_cb, ID ACK -> initialize_if_needed: the first ID ACK of  *)
(* a link sends the GSM 08.08 RESET and marks the link authenticated.     *)
InitializeIfNeeded ==
    /\ msc.connected
    /\ msc' = [msc EXCEPT !.authenticated = TRUE]
    /\ UNCHANGED con

(* ipaccess_a_fd_cb, PONG: stop the pong timer.  The MSC answers a PING; *)
(* one PONG stands for all it owes, so a late PONG of an earlier PING     *)
(* can cancel the pong timer of a later one.                               *)
MscPong ==
    /\ msc.connected /\ msc.pongOwed
    /\ msc' = [msc EXCEPT !.pongTimer = OFF, !.pongOwed = FALSE, !.silent = 0]
    /\ UNCHANGED con

(* msc_ping_timeout_cb without re-arming the ping timer. *)
MscPingTimeoutOnce ==
    /\ msc.pingTimer = 0
    /\ msc' = [msc EXCEPT !.pingTimer = OFF, !.pongTimer = PongTimeout, !.pongOwed = TRUE]
    /\ UNCHANGED con

(* msc_ping_timeout_cb: send a PING, then osmo_timer_schedule the ping     *)
(* timer and the pong timer afresh; a pong timer still pending from the   *)
(* previous PING is pushed back to a full pong_timeout.                    *)
MscPingTimeout ==
    /\ msc.pingTimer = 0
    /\ msc' = [msc EXCEPT !.pingTimer = PingTimeout, !.pongTimer = PongTimeout,
                          !.pongOwed = TRUE]
    /\ UNCHANGED con

(* bsc_sccp_force_free for every con on active_connections. *)
CloseConnections ==
    [c \in Conns |-> IF con[c].active THEN DeleteConnection(con[c]) ELSE con[c]]

LostWithoutClose ==
    /\ msc' = [msc EXCEPT !.pingTimer = OFF, !.pongTimer = OFF, !.pongOwed = FALSE,
                          !.silent = 0, !.authenticated = FALSE, !.connected = FALSE]
    /\ con' = con

(* msc_connection_was_lost: stop ping/pong, signal S_MSC_LOST (which      *)
(* bsc_close_connections answers), drop authentication and reconnect.     *)
MscConnectionWasLost ==
    /\ msc' = [msc EXCEPT !.pingTimer = OFF, !.pongTimer = OFF, !.pongOwed = FALSE,
                          !.silent = 0, !.authenticated = FALSE, !.connected = FALSE]
    /\ con' = CloseConnections

(* ipa_msg_recv returned 0: the MSC closed the TCP connection. *)
MscReadEof ==
    /\ msc.connected
    /\ MscConnectionWasLost

(* msc_pong_timeout_cb: the MSC did not answer the PING. *)
MscPongTimeout ==
    /\ msc.pongTimer = 0
    /\ MscConnectionWasLost

(* One second passes on an up link with the keep-alive configured (the   *)
(* only time the model measures).  A timer that has reached its expiry    *)
(* fires before time moves on (the select loop runs it), so Tick waits    *)
(* for it.  The silence count stops one past the bound, where it is       *)
(* already wrong.                                                          *)
Countdown(t) == IF t = OFF THEN OFF ELSE t - 1

Tick ==
    /\ msc.connected /\ PingEnabled
    /\ msc.pingTimer # 0 /\ msc.pongTimer # 0
    /\ msc.silent <= SilenceBound
    /\ msc' = [msc EXCEPT !.pingTimer = Countdown(@), !.pongTimer = Countdown(@),
                          !.silent = @ + 1]
    /\ UNCHANGED con

-----------------------------------------------------------------------------
Next ==
    \/ \E c \in Conns :
          \/ BscCreateNewConnection(c)
          \/ BscOpenConnection(c)
          \/ BscQueueForMsc(c)
          \/ SccpStateChange(c)
          \/ SccpCcTimeout(c)
          \/ SccpItTimeout(c)
    \/ MscConnectionConnected
    \/ InitializeIfNeeded
    \/ MscPong
    \/ MscPingTimeout
    \/ MscReadEof
    \/ MscPongTimeout
    \/ Tick

(* Timers of the osmocom select loop fire eventually once armed. *)
Fairness ==
    /\ \A c \in Conns : WF_vars(SccpCcTimeout(c))
    /\ WF_vars(MscPongTimeout)

Spec == Init /\ [][Next]_vars /\ Fairness

-----------------------------------------------------------------------------
(* Properties                                                              *)

(* The messages c handed to bsc_queue_for_msc and not dropped reach the    *)
(* MSC, or wait in the queue, exactly once and in the order submitted;     *)
(* nothing is written before the MSC confirmed the connection, and nothing *)
(* waits in the queue once it did (send_queued, bsc_queue_for_msc).        *)
InOrderDelivery ==
    \A c \in Conns : con[c].active =>
        /\ con[c].toMsc \o con[c].queue
              = SelectSeq([i \in 1..con[c].submitted |-> i],
                          LAMBDA i : i \notin con[c].dropped)
        /\ con[c].toMsc # <<>> => con[c].sccp \in {ESTABLISHED, RELEASE}
        /\ con[c].queue # <<>> => con[c].sccp = REQUEST

(* The pending-message counter sccp_queue_size tracks the queue, which     *)
(* never grows past the limit checked in bsc_queue_for_msc (one over it:   *)
(* the test is "> 10").                                                     *)
QueueBounded ==
    \A c \in Conns :
        /\ con[c].queueSize = Len(con[c].queue)
        /\ Len(con[c].queue) <= SccpQueueMax + 1

(* The refinement mapping: the link is down until msc_connection_connected,*)
(* ready once initialize_if_needed authenticated it; the open connections  *)
(* are the cons on active_connections.                                      *)
LinkOf ==
    IF ~msc.connected THEN "down"
    ELSE IF msc.authenticated THEN "ready" ELSE "up"

AbsLink == INSTANCE AbsMscLink WITH link <- LinkOf,
                                    open <- {c \in Conns : con[c].active}

(* The MSC link and its connections implement AbsMscLink: a connection is  *)
(* created only on an authenticated link (bsc_create_new_connection), the  *)
(* RESET is sent once per TCP connection (initialize_if_needed), and the   *)
(* loss of the link, by EOF or by a missing PONG, frees every connection   *)
(* in the same step (msc_connection_was_lost -> bsc_close_connections).    *)
MscLinkRefined == AbsLink!Spec

(* A timer of an osmo_bsc_sccp_con is never left armed on a freed con:     *)
(* it would fire on freed memory (bsc_delete_connection).                  *)
NoTimerOnFreedCon ==
    \A c \in Conns : (con[c].ccTimer \/ con[c].itTimer) => con[c].active

(* A connected MSC that has stopped answering is noticed in bounded time:  *)
(* the link is dropped (and every connection freed) before the MSC has    *)
(* been silent longer than ping_timeout + pong_timeout.  About             *)
(* msc_ping_timeout_cb re-arming the pong timer at every PING: if that     *)
(* pushed the pending expiry back for ever, a dead MSC would never be      *)
(* detected.                                                               *)
MscSilenceDetected ==
    msc.connected /\ PingEnabled => msc.silent <= SilenceBound

(* A message queued while waiting for the CC is eventually sent or         *)
(* discarded with its connection: the queue never stays stuck.             *)
QueueDrains ==
    \A c \in Conns : con[c].queue # <<>> ~> con[c].queue = <<>>

=============================================================================
