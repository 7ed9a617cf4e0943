------------------------------ MODULE RfCtrl ------------------------------
(***************************************************************************)
(* RF control of the BSC (src/openbsc/src/osmo-bsc/osmo_bsc_rf.c).         *)
(*                                                                         *)
(* An operator writes one-character commands on a UNIX socket: '0'         *)
(* (scheduled off), '1' (on), 'd' (direct off), '?' (query).  On, off and  *)
(* direct off only record the request and start a 1 s delay timer; when   *)
(* it fires the last request is applied.  Scheduled off enters the grace   *)
(* policy and locks the TRXs when the grace timer expires; on unlocks them *)
(* and 3 s later checks that every TRX of an ip.access BTS came up, or     *)
(* drops its OML link so that it boots again.  One BTS is modelled.        *)
(***************************************************************************)
EXTENDS Naturals

CONSTANTS
    Trxs,     \* the TRXs of the BTS
    MaxCmds   \* bound on commands read from the socket

\* The commands and the policies (S_RF_ON, S_RF_OFF, S_RF_GRACE).
RF_CMD_OFF == "0"
RF_CMD_ON == "1"
RF_CMD_D_OFF == "d"
RF_CMD_QUERY == "?"
UNKNOWN == "x"      \* any other byte
NO_CMD == "none"
S_RF_ON == "ON"
S_RF_OFF == "OFF"
S_RF_GRACE == "GRACE"

VARIABLES
    policy,       \* rf->policy
    lastRequest,  \* rf->last_request
    delayTimer,   \* rf->delay_cmd pending
    graceTimer,   \* rf->grace_timeout pending
    rfCheck,      \* rf->rf_check pending
    locked,       \* the administrative state lock_each_trx last requested
    trxOk,        \* trxOk[t]: availability OK and operational ENABLED (NM reports)
    omlUp,        \* bts->oml_link is up
    cmds          \* commands read so far

vars == <<policy, lastRequest, delayTimer, graceTimer, rfCheck, locked, trxOk, omlUp, cmds>>

TypeOK ==
    /\ policy \in {S_RF_ON, S_RF_OFF, S_RF_GRACE}
    /\ lastRequest \in {NO_CMD, RF_CMD_OFF, RF_CMD_ON, RF_CMD_D_OFF}
    /\ delayTimer \in BOOLEAN /\ graceTimer \in BOOLEAN /\ rfCheck \in BOOLEAN
    /\ locked \in BOOLEAN
    /\ trxOk \in [Trxs -> BOOLEAN]
    /\ omlUp \in BOOLEAN
    /\ cmds \in 0..MaxCmds

(* osmo_bsc_rf_create: policy ON, no timer pending; the BTS is up. *)
Init ==
    /\ policy = S_RF_ON
    /\ lastRequest = NO_CMD
    /\ delayTimer = FALSE /\ graceTimer = FALSE /\ rfCheck = FALSE
    /\ locked = FALSE
    /\ trxOk = [t \in Trxs |-> TRUE]
    /\ omlUp = TRUE
    /\ cmds = 0

-----------------------------------------------------------------------------
(* rf_read_cmd storing every byte it reads as the request. *)
RfReadCmdAnyChar(c) ==
    /\ cmds < MaxCmds
    /\ lastRequest' = c
    /\ delayTimer' = TRUE
    /\ cmds' = cmds + 1
    /\ UNCHANGED <<policy, graceTimer, rfCheck, locked, trxOk, omlUp>>

(* rf_read_cmd: '0', '1' and 'd' remember the request and start the      *)
(* delay timer unless it is already pending, so requests within the      *)
(* second coalesce and only the last one is applied.  A query only       *)
(* answers (handle_query reads the policy and NM state), an unknown byte *)
(* only sets last_state_command: no modelled state changes.              *)
RfReadCmd(c) ==
    /\ cmds < MaxCmds
    /\ cmds' = cmds + 1
    /\ IF c \in {RF_CMD_OFF, RF_CMD_ON, RF_CMD_D_OFF}
       THEN /\ lastRequest' = c
            /\ delayTimer' = TRUE
       ELSE UNCHANGED <<lastRequest, delayTimer>>
    /\ UNCHANGED <<policy, graceTimer, rfCheck, locked, trxOk, omlUp>>

(* switch_rf_off: lock every TRX and signal S_RF_OFF. *)
SwitchRfOff ==
    /\ locked' = TRUE
    /\ policy' = S_RF_OFF

(* enter_grace: (re)start the grace timer and signal S_RF_GRACE. *)
EnterGrace ==
    /\ graceTimer' = TRUE
    /\ policy' = S_RF_GRACE

(* rf_delay_cmd_cb, RF_CMD_ON without deleting the grace timer. *)
ApplyOnKeepGrace ==
    /\ graceTimer' = graceTimer
    /\ locked' = FALSE
    /\ policy' = S_RF_ON
    /\ rfCheck' = TRUE

(* rf_delay_cmd_cb, RF_CMD_ON: stop the grace timer, unlock the TRXs,     *)
(* signal S_RF_ON and check the TRXs in 3 s.                             *)
ApplyOn ==
    /\ graceTimer' = FALSE
    /\ locked' = FALSE
    /\ policy' = S_RF_ON
    /\ rfCheck' = TRUE

(* rf_delay_cmd_cb, RF_CMD_D_OFF keeping the rf_check timer. *)
ApplyDirectOffKeepCheck ==
    /\ rfCheck' = rfCheck
    /\ graceTimer' = FALSE
    /\ SwitchRfOff

(* rf_delay_cmd_cb, RF_CMD_D_OFF: stop both timers and switch off now. *)
ApplyDirectOff ==
    /\ rfCheck' = FALSE
    /\ graceTimer' = FALSE
    /\ SwitchRfOff

(* rf_delay_cmd_cb, RF_CMD_OFF: stop the check and enter grace. *)
ApplyOff ==
    /\ rfCheck' = FALSE
    /\ EnterGrace
    /\ UNCHANGED locked

(* rf_delay_cmd_cb: the delay timer fires and applies rf->last_request. *)
RfDelayCmdCb ==
    /\ delayTimer
    /\ delayTimer' = FALSE
    /\ CASE lastRequest = RF_CMD_D_OFF -> ApplyDirectOff
         [] lastRequest = RF_CMD_ON -> ApplyOn
         [] lastRequest = RF_CMD_OFF -> ApplyOff
    /\ UNCHANGED <<lastRequest, trxOk, omlUp, cmds>>

(* grace_timeout: the grace period is over; switch RF off. *)
GraceTimeout ==
    /\ graceTimer
    /\ graceTimer' = FALSE
    /\ SwitchRfOff
    /\ UNCHANGED <<lastRequest, delayTimer, rfCheck, trxOk, omlUp, cmds>>

(* rf_check_cb: for a BTS with its OML link up, a TRX that is not        *)
(* available, enabled and unlocked makes it drop the OML link.           *)
RfCheckCb ==
    /\ rfCheck
    /\ rfCheck' = FALSE
    /\ omlUp' = (omlUp /\ \A t \in Trxs : trxOk[t] /\ ~locked)
    /\ UNCHANGED <<policy, lastRequest, delayTimer, graceTimer, locked, trxOk, cmds>>

-----------------------------------------------------------------------------
(* Environment: NM state reports of the BTS, and the BTS reconnecting    *)
(* after its OML link was dropped (its TRXs boot disabled).              *)
NmStateReport(t) ==
    /\ omlUp
    /\ trxOk' = [trxOk EXCEPT ![t] = ~@]
    /\ UNCHANGED <<policy, lastRequest, delayTimer, graceTimer, rfCheck, locked, omlUp, cmds>>

OmlReconnect ==
    /\ ~omlUp
    /\ omlUp' = TRUE
    /\ trxOk' = [t \in Trxs |-> FALSE]
    /\ UNCHANGED <<policy, lastRequest, delayTimer, graceTimer, rfCheck, locked, cmds>>

Next ==
    \/ \E c \in {RF_CMD_OFF, RF_CMD_ON, RF_CMD_D_OFF, RF_CMD_QUERY, UNKNOWN} : RfReadCmd(c)
    \/ RfDelayCmdCb
    \/ GraceTimeout
    \/ RfCheckCb
    \/ \E t \in Trxs : NmStateReport(t)
    \/ OmlReconnect

Spec == Init /\ [][Next]_vars

-----------------------------------------------------------------------------
(* The grace timer runs exactly while the policy is GRACE: an RF ON or a  *)
(* direct off taking over from a scheduled off must cancel it, or it      *)
(* fires later and switches the RF off behind the operator's back        *)
(* (rf_delay_cmd_cb's osmo_timer_del calls, grace_timeout).               *)
GraceTimerOnlyInGrace ==
    graceTimer <=> policy = S_RF_GRACE

(* The RF check is only pending while RF is on and unlocked: after an off *)
(* or a direct off it would find the locked TRXs and drop the OML link    *)
(* of a BTS the operator merely switched off (rf_check_cb).              *)
RfCheckOnlyWhenOn ==
    rfCheck => policy = S_RF_ON /\ ~locked
====
