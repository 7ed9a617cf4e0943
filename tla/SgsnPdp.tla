------------------------------ MODULE SgsnPdp ------------------------------
(***************************************************************************)
(* PDP contexts of the SGSN towards one GGSN                               *)
(* (src/openbsc/src/gprs/sgsn_libgtp.c).                                   *)
(*                                                                         *)
(* The GMM layer asks sgsn_create_pdp_ctx for a context (an sgsn_pdp_ctx,  *)
(* backed by a libgtp pdp_t) and sgsn_delete_pdp_ctx to tear one down.     *)
(* libgtp sends the GTP requests, retransmits them, and reports the answer *)
(* or a timeout through cb_conf; every GTP message from the GGSN carries a *)
(* restart counter that cb_recovery watches.  libgtp and the GMM layer are *)
(* outside this tree and appear as the environment of the callbacks.      *)
(* sgsn_gtp_init registers libgtp's three sockets with the select loop;   *)
(* a GGSN answer is read only from a registered socket, while timeouts    *)
(* come from the retransmission timer.  The contexts belong to one MM    *)
(* context (one MS with several NSAPIs) whose GMM state the GMM layer     *)
(* changes; user data flows through cb_data_ind and                      *)
(* sgsn_rx_sndcp_ud_ind.                                                  *)
(***************************************************************************)
EXTENDS Integers, FiniteSets, Sequences

CONSTANTS
    Ctxs,            \* PDP context slots (an MM context and an NSAPI each)
    LibCapacity,     \* pdp_t entries libgtp has (pdp_newpdp fails beyond)
    GgsnVersion,     \* ggsn->gtp_version, 0 or 1
    MaxCreates,      \* bound on sgsn_create_pdp_ctx calls
    RecoveryValues   \* restart counter values the GGSN may report

\* pctx->state
PDP_STATE_NONE == "NONE"
PDP_STATE_CR_REQ == "CR_REQ"
PDP_STATE_CR_CONF == "CR_CONF"

\* libgtp requests in flight, tagged by type; the cause a confirmation brings
CREATE == "CREATE"
DELETE == "DELETE"
ACCEPT == "ACCEPT"
REJECT == "REJECT"
TIMEOUT == "TIMEOUT"

\* libgtp's sockets: GTPv0, GTPv1 control, GTPv1 user plane
FD0 == "fd0"
FD1C == "fd1c"
FD1U == "fd1u"

\* mm->mm_state; DEREGISTERED stands for every other GMM state
GMM_REGISTERED_NORMAL == "NORMAL"
GMM_REGISTERED_SUSPENDED == "SUSPENDED"
GMM_DEREGISTERED == "DEREGISTERED"
MmStates == {GMM_REGISTERED_NORMAL, GMM_REGISTERED_SUSPENDED, GMM_DEREGISTERED}

VARIABLES
    alloc,       \* alloc[c]: the sgsn_pdp_ctx exists
    state,       \* state[c]: pctx->state
    lib,         \* lib[c]: a libgtp pdp_t with priv = pctx exists
    version,     \* version[c]: pdp->version
    reqs,        \* set of <<type, c>>: GTP requests libgtp is handling
    restartCtr,  \* ggsn->remote_restart_ctr (-1 before the first)
    creates,     \* sgsn_create_pdp_ctx calls so far
    gtpUp,       \* sgsn_gtp_init returned 0
    fds,         \* the libgtp sockets registered with the select loop
    sndcp,       \* sndcp[c]: the SNDCP entity of c's NSAPI is active
    mmState,     \* mm->mm_state of the MS
    paged,       \* a BSSGP PS paging was sent for the MS
    used,        \* used[c]: c's user data counters are non-zero
    orphans      \* pdp_t entries libgtp keeps whose priv is a freed context

ctxVars == <<alloc, state, lib, version, reqs, orphans>>
vars == <<alloc, state, lib, version, reqs, orphans, restartCtr, creates,
          gtpUp, fds, sndcp, mmState, paged, used>>
dataVars == <<gtpUp, fds, sndcp, mmState, paged, used>>

NoCtr == -1

TypeOK ==
    /\ alloc \in [Ctxs -> BOOLEAN]
    /\ state \in [Ctxs -> {PDP_STATE_NONE, PDP_STATE_CR_REQ, PDP_STATE_CR_CONF}]
    /\ lib \in [Ctxs -> BOOLEAN]
    /\ version \in [Ctxs -> {0, 1}]
    /\ reqs \subseteq {CREATE, DELETE} \X Ctxs
    /\ orphans \in 0 .. LibCapacity
    /\ restartCtr \in {NoCtr} \cup RecoveryValues
    /\ creates \in 0..MaxCreates
    /\ gtpUp \in BOOLEAN /\ fds \subseteq {FD0, FD1C, FD1U}
    /\ sndcp \in [Ctxs -> BOOLEAN] /\ used \in [Ctxs -> BOOLEAN]
    /\ mmState \in MmStates /\ paged \in BOOLEAN

Init ==
    /\ alloc = [c \in Ctxs |-> FALSE]
    /\ state = [c \in Ctxs |-> PDP_STATE_NONE]
    /\ lib = [c \in Ctxs |-> FALSE]
    /\ version = [c \in Ctxs |-> GgsnVersion]
    /\ reqs = {}
    /\ orphans = 0
    /\ restartCtr = NoCtr
    /\ creates = 0
    /\ gtpUp = FALSE /\ fds = {}
    /\ sndcp = [c \in Ctxs |-> FALSE] /\ used = [c \in Ctxs |-> FALSE]
    /\ mmState = GMM_REGISTERED_NORMAL /\ paged = FALSE

(* The pdp_t entries libgtp has in use, orphaned ones included. *)
LibInUse == Cardinality({c \in Ctxs : lib[c]}) + orphans

(* The GTP IMSI as 16 nibbles, nibble n standing for bits 4n..4n+3 of the *)
(* uint64_t (TLC's integers are 32 bits wide).  An IMSI is a sequence of  *)
(* digits.                                                                *)
Nibbles == 0 .. 15

(* imsi_str2gtp padding with 0 instead of 0xf. *)
ImsiStr2GtpFillZero(str) ==
    IF Len(str) > 16 THEN [n \in Nibbles |-> 0]
    ELSE [n \in Nibbles |-> IF n < Len(str) THEN str[n + 1] % 16 ELSE 0]

(* imsi_str2gtp: more than 16 digits give 0; otherwise digit n + 1 goes   *)
(* to nibble n ((str[n] - '0') & 0xf) and the nibbles after the IMSI are  *)
(* filled with 0xf.                                                       *)
ImsiStr2Gtp(str) ==
    IF Len(str) > 16 THEN [n \in Nibbles |-> 0]
    ELSE [n \in Nibbles |-> IF n < Len(str) THEN str[n + 1] % 16 ELSE 15]

(* GSM 09.60 7.9.2: the IMSI IE carries the digits in TBCD, digit 1 in    *)
(* the low nibble of the first octet, up to the first 0xf filler.         *)
TbcdDigits(w) ==
    LET ends == {n \in Nibbles : w[n] = 15}
        k == IF ends = {} THEN 16 ELSE CHOOSE n \in ends : \A m \in ends : n <= m
    IN [i \in 1 .. k |-> w[i - 1]]

(* The IMSIs of an MM context: mm->imsi holds at most 15 digits (and is   *)
(* empty before the MS identified itself).                                *)
ImsiSamples == {<<>>, <<0>>, <<2, 6, 2, 4, 2>>,
                [i \in 1 .. 15 |-> 9], [i \in 1 .. 15 |-> (i * 7) % 10]}

-----------------------------------------------------------------------------
(* sgsn_create_pdp_ctx: sgsn_pdp_ctx_alloc (refused for an NSAPI in use), *)
(* then pdp_newpdp; when libgtp is out of contexts it returns NULL, with  *)
(* the sgsn_pdp_ctx already allocated.  Otherwise the pdp_t gets the      *)
(* GGSN's version, the state becomes CR_REQ and the create request goes   *)
(* out (its result is ignored: FIXME).                                    *)
SgsnCreatePdpCtx(c) ==
    /\ gtpUp
    /\ creates < MaxCreates
    /\ ~alloc[c]
    /\ creates' = creates + 1
    /\ alloc' = [alloc EXCEPT ![c] = TRUE]
    /\ IF LibInUse >= LibCapacity
       THEN UNCHANGED <<state, lib, version, reqs, orphans>>
       ELSE /\ lib' = [lib EXCEPT ![c] = TRUE]
            /\ version' = [version EXCEPT ![c] = GgsnVersion]
            /\ state' = [state EXCEPT ![c] = PDP_STATE_CR_REQ]
            /\ reqs' = reqs \cup {<<CREATE, c>>}
            /\ UNCHANGED orphans
    /\ used' = [used EXCEPT ![c] = FALSE]
    /\ UNCHANGED <<restartCtr, gtpUp, fds, sndcp, mmState, paged>>

(* The reject path of create_pdp_conf: state NONE, pdp_freepdp, reject   *)
(* to the MS, sgsn_pdp_ctx_free.                                         *)
RejectCreate(c) ==
    /\ state' = [state EXCEPT ![c] = PDP_STATE_NONE]
    /\ lib' = [lib EXCEPT ![c] = FALSE]
    /\ alloc' = [alloc EXCEPT ![c] = FALSE]
    /\ reqs' = reqs \ {<<CREATE, c>>}
    /\ UNCHANGED <<version, orphans>>

(* create_pdp_conf's timeout branch retrying through pctx->lib and      *)
(* lowering its version on every timeout instead of testing for GTPv1.   *)
CreateTimeoutDecrement(c) ==
    /\ version' = [version EXCEPT ![c] = @ - 1]
    /\ UNCHANGED <<alloc, state, lib, reqs, orphans>>

CreateTimeout(c) ==
    /\ state' = [state EXCEPT ![c] = PDP_STATE_NONE]
    /\ alloc' = [alloc EXCEPT ![c] = FALSE]
    /\ lib' = [lib EXCEPT ![c] = FALSE]
    /\ orphans' = orphans + 1
    /\ reqs' = reqs \ {<<CREATE, c>>}
    /\ UNCHANGED version

(* sgsn_gtp_fd_cb: a GGSN answer to a request of version v is read from   *)
(* the GTPv0 or the GTPv1 control socket, if it is registered.            *)
ControlFd(v) == IF v = 0 THEN FD0 ELSE FD1C
Readable(v) == ControlFd(v) \in fds

(* The user plane socket of version v. *)
UserFd(v) == IF v = 0 THEN FD0 ELSE FD1U

(* cb_conf, GTP_CREATE_PDP_REQ -> create_pdp_conf; a timeout comes from   *)
(* gtp_retrans in sgsn_gtp_tmr_cb, an answer from a socket.  Accepted: SNDCP is *)
(* activated and the MS gets ACT PDP ACC (gsm48_tx_gsm_act_pdp_acc moves  *)
(* the context to CR_CONF); any other cause is mapped and rejected.      *)
CreatePdpConf(c) ==
    /\ <<CREATE, c>> \in reqs
    /\ \E cause \in {ACCEPT, REJECT, TIMEOUT} :
          CASE cause = TIMEOUT -> CreateTimeout(c) /\ UNCHANGED sndcp
            [] cause = REJECT ->
                  /\ Readable(version[c])
                  /\ RejectCreate(c)
                  /\ UNCHANGED sndcp
            [] cause = ACCEPT ->
                  /\ Readable(version[c])
                  /\ sndcp' = [sndcp EXCEPT ![c] = TRUE]
                  /\ state' = [state EXCEPT ![c] = PDP_STATE_CR_CONF]
                  /\ reqs' = reqs \ {<<CREATE, c>>}
                  /\ UNCHANGED <<alloc, lib, version, orphans>>
    /\ UNCHANGED <<restartCtr, creates, gtpUp, fds, mmState, paged, used>>

(* sgsn_delete_pdp_ctx: the GMM layer deactivates an established context; *)
(* libgtp sends the delete request with teardown.                         *)
SgsnDeletePdpCtx(c) ==
    /\ alloc[c] /\ lib[c] /\ state[c] = PDP_STATE_CR_CONF
    /\ <<DELETE, c>> \notin reqs
    /\ reqs' = reqs \cup {<<DELETE, c>>}
    /\ UNCHANGED <<alloc, state, lib, version, orphans, restartCtr, creates>>
    /\ UNCHANGED dataVars

(* delete_pdp_conf freeing the context without deactivating SNDCP. *)
DeletePdpConfNoDeact(c) ==
    /\ <<DELETE, c>> \in reqs
    /\ reqs' = reqs \ {<<DELETE, c>>}
    /\ alloc' = [alloc EXCEPT ![c] = FALSE]
    /\ lib' = [lib EXCEPT ![c] = FALSE]
    /\ state' = [state EXCEPT ![c] = PDP_STATE_NONE]
    /\ UNCHANGED <<version, orphans, restartCtr, creates, sndcp>>
    /\ UNCHANGED <<gtpUp, fds, mmState, paged, used>>

(* cb_conf, GTP_DELETE_PDP_REQ -> delete_pdp_conf, whatever the cause:    *)
(* SNDCP deactivated, DEACT ACC to the MS, sgsn_pdp_ctx_free; libgtp      *)
(* frees its pdp_t after the callback.                                    *)
DeletePdpConf(c) ==
    /\ <<DELETE, c>> \in reqs
    /\ reqs' = reqs \ {<<DELETE, c>>}
    /\ alloc' = [alloc EXCEPT ![c] = FALSE]
    /\ lib' = [lib EXCEPT ![c] = FALSE]
    /\ state' = [state EXCEPT ![c] = PDP_STATE_NONE]
    /\ sndcp' = [sndcp EXCEPT ![c] = FALSE]
    /\ UNCHANGED <<version, orphans, restartCtr, creates>>
    /\ UNCHANGED <<gtpUp, fds, mmState, paged, used>>

(* cb_recovery: the first counter seen is stored; a different one later  *)
(* means the GGSN restarted and drop_all_pdp_for_ggsn is called (in the   *)
(* GMM layer, which then deactivates the established contexts through    *)
(* SgsnDeletePdpCtx).                                                    *)
CbRecovery(r) ==
    /\ gtpUp
    /\ restartCtr' = r
    /\ UNCHANGED <<alloc, state, lib, version, reqs, orphans, creates>>
    /\ UNCHANGED dataVars

(* sgsn_gtp_init: gtp_new_generic and the GTPv0 socket's registration    *)
(* are checked (their failure ends the SGSN and is not followed); the    *)
(* results of registering the GTPv1 control and user sockets are not     *)
(* assigned to rc, so a failed registration goes unnoticed.  Then the     *)
(* retransmission timer starts and the callbacks are set.                 *)
SgsnGtpInit ==
    /\ ~gtpUp
    /\ gtpUp' = TRUE
    /\ \E reg \in SUBSET {FD1C, FD1U} : fds' = {FD0} \cup reg
    /\ UNCHANGED <<alloc, state, lib, version, reqs, orphans, restartCtr, creates>>
    /\ UNCHANGED <<sndcp, mmState, paged, used>>

(* cb_data_ind: a downlink packet for an established context arrives on  *)
(* its user plane socket.  lib->priv is the context; a suspended MS is    *)
(* paged and the packet is still passed on (FIXME: queue it), a normal   *)
(* one gets it, in any other state the packet is dropped.  The counters   *)
(* are bumped and the packet goes to sndcp_unitdata_req.                  *)
CbDataInd(c) ==
    /\ gtpUp /\ lib[c] /\ state[c] = PDP_STATE_CR_CONF
    /\ UserFd(version[c]) \in fds
    /\ alloc[c]
    /\ CASE mmState = GMM_REGISTERED_SUSPENDED ->
                /\ paged' = TRUE
                /\ used' = [used EXCEPT ![c] = TRUE]
         [] mmState = GMM_REGISTERED_NORMAL ->
                /\ used' = [used EXCEPT ![c] = TRUE]
                /\ UNCHANGED paged
         [] OTHER -> UNCHANGED <<paged, used>>
    /\ UNCHANGED ctxVars
    /\ UNCHANGED <<restartCtr, creates, gtpUp, fds, sndcp, mmState>>

(* sgsn_rx_sndcp_ud_ind: SNDCP hands up an N-PDU of an active entity.     *)
(* The MM context is found by TLLI, the PDP context by NSAPI; one        *)
(* without a libgtp pdp_t is refused (-EIO).  Otherwise the counters are  *)
(* bumped and gtp_data_req sends the packet.                              *)
SgsnRxSndcpUdInd(c) ==
    /\ gtpUp /\ sndcp[c]
    /\ IF alloc[c] /\ lib[c]
       THEN used' = [used EXCEPT ![c] = TRUE]
       ELSE UNCHANGED used
    /\ UNCHANGED ctxVars
    /\ UNCHANGED <<restartCtr, creates, gtpUp, fds, sndcp, mmState, paged>>

(* The GMM layer moves the MS between registered, suspended and other     *)
(* states.                                                                *)
GmmStateChange(m) ==
    /\ gtpUp /\ m # mmState
    /\ mmState' = m
    /\ UNCHANGED ctxVars
    /\ UNCHANGED <<restartCtr, creates, gtpUp, fds, sndcp, paged, used>>

Next ==
    \/ SgsnGtpInit
    \/ \E c \in Ctxs : \/ SgsnCreatePdpCtx(c)
                       \/ CreatePdpConf(c)
                       \/ SgsnDeletePdpCtx(c)
                       \/ DeletePdpConf(c)
                       \/ CbDataInd(c)
                       \/ SgsnRxSndcpUdInd(c)
    \/ \E r \in RecoveryValues : CbRecovery(r)
    \/ \E m \in MmStates : GmmStateChange(m)

Spec == Init /\ [][Next]_vars

-----------------------------------------------------------------------------
SndcpOnlyEstablished ==
    \A c \in Ctxs : sndcp[c] => alloc[c] /\ lib[c] /\ state[c] = PDP_STATE_CR_CONF

(* Every libgtp pdp_t was created with an IMSI IE that decodes, as 09.60 *)
(* reads it, to the MS's IMSI, whichever IMSI the MS has, the empty one   *)
(* and those of full length included (imsi_str2gtp's nibble order and     *)
(* filler).                                                               *)
ImsiIe ==
    \A c \in Ctxs : lib[c] =>
        \A str \in ImsiSamples : TbcdDigits(ImsiStr2Gtp(str)) = str

(* Every allocated sgsn_pdp_ctx is backed by a libgtp pdp_t: none exists  *)
(* that no GTP procedure and no data indication can ever reach or free    *)
(* (sgsn_create_pdp_ctx's pdp_newpdp failure path).                       *)
CtxHasLib ==
    \A c \in Ctxs : alloc[c] => lib[c]
(* Every pdp_t libgtp keeps has a live sgsn_pdp_ctx as its priv: a late   *)
(* answer or a data packet of the GGSN for that pdp_t never makes         *)
(* cb_data_ind read a freed context (create_pdp_conf's timeout path,      *)
(* where libgtp passes pdp NULL).                                         *)
PdpPrivLive == orphans = 0
====
