----------------------------- MODULE ChanAlloc -----------------------------
(***************************************************************************)
(* Timeslot and logical channel allocation of one BTS                      *)
(* (src/openbsc/src/chan_alloc.c), with the TEI-down handler of            *)
(* src/openbsc/src/libbsc/bsc_init.c that frees the channels of a TRX.     *)
(*                                                                         *)
(* A logical channel (lchan) is <<t, j, ss>>: TRX t (1 is c0, the first    *)
(* of bts->trx_list), timeslot j, subslot ss.  Each timeslot has a         *)
(* physical configuration (pchan); each lchan a type and an RSL state.     *)
(* The RSL side (activation, release acknowledge, error timer) lives in    *)
(* abis_rsl.c, outside this tree; it is modelled as environment steps on   *)
(* the lchan state only.                                                   *)
(***************************************************************************)
EXTENDS Naturals, Sequences

CONSTANTS
    NTrx,              \* number of TRXs in bts->trx_list
    NumTs,             \* timeslots per TRX (TRX_NR_TS is 8)
    Subslots,          \* subslots_per_pchan[], possibly scaled down
    ChanAllocReverse   \* bts->chan_alloc_reverse

\* enum gsm_phys_chan_config
PNONE == "NONE"
CCCH == "CCCH"
CCCH_SDCCH4 == "CCCH_SDCCH4"
TCH_F == "TCH_F"
TCH_H == "TCH_H"
SDCCH8 == "SDCCH8_SACCH8C"
Pchans == {PNONE, CCCH, CCCH_SDCCH4, TCH_F, TCH_H, SDCCH8}

\* enum gsm_chan_t
LNONE == "LNONE"
SDCCH == "SDCCH"
LTCH_F == "LTCH_F"
LTCH_H == "LTCH_H"
LchanTypes == {LNONE, SDCCH, LTCH_F, LTCH_H}

\* enum gsm_lchan_state, the states the RSL side drives an lchan through;
\* ACT_REQ is folded into ACTIVE (activation is one environment step) and
\* INACTIVE is never set by the code modelled here.
S_NONE == "S_NONE"
S_ACTIVE == "S_ACTIVE"
S_REL_REQ == "S_REL_REQ"
S_REL_ERR == "S_REL_ERR"
LchanStates == {S_NONE, S_ACTIVE, S_REL_REQ, S_REL_ERR}

TrxIds == 1..NTrx
Ts == 0..(NumTs - 1)
LastTs == NumTs - 1
MaxSub == CHOOSE n \in {Subslots[p] : p \in Pchans} : \A p \in Pchans : Subslots[p] <= n
Sub == 0..(MaxSub - 1)
Lchans == TrxIds \X Ts \X Sub
NoLchan == <<0, 0, 0>>
NoTs == <<0, 0>>

ASSUME /\ NTrx \in Nat \ {0} /\ NumTs \in 2..8
       /\ Subslots \in [Pchans -> 0..8]
       /\ ChanAllocReverse \in BOOLEAN

VARIABLES
    pchan,    \* pchan[t][j]: ts->pchan
    ltype,    \* ltype[l]: lchan->type
    lstate,   \* lstate[l]: lchan->state
    usable,   \* usable[t]: trx_is_usable (the NM state of an ip.access TRX)
    lastFail, \* the lchan type whose last lchan_alloc failed (S_CHALLOC_ALLOC_FAIL), LNONE
    conn      \* conn[l]: lchan->conn is set (a gsm_subscriber_connection is attached)

vars == <<pchan, ltype, lstate, usable, lastFail, conn>>

TypeOK ==
    /\ pchan \in [TrxIds -> [Ts -> Pchans]]
    /\ ltype \in [Lchans -> LchanTypes]
    /\ lstate \in [Lchans -> LchanStates]
    /\ usable \in [TrxIds -> BOOLEAN]
    /\ lastFail \in LchanTypes
    /\ conn \in [Lchans -> BOOLEAN]

Init ==
    /\ pchan = [t \in TrxIds |-> [j \in Ts |-> PNONE]]
    /\ ltype = [l \in Lchans |-> LNONE]
    /\ lstate = [l \in Lchans |-> S_NONE]
    /\ usable = [t \in TrxIds |-> TRUE]
    /\ lastFail = LNONE
    /\ conn = [l \in Lchans |-> FALSE]

Idle(l) == ltype[l] = LNONE /\ lstate[l] = S_NONE

(* The smallest element of a set of lchans or timeslots in (j, ss) order. *)
FirstIn(S) == CHOOSE x \in S : \A y \in S : x[2] < y[2] \/ (x[2] = y[2] /\ x[3] <= y[3])
FirstTs(S) == CHOOSE x \in S : \A y \in S : x <= y

(* _lc_find_trx: the first idle lchan of a timeslot configured as p on a  *)
(* usable TRX t, within the subslots that configuration has.              *)
LcFindTrx(t, p) ==
    LET free == {l \in {t} \X Ts \X Sub :
                    /\ pchan[t][l[2]] = p
                    /\ l[3] < Subslots[p]
                    /\ Idle(l)}
    IN IF ~usable[t] \/ free = {} THEN NoLchan ELSE FirstIn(free)

(* The timeslot range ts_alloc tries on TRX t for p, or abort: the policy *)
(* switch returns NULL for the whole BTS, not only for this TRX.          *)
(* On a secondary TRX the SDCCH8 case has no break and falls through      *)
(* to the TCH case, so its 'from = 1; to = 1' is overwritten.             *)
TsPolicy(t, p) ==
    IF t = 1
    THEN CASE p \in {CCCH, CCCH_SDCCH4} -> [abort |-> FALSE, range |-> 0..0]
           [] p \in {TCH_F, TCH_H}      -> [abort |-> FALSE, range |-> 1..LastTs]
           [] OTHER                     -> [abort |-> TRUE, range |-> {}]
    ELSE CASE p \in {SDCCH8, TCH_F, TCH_H} -> [abort |-> FALSE, range |-> 1..LastTs]
           [] OTHER                     -> [abort |-> TRUE, range |-> {}]

(* ts_alloc from TRX t on: the first unconfigured timeslot in the policy  *)
(* range of the first usable TRX that has one.                            *)
RECURSIVE TsAllocFrom(_, _)
TsAllocFrom(t, p) ==
    IF t > NTrx THEN NoTs
    ELSE IF ~usable[t] THEN TsAllocFrom(t + 1, p)
    ELSE LET pol == TsPolicy(t, p)
             free == {j \in pol.range : pchan[t][j] = PNONE}
         IN IF pol.abort THEN NoTs
            ELSE IF free = {} THEN TsAllocFrom(t + 1, p)
            ELSE <<t, FirstTs(free)>>

TsAlloc(p) == TsAllocFrom(1, p)

(* The TRXs in the order _lc_find_bts walks them. *)
TrxOrder == IF ChanAllocReverse THEN [i \in TrxIds |-> NTrx + 1 - i]
                                ELSE [i \in TrxIds |-> i]

(* _lc_find_bts: an idle lchan on an existing timeslot of configuration p *)
(* in TRX order, else (except for CCCH+SDCCH4) lchan 0 of a timeslot     *)
(* ts_alloc newly configures.  Result: the lchan and the new timeslot.    *)
LcFindBts(p) ==
    LET hits == {i \in TrxIds : LcFindTrx(TrxOrder[i], p) # NoLchan}
        ts == TsAlloc(p)
    IN IF hits # {}
       THEN [l |-> LcFindTrx(TrxOrder[FirstTs(hits)], p), ts |-> NoTs, p |-> p]
       ELSE IF p = CCCH_SDCCH4 \/ ts = NoTs
       THEN [l |-> NoLchan, ts |-> NoTs, p |-> p]
       ELSE [l |-> <<ts[1], ts[2], 0>>, ts |-> ts, p |-> p]
-----------------------------------------------------------------------------
(* The TCH/H fallback assigning the pchan enum GSM_PCHAN_TCH_F. *)
FallbackPchanEnum(type) == TCH_F

(* The TCH/H fallback keeping the requested type. *)
FallbackKeepType(type) == type

(* lchan_alloc, TCH/H with no TCH/H lchan: the TCH/F found is typed TCH/F. *)
FallbackType(type) == LTCH_F

(* The search of lchan_alloc: for SDCCH the CCCH+SDCCH4 timeslots first  *)
(* and SDCCH8 second (the other way round with chan_alloc_reverse); for  *)
(* TCH/H the TCH/F timeslots when no TCH/H lchan is to be had.  Result:  *)
(* the lchan, the newly configured timeslot and its pchan, the type.     *)
LchanAllocPick(type) ==
    CASE type = SDCCH ->
            LET first == IF ChanAllocReverse THEN SDCCH8 ELSE CCCH_SDCCH4
                second == IF ChanAllocReverse THEN CCCH_SDCCH4 ELSE SDCCH8
                r1 == LcFindBts(first)
                r == IF r1.l # NoLchan THEN r1 ELSE LcFindBts(second)
            IN [l |-> r.l, ts |-> r.ts, p |-> r.p, type |-> type]
      [] type = LTCH_F ->
            LET r == LcFindBts(TCH_F)
            IN [l |-> r.l, ts |-> r.ts, p |-> r.p, type |-> type]
      [] type = LTCH_H ->
            LET rh == LcFindBts(TCH_H)
                rf == LcFindBts(TCH_F)
            IN IF rh.l # NoLchan
               THEN [l |-> rh.l, ts |-> rh.ts, p |-> rh.p, type |-> type]
               ELSE [l |-> rf.l, ts |-> rf.ts, p |-> rf.p, type |-> FallbackType(type)]

(* lchan_alloc: configure the new timeslot, if any (ts_alloc), and give  *)
(* the lchan its type; a failure dispatches S_CHALLOC_ALLOC_FAIL and     *)
(* changes nothing else.  A conn still attached to the lchan is freed     *)
(* ("lchan->conn should be NULL"); the reset of sapis and multirate       *)
(* configuration is data this model leaves out.                           *)
LchanAlloc(type) ==
    LET r == LchanAllocPick(type)
    IN IF r.l = NoLchan
       THEN /\ lastFail' = type
            /\ UNCHANGED <<pchan, ltype, lstate, usable, conn>>
       ELSE /\ pchan' = IF r.ts = NoTs THEN pchan
                        ELSE [pchan EXCEPT ![r.ts[1]][r.ts[2]] = r.p]
            /\ ltype' = [ltype EXCEPT ![r.l] = r.type]
            /\ lastFail' = LNONE
            /\ conn' = [conn EXCEPT ![r.l] = FALSE]
            /\ UNCHANGED <<lstate, usable>>

(* ts_c0_alloc: configure TS 0 of c0 as CCCH or CCCH+SDCCH4 if unset. *)
TsC0Alloc(p) ==
    /\ p \in {CCCH, CCCH_SDCCH4}
    /\ pchan[1][0] = PNONE
    /\ pchan' = [pchan EXCEPT ![1][0] = p]
    /\ UNCHANGED <<ltype, lstate, usable, lastFail, conn>>

(* lchan_free without its subscr_con_free of a conn still attached. *)
LchanFreeKeepConn(l) ==
    /\ ltype' = [ltype EXCEPT ![l] = LNONE]
    /\ UNCHANGED conn

(* lchan_free: the type goes (the RSL state is left as it is), and a     *)
(* conn still attached is freed by subscr_con_free, clearing lchan->conn  *)
(* (after S_LCHAN_UNEXPECTED_RELEASE and S_CHALLOC_FREED are dispatched). *)
LchanFree(l) ==
    /\ ltype' = [ltype EXCEPT ![l] = LNONE]
    /\ conn' = [conn EXCEPT ![l] = FALSE]

(* lchan_reset: type and state back to NONE. *)
LchanReset(l) == <<[ltype EXCEPT ![l] = LNONE], [lstate EXCEPT ![l] = S_NONE]>>

(* lchan_release: the caller releases an active channel: REL_REQ. *)
LchanRelease(l) ==
    /\ ltype[l] # LNONE /\ lstate[l] = S_ACTIVE
    /\ lstate' = [lstate EXCEPT ![l] = S_REL_REQ]
    /\ UNCHANGED <<pchan, ltype, usable, lastFail, conn>>

(* inp_sig_cb, S_INP_TEI_DN on TRX t: every lchan of t not in state NONE *)
(* is freed (lchan_free, dropping its conn), every lchan of t is reset    *)
(* (lchan_reset leaves conn alone); gsm_bts_mo_reset then resets the NM   *)
(* state of the whole BTS, so no TRX is usable until NM reports again.    *)
TeiDown(t) ==
    /\ ltype' = [l \in Lchans |-> IF l[1] = t THEN LNONE ELSE ltype[l]]
    /\ conn' = [l \in Lchans |-> IF l[1] = t /\ lstate[l] # S_NONE THEN FALSE ELSE conn[l]]
    /\ lstate' = [l \in Lchans |-> IF l[1] = t THEN S_NONE ELSE lstate[l]]
    /\ usable' = [u \in TrxIds |-> FALSE]

InpTeiDown(t) ==
    /\ TeiDown(t)
    /\ UNCHANGED <<pchan, lastFail>>

-----------------------------------------------------------------------------
(* Environment: the RSL and NM sides outside this tree.                  *)

(* CHAN ACTIV and its ACK: an allocated lchan becomes active. *)
RslActivate(l) ==
    /\ ltype[l] # LNONE /\ lstate[l] = S_NONE
    /\ lstate' = [lstate EXCEPT ![l] = S_ACTIVE]
    /\ UNCHANGED <<pchan, ltype, usable, lastFail, conn>>

(* RF CHAN REL ACK: the lchan is freed and back to NONE. *)
RslReleaseAck(l) ==
    /\ lstate[l] = S_REL_REQ
    /\ LchanFree(l)
    /\ lstate' = [lstate EXCEPT ![l] = S_NONE]
    /\ UNCHANGED <<pchan, usable, lastFail>>

(* A release error: the lchan is freed but held in REL_ERR. *)
RslReleaseError(l) ==
    /\ lstate[l] = S_REL_REQ
    /\ LchanFree(l)
    /\ lstate' = [lstate EXCEPT ![l] = S_REL_ERR]
    /\ UNCHANGED <<pchan, usable, lastFail>>

(* The error timer of a REL_ERR lchan expires: lchan_reset. *)
ErrorTimeout(l) ==
    /\ lstate[l] = S_REL_ERR
    /\ ltype' = LchanReset(l)[1]
    /\ lstate' = LchanReset(l)[2]
    /\ UNCHANGED <<pchan, usable, lastFail, conn>>

(* NM reports the TRX running again (bootstrap after TEI up). *)
NmRunning(t) ==
    /\ ~usable[t]
    /\ usable' = [usable EXCEPT ![t] = TRUE]
    /\ UNCHANGED <<pchan, ltype, lstate, lastFail, conn>>

(* subscr_con_allocate: the BSC API (outside this tree) attaches a        *)
(* subscriber connection to an active lchan; talloc failing returns NULL  *)
(* and changes nothing.                                                    *)
SubscrConAllocate(l) ==
    /\ ltype[l] # LNONE /\ lstate[l] = S_ACTIVE /\ ~conn[l]
    /\ conn' = [conn EXCEPT ![l] = TRUE]
    /\ UNCHANGED <<pchan, ltype, lstate, usable, lastFail>>

(* subscr_con_free, called by the SCCP side (osmo_bsc_sccp.c): the conn   *)
(* is freed and lchan->conn cleared.                                       *)
SubscrConFree(l) ==
    /\ conn[l]
    /\ conn' = [conn EXCEPT ![l] = FALSE]
    /\ UNCHANGED <<pchan, ltype, lstate, usable, lastFail>>

Next ==
    \/ \E type \in {SDCCH, LTCH_F, LTCH_H} : LchanAlloc(type)
    \/ \E p \in {CCCH, CCCH_SDCCH4} : TsC0Alloc(p)
    \/ \E l \in Lchans : \/ LchanRelease(l)
                         \/ RslActivate(l)
                         \/ RslReleaseAck(l)
                         \/ RslReleaseError(l)
                         \/ ErrorTimeout(l)
                         \/ SubscrConAllocate(l)
                         \/ SubscrConFree(l)
    \/ \E t \in TrxIds : InpTeiDown(t) \/ NmRunning(t)

Spec == Init /\ [][Next]_vars

-----------------------------------------------------------------------------
(* The pchans an lchan type can live on. *)
Carries == [SDCCH |-> {CCCH_SDCCH4, SDCCH8}, LTCH_F |-> {TCH_F}, LTCH_H |-> {TCH_H}]

(* Every lchan in use sits on a timeslot configured for its type and on a *)
(* subslot that configuration has: lchan_alloc, with its TCH/H to TCH/F   *)
(* fallback retyping the lchan, and ts_alloc configuring the timeslot it  *)
(* hands lchan 0 of, never disagree with the timeslot's pchan.           *)
TypeMatchesPchan ==
    \A l \in Lchans :
        ltype[l] # LNONE =>
            /\ pchan[l[1]][l[2]] \in Carries[ltype[l]]
            /\ l[3] < Subslots[pchan[l[1]][l[2]]]

(* A subscriber connection never outlives its channel: lchan->conn is     *)
(* only set on an allocated lchan the RSL side still holds (active or     *)
(* releasing).  lchan_free on RF CHAN REL ACK or a release error, and the *)
(* TEI-down handler (lchan_free only for lchans not in NONE, lchan_reset   *)
(* for all), must drop it; a conn left behind would be found by           *)
(* lchan_find/connection_for_subscr and reused by the channel's next user. *)
ConnOnLiveLchan ==
    \A l \in Lchans : conn[l] => ltype[l] # LNONE /\ lstate[l] \in {S_ACTIVE, S_REL_REQ}

(* ts_alloc's comment: a secondary TRX carries TCH/F and TCH/H, and the   *)
(* SDCCH8 case sets 'from = 1; to = 1' - an SDCCH8 timeslot on a          *)
(* secondary TRX is TS 1.                                                *)
Sdcch8OnlyOnTs1 ==
    \A t \in TrxIds \ {1}, j \in Ts : pchan[t][j] = SDCCH8 => j = 1
====
