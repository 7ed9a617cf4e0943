------------------------------ MODULE Paging ------------------------------
(***************************************************************************)
(* Paging of subscribers on the BTSs of their location area               *)
(* (src/openbsc/src/libbsc/paging.c).                                      *)
(*                                                                         *)
(* Each BTS keeps a list of pending paging requests, a budget of paging    *)
(* slots (available_slots), a work timer that pages the head of the list   *)
(* and rotates it to the back, a credit timer that refills the budget when *)
(* the BTS stops sending load indications, and per request the T3113       *)
(* timer (armed from creation to removal, so "the request exists").  Each  *)
(* paging_request call is numbered; its callback invocations are recorded. *)
(***************************************************************************)
EXTENDS Naturals, Sequences, SequencesExt

CONSTANTS
    Bts,            \* the BTSs of the network
    LacOrder,       \* the BTSs of the subscribers' LAC, in bts_list order
    Subscrs,        \* subscribers
    MaxCalls,       \* bound on paging_request calls
    CreditSlots,    \* the 20 slots paging_give_credit and paging_init_if_needed grant
    LoadValues,     \* free_slots values a PAGING LOAD indication may carry
    FreeChansCheck  \* free_chans_need != -1: the head may be skipped for lack of channels

ASSUME /\ IsInjective(LacOrder) /\ ToSet(LacOrder) \subseteq Bts
       /\ MaxCalls \in Nat /\ CreditSlots \in Nat \ {0}
       /\ LoadValues \subseteq Nat /\ FreeChansCheck \in BOOLEAN

NULL == "NULL"   \* a NULL _bts argument of paging_request_stop

(* Callback events (the GSM_PAGING_ events). *)
EXPIRED == "EXPIRED"
BUSY == "BUSY"
SUCCEEDED == "SUCCEEDED"

VARIABLES
    pending,      \* pending[b]: bts->paging.pending_requests
    slots,        \* slots[b]: available_slots
    workTimer,    \* workTimer[b]: work_timer pending
    creditTimer,  \* creditTimer[b]: credit_timer pending
    calls,        \* number of paging_request calls so far
    rc,           \* rc[k]: what call k returned ("ok", "EEXIST"), "none" before
    callbacks     \* set of <<k, event>>: cbfn of call k was invoked with event

vars == <<pending, slots, workTimer, creditTimer, calls, rc, callbacks>>

Call == 1..MaxCalls
Request == [subscr : Subscrs, call : Call, attempts : 0..1]
SlotBound == Max({CreditSlots} \cup LoadValues)

TypeOK ==
    /\ pending \in [Bts -> Seq(Request)]
    /\ slots \in [Bts -> 0..SlotBound]
    /\ workTimer \in [Bts -> BOOLEAN]
    /\ creditTimer \in [Bts -> BOOLEAN]
    /\ calls \in 0..MaxCalls
    /\ rc \in [Call -> {"none", "ok", "EEXIST"}]
    /\ callbacks \subseteq Call \X {EXPIRED, BUSY, SUCCEEDED}

(* paging_init_if_needed has run for every BTS: empty list, 20 slots. *)
Init ==
    /\ pending = [b \in Bts |-> <<>>]
    /\ slots = [b \in Bts |-> CreditSlots]
    /\ workTimer = [b \in Bts |-> FALSE]
    /\ creditTimer = [b \in Bts |-> FALSE]
    /\ calls = 0
    /\ rc = [k \in Call |-> "none"]
    /\ callbacks = {}

-----------------------------------------------------------------------------
(* paging_pending_request looking at the head of the list only. *)
IsPendingHeadOnly(b, s) == pending[b] # <<>> /\ Head(pending[b]).subscr = s

(* paging_pending_request *)
IsPending(b, s) == \E i \in 1..Len(pending[b]) : pending[b][i].subscr = s

(* The prefix of LacOrder that paging_request walks before it meets a BTS *)
(* already paging s (-EEXIST), or all of it; BTSs outside up are skipped  *)
(* before the check.                                                      *)
FirstPendingIndex(s, up) ==
    LET hits == {i \in 1..Len(LacOrder) : LacOrder[i] \in up /\ IsPending(LacOrder[i], s)}
    IN IF hits = {} THEN 0 ELSE CHOOSE i \in hits : \A j \in hits : i <= j

(* paging_request: for each BTS of the LAC in list order, a BTS whose c0  *)
(* is not usable (trx_is_usable, NM state outside this module) is skipped; *)
(* otherwise _paging_request returns -EEXIST if s is already pending there *)
(* (and paging_request returns it at once), else appends a request with a *)
(* fresh T3113 and schedules the work timer if it is idle.                *)
PagingRequest(s) ==
    /\ calls < MaxCalls
    /\ \E up \in SUBSET ToSet(LacOrder) :
       LET k == calls + 1
           stop == FirstPendingIndex(s, up)
           walked == {LacOrder[i] : i \in 1..(IF stop = 0 THEN Len(LacOrder) ELSE stop - 1)}
           added == walked \cap up
       IN /\ pending' = [b \in Bts |-> IF b \in added
                                       THEN Append(pending[b], [subscr |-> s, call |-> k, attempts |-> 0])
                                       ELSE pending[b]]
          /\ workTimer' = [b \in Bts |-> workTimer[b] \/ b \in added]
          /\ rc' = [rc EXCEPT ![k] = IF stop = 0 THEN "ok" ELSE "EEXIST"]
          /\ calls' = k
    /\ UNCHANGED <<slots, creditTimer, callbacks>>

(* The free-channel check and the zero-slot check dropped. *)
PagingHandleNoZeroCheck(b, canSend, wt, ct, sl) ==
    IF pending[b] = <<>>
    THEN /\ workTimer' = wt /\ creditTimer' = ct /\ slots' = [slots EXCEPT ![b] = sl]
         /\ UNCHANGED pending
    ELSE /\ pending' = [pending EXCEPT ![b] = Append(Tail(@), [Head(@) EXCEPT !.attempts = 1])]
         /\ slots' = [slots EXCEPT ![b] = sl - 1]
         /\ workTimer' = [wt EXCEPT ![b] = TRUE] /\ creditTimer' = ct

(* paging_handle_pending_requests, entered with the timers as they are   *)
(* once the firing one has expired (wt, ct) and with sl available slots: *)
(* nothing to do on an empty list; with no slots left arm the credit     *)
(* timer and stop; if the free-channel check refuses the head, only      *)
(* re-arm the work timer; otherwise page the head (attempts > 0), spend  *)
(* a slot, move the head to the back and re-arm the work timer.          *)
PagingHandlePendingRequests(b, canSend, wt, ct, sl) ==
    /\ slots' = [slots EXCEPT ![b] = IF pending[b] # <<>> /\ sl > 0 /\ canSend
                                     THEN sl - 1 ELSE sl]
    /\ CASE pending[b] = <<>> ->
              workTimer' = wt /\ creditTimer' = ct /\ UNCHANGED pending
         [] sl = 0 ->
              workTimer' = wt /\ creditTimer' = [ct EXCEPT ![b] = TRUE] /\ UNCHANGED pending
         [] ~canSend ->
              workTimer' = [wt EXCEPT ![b] = TRUE] /\ creditTimer' = ct /\ UNCHANGED pending
         [] OTHER ->
              /\ pending' = [pending EXCEPT ![b] = Append(Tail(@), [Head(@) EXCEPT !.attempts = 1])]
              /\ workTimer' = [wt EXCEPT ![b] = TRUE] /\ creditTimer' = ct

(* can_send_pag_req is consulted only when free_chans_need != -1; its    *)
(* answer depends on the channel load, which this module leaves open.    *)
CanSendChoices == IF FreeChansCheck THEN BOOLEAN ELSE {TRUE}

(* paging_worker: the work timer fires. *)
PagingWorker(b) ==
    /\ workTimer[b]
    /\ \E canSend \in CanSendChoices :
          PagingHandlePendingRequests(b, canSend, [workTimer EXCEPT ![b] = FALSE],
                                      creditTimer, slots[b])
    /\ UNCHANGED <<calls, rc, callbacks>>

(* paging_give_credit: the credit timer fires; 20 slots, then handle. *)
PagingGiveCredit(b) ==
    /\ creditTimer[b]
    /\ \E canSend \in CanSendChoices :
          PagingHandlePendingRequests(b, canSend, workTimer,
                                      [creditTimer EXCEPT ![b] = FALSE], CreditSlots)
    /\ UNCHANGED <<calls, rc, callbacks>>

(* paging_schedule_if_needed *)
ScheduleIfNeeded(b) ==
    workTimer' = [workTimer EXCEPT ![b] = @ \/ pending[b] # <<>>]

(* paging_update_buffer_space without its paging_schedule_if_needed. *)
UpdateBufferSpaceNoSchedule(b, n) ==
    /\ creditTimer' = [creditTimer EXCEPT ![b] = FALSE]
    /\ slots' = [slots EXCEPT ![b] = n]
    /\ UNCHANGED workTimer

(* paging_update_buffer_space: a PAGING LOAD indication with n free slots *)
(* cancels the credit timer, sets the budget and schedules the worker.     *)
PagingUpdateBufferSpace(b, n) ==
    /\ creditTimer' = [creditTimer EXCEPT ![b] = FALSE]
    /\ slots' = [slots EXCEPT ![b] = n]
    /\ ScheduleIfNeeded(b)

UpdateBufferSpace(b) ==
    /\ \E n \in LoadValues : PagingUpdateBufferSpace(b, n)
    /\ UNCHANGED <<pending, calls, rc, callbacks>>

(* paging_T3113_expired: request i of b times out.  It is removed first, *)
(* then cbfn reports EXPIRED if the subscriber was ever paged, else BUSY. *)
PagingT3113Expired(b, i) ==
    LET req == pending[b][i]
    IN /\ pending' = [pending EXCEPT ![b] = RemoveAt(@, i)]
       /\ callbacks' = callbacks \cup {<<req.call, IF req.attempts > 0 THEN EXPIRED ELSE BUSY>>}
       /\ UNCHANGED <<slots, workTimer, creditTimer, calls, rc>>

T3113Expired(b) == \E i \in 1..Len(pending[b]) : PagingT3113Expired(b, i)

(* The index of the first request of s on b, 0 if none. *)
FirstOf(b, s) ==
    IF IsPending(b, s)
    THEN CHOOSE i \in 1..Len(pending[b]) :
            /\ pending[b][i].subscr = s
            /\ \A j \in 1..(i - 1) : pending[b][j].subscr # s
    ELSE 0

(* _paging_request_stop on b: the first request of s is removed. *)
StopOn(b, s) ==
    IF FirstOf(b, s) = 0 THEN pending[b] ELSE RemoveAt(pending[b], FirstOf(b, s))

(* paging_request_stop(_bts, s, conn): stop on _bts first, calling cbfn   *)
(* with SUCCEEDED when a connection is given, then silently on every     *)
(* other BTS of the LAC.  _bts may be NULL or outside the LAC.            *)
PagingRequestStop(bts, s, conn) ==
    LET lac == ToSet(LacOrder)
        stopped == lac \cup ({bts} \cap Bts)
    IN /\ pending' = [b \in Bts |-> IF b \in stopped THEN StopOn(b, s) ELSE pending[b]]
       /\ callbacks' = callbacks \cup
             {<<pending[b][FirstOf(b, s)].call, SUCCEEDED>> :
                 b \in {x \in {bts} \cap Bts : conn /\ FirstOf(x, s) # 0}}
       /\ UNCHANGED <<slots, workTimer, creditTimer, calls, rc>>

RequestStop ==
    \E bts \in Bts \cup {NULL}, s \in Subscrs, conn \in BOOLEAN :
        PagingRequestStop(bts, s, conn)

Next ==
    \/ \E s \in Subscrs : PagingRequest(s)
    \/ \E b \in Bts : \/ PagingWorker(b)
                      \/ PagingGiveCredit(b)
                      \/ UpdateBufferSpace(b)
                      \/ T3113Expired(b)
    \/ RequestStop

Spec == Init /\ [][Next]_vars

-----------------------------------------------------------------------------
(* A BTS with pending requests always has a timer that will handle them:  *)
(* the work timer, or the credit timer when the slots ran out.  Otherwise *)
(* paging on that BTS stops until the next request or load indication.    *)
(* About paging_handle_pending_requests, paging_give_credit and           *)
(* paging_update_buffer_space deleting the credit timer.                  *)
NotStuck ==
    \A b \in Bts : pending[b] # <<>> => workTimer[b] \/ creditTimer[b]

(* A subscriber is paged at most once per BTS: paging_request refuses    *)
(* with -EEXIST where a request is pending, and no other step adds one.   *)
OnePerBts ==
    \A b \in Bts : \A i, j \in 1..Len(pending[b]) :
        i # j => pending[b][i].subscr # pending[b][j].subscr

(* cbfn is only ever called for a paging_request that succeeded: a call  *)
(* that passed -EEXIST to its caller has left nothing behind that could  *)
(* call back later.                                                      *)
NoCallbackAfterError ==
    /\ \A cb \in callbacks : rc[cb[1]] = "ok"
    /\ \A b \in Bts : \A i \in 1..Len(pending[b]) : rc[pending[b][i].call] = "ok"
=============================================================================
