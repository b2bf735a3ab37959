------------------------- MODULE CurlRequestsProofs -------------------------
(***************************************************************************)
(* The safety invariants of CurlRequests, proved for any set of handles.   *)
(***************************************************************************)
EXTENDS CurlRequests, TLAPS

\* What the conjuncts need of each other: a handle is never both queued and
\* driven (the client keeps one request at a time), and the worker, once
\* notified, still has nothing to drive.
IInv ==
    /\ TypeOK
    /\ OnlyOpenRequestsRun
    /\ WaitingRemoveIsMarked
    /\ SleepsOnlyWhenIdle
    /\ active \cap toAdd = {}
    /\ worker = "notified" => active = {}

\* The constructor establishes the invariant.
LEMMA InitInductive == Init => IInv
BY NoneAssumption
   DEF Init, IInv, TypeOK, WorkerStates, RequestStates, OnlyOpenRequestsRun,
       WaitingRemoveIsMarked, SleepsOnlyWhenIdle

\* Add of a new request: nothing of the handle was queued or driven before.
LEMMA SendRequestInductive ==
    ASSUME IInv, NEW h \in Handles, SendRequest(h)
    PROVE  IInv'
<1> USE DEF IInv, SendRequest, Add, Notify
<1>1. TypeOK'
    BY DEF TypeOK, WorkerStates, RequestStates
<1>2. OnlyOpenRequestsRun'
    BY DEF TypeOK, OnlyOpenRequestsRun
<1>3. WaitingRemoveIsMarked' /\ SleepsOnlyWhenIdle'
    BY DEF TypeOK, WaitingRemoveIsMarked, SleepsOnlyWhenIdle
<1>4. (active \cap toAdd = {})' /\ (worker = "notified" => active = {})'
    BY DEF TypeOK, OnlyOpenRequestsRun, SleepsOnlyWhenIdle
<1> QED
    BY <1>1, <1>2, <1>3, <1>4

\* The three steps of Remove: a closed request is neither queued nor driven.
LEMMA RemoveInductive ==
    ASSUME IInv, NEW h \in Handles,
           RemoveInactive(h) \/ RemoveBegin(h) \/ RemoveEnd(h)
    PROVE  IInv'
<1> USE NoneAssumption DEF IInv
<1>1. CASE RemoveInactive(h)
    <2> USE <1>1 DEF RemoveInactive, CloseRequest
    <2>1. TypeOK'
        BY DEF TypeOK, RequestStates
    <2>2. OnlyOpenRequestsRun'
        BY DEF TypeOK, OnlyOpenRequestsRun
    <2>3. WaitingRemoveIsMarked' /\ SleepsOnlyWhenIdle'
        BY DEF WaitingRemoveIsMarked, SleepsOnlyWhenIdle
    <2> QED
        BY <2>1, <2>2, <2>3
<1>2. CASE RemoveBegin(h)
    <2> USE <1>2 DEF RemoveBegin, Notify
    <2>1. TypeOK'
        BY DEF TypeOK, WorkerStates
    <2>2. OnlyOpenRequestsRun'
        BY DEF OnlyOpenRequestsRun
    <2>3. WaitingRemoveIsMarked' /\ SleepsOnlyWhenIdle'
        BY DEF WaitingRemoveIsMarked, SleepsOnlyWhenIdle
    <2>4. (active \cap toAdd = {})' /\ (worker = "notified" => active = {})'
        BY DEF SleepsOnlyWhenIdle
    <2> QED
        BY <2>1, <2>2, <2>3, <2>4
<1>3. CASE RemoveEnd(h)
    <2> USE <1>3 DEF RemoveEnd, CloseRequest
    <2>1. TypeOK'
        BY DEF TypeOK, RequestStates
    <2>2. OnlyOpenRequestsRun'
        BY DEF TypeOK, OnlyOpenRequestsRun, WaitingRemoveIsMarked
    <2>3. WaitingRemoveIsMarked' /\ SleepsOnlyWhenIdle'
        BY DEF WaitingRemoveIsMarked, SleepsOnlyWhenIdle
    <2> QED
        BY <2>1, <2>2, <2>3
<1> QED
    BY <1>1, <1>2, <1>3

\* A pass of the worker takes over what was queued and releases what was marked.
LEMMA TakeOverInductive ==
    ASSUME IInv, TakeOver
    PROVE  IInv'
<1> USE DEF IInv, TakeOver
<1>1. TypeOK'
    BY DEF TypeOK, WorkerStates
<1>2. OnlyOpenRequestsRun'
    BY DEF OnlyOpenRequestsRun
<1>3. WaitingRemoveIsMarked' /\ SleepsOnlyWhenIdle'
    BY DEF WaitingRemoveIsMarked, SleepsOnlyWhenIdle
<1> QED
    BY <1>1, <1>2, <1>3

\* The completion callbacks close their requests before the handles are released.
LEMMA CompleteInductive ==
    ASSUME IInv, NEW ended \in SUBSET active, Complete(ended)
    PROVE  IInv'
<1> USE DEF IInv, Complete
<1>1. TypeOK'
    BY DEF TypeOK, WorkerStates, RequestStates
<1>2. OnlyOpenRequestsRun'
    BY DEF TypeOK, OnlyOpenRequestsRun
<1>3. WaitingRemoveIsMarked' /\ SleepsOnlyWhenIdle'
    BY DEF WaitingRemoveIsMarked, SleepsOnlyWhenIdle
<1> QED
    BY <1>1, <1>2, <1>3

\* The steps that only move the worker, and those of the destructor.
LEMMA WorkerAndDestructorInductive ==
    ASSUME IInv, Wake \/ PerformReturns \/ Exit \/ Destructor
    PROVE  IInv'
<1> USE DEF IInv, TypeOK, WorkerStates, OnlyOpenRequestsRun,
            WaitingRemoveIsMarked, SleepsOnlyWhenIdle
<1>1. CASE Wake
    BY <1>1 DEF Wake
<1>2. CASE PerformReturns
    BY <1>2 DEF PerformReturns
<1>3. CASE Exit
    BY <1>3 DEF Exit
<1>4. CASE DestroyBegin
    BY <1>4 DEF DestroyBegin, Notify
<1>5. CASE DestroyEnd
    BY <1>5 DEF DestroyEnd
<1>6. ASSUME NEW h \in Handles, DropActive(h) PROVE IInv'
    BY <1>6 DEF DropActive
<1> QED
    BY <1>1, <1>2, <1>3, <1>4, <1>5, <1>6 DEF Destructor

\* Every step of the class, and a stutter, keeps the invariant.
LEMMA NextInductive == IInv /\ [Next]_vars => IInv'
<1> SUFFICES ASSUME IInv, [Next]_vars
             PROVE  IInv'
    OBVIOUS
<1>1. CASE Caller
    BY <1>1, SendRequestInductive, RemoveInductive DEF Caller
<1>2. CASE Worker
    BY <1>2, TakeOverInductive, CompleteInductive, WorkerAndDestructorInductive
       DEF Worker
<1>3. CASE Destructor
    BY <1>3, WorkerAndDestructorInductive
<1>4. CASE UNCHANGED vars
    BY <1>4 DEF vars, IInv, TypeOK, OnlyOpenRequestsRun, WaitingRemoveIsMarked,
                SleepsOnlyWhenIdle
<1> QED
    BY <1>1, <1>2, <1>3, <1>4 DEF Next

\* The inductive invariant holds in every behaviour.
LEMMA Invariant == Spec => []IInv
BY InitInductive, NextInductive, PTL DEF Spec

\* Type correctness of the worker's lists and of the history.
THEOREM TypeCorrect == Spec => []TypeOK
<1>1. IInv => TypeOK
    BY DEF IInv
<1> QED
    BY <1>1, Invariant, PTL

\* No callback of a request comes after Remove returned or after its completion:
\* what the worker drives or is about to drive is open (do_curl_wrappers.cpp:49).
THEOREM NoCallbackAfterRemove == Spec => []OnlyOpenRequestsRun
<1>1. IInv => OnlyOpenRequestsRun
    BY DEF IInv
<1> QED
    BY <1>1, Invariant, PTL

\* A waiting Remove is always known to the worker (do_curl_wrappers.cpp:65).
THEOREM NoRemoveStranded == Spec => []WaitingRemoveIsMarked
<1>1. IInv => WaitingRemoveIsMarked
    BY DEF IInv
<1> QED
    BY <1>1, Invariant, PTL

\* No wake-up of the worker is lost (do_curl_wrappers.cpp:103).
THEOREM NoLostWakeup == Spec => []SleepsOnlyWhenIdle
<1>1. IInv => SleepsOnlyWhenIdle
    BY DEF IInv
<1> QED
    BY <1>1, Invariant, PTL
=============================================================================
