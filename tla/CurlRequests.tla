---------------------------- MODULE CurlRequests ----------------------------
(***************************************************************************)
(* class CurlRequests (client-lite/src/util/do_curl_wrappers.cpp): the one *)
(* worker thread that drives libcurl's multi handle, the two hand-over     *)
(* lists other threads fill under _mutex, and the rendezvous by which      *)
(* Remove waits until the worker has let go of an easy handle.             *)
(*                                                                         *)
(* The callers are HttpAgent objects, and all their calls come from the    *)
(* daemon's single task thread (download_manager.h): at most one Remove is *)
(* waiting, and while it waits no other call is made.  An HttpAgent makes  *)
(* one request at a time (http_agent.h:46): SendRequest has that guard.    *)
(* The destructor runs on another thread and may race with those calls.    *)
(*                                                                         *)
(* Left out: sockets and timeouts inside libcurl (a transfer may end at    *)
(* any moment, or never), and the 30 minute limit of the wait in Remove    *)
(* (line 75), which the worker's 2 s period keeps out of reach.            *)
(***************************************************************************)
EXTENDS FiniteSets

CONSTANTS
    Handles,    \* the easy handles, one per HttpAgent
    None        \* no handle

ASSUME NoneAssumption == None \notin Handles

VARIABLES
    toAdd,          \* _handlesToAdd: no handle is in the vector twice
    toRemove,       \* _handlesToRemove: likewise
    active,         \* _activeHandles: the handles curl_multi_perform drives
    worker,         \* where _multiPerformThread is in _DoWork
    keepRunning,    \* _fKeepRunning
    closing,        \* the handle whose Remove waits for inactiveSignal, or None
    request         \* history: what became of the last request of each handle

vars == <<toAdd, toRemove, active, worker, keepRunning, closing, request>>

\* "pass": about to lock and take over the lists; "perform": in
\* _PerformTransferTasks without the lock; "asleep": in _cv.wait; "notified":
\* woken, about to evaluate the wait's predicate; "exited": left _DoWork;
\* "joined": the destructor has also dropped every handle.
WorkerStates == {"pass", "perform", "asleep", "notified", "exited", "joined"}

\* "open": between Add and the completion callback or the return of Remove
RequestStates == {"none", "open", "done", "closed"}

(***************************************************************************)
(* One type invariant.                                                     *)
(***************************************************************************)
TypeOK ==
    /\ toAdd \subseteq Handles
    /\ toRemove \subseteq Handles
    /\ active \subseteq Handles
    /\ worker \in WorkerStates
    /\ keepRunning \in BOOLEAN
    /\ closing \in Handles \cup {None}
    /\ request \in [Handles -> RequestStates]

Init ==
    /\ toAdd = {}
    /\ toRemove = {}
    /\ active = {}
    /\ worker = "pass"
    /\ keepRunning = TRUE
    /\ closing = None
    /\ request = [h \in Handles |-> "none"]

\* _cv.notify_one: only the worker ever waits on _cv
Notify == worker' = IF worker = "asleep" THEN "notified" ELSE worker

-----------------------------------------------------------------------------
(***************************************************************************)
(* The callers.                                                            *)
(***************************************************************************)

\* Variant: notify_one forgotten in Add
AddSilently(h) ==
    /\ keepRunning
    /\ h \notin toAdd
    /\ toAdd' = toAdd \cup {h}
    /\ UNCHANGED <<toRemove, active, worker, keepRunning, closing>>

\* Add throws when the handle is already queued or the object is shutting down
Add(h) ==
    /\ keepRunning
    /\ h \notin toAdd
    /\ toAdd' = toAdd \cup {h}
    /\ Notify
    /\ UNCHANGED <<toRemove, active, keepRunning, closing>>

\* HttpAgent::SendRequest, by a client that keeps one request at a time
SendRequest(h) ==
    /\ closing = None
    /\ request[h] # "open"
    /\ Add(h)
    /\ request' = [request EXCEPT ![h] = "open"]

CloseRequest(h) ==
    request' = [request EXCEPT ![h] = IF @ = "open" THEN "closed" ELSE @]

\* Variant: line 55 forgotten, a handle the worker has not taken over stays queued
RemoveOnlyFromActive(h) ==
    /\ closing = None
    /\ worker # "joined"
    /\ h \notin active
    /\ CloseRequest(h)
    /\ UNCHANGED <<toAdd, toRemove, active, worker, keepRunning, closing>>

\* Remove of a handle the worker does not drive returns at once
RemoveInactive(h) ==
    /\ closing = None
    /\ worker # "joined"
    /\ h \notin active
    /\ toAdd' = toAdd \ {h}
    /\ CloseRequest(h)
    /\ UNCHANGED <<toRemove, active, worker, keepRunning, closing>>

\* Remove of an active handle marks it and goes to wait outside the lock
RemoveBegin(h) ==
    /\ closing = None
    /\ worker # "joined"
    /\ h \in active
    /\ toAdd' = toAdd \ {h}
    /\ toRemove' = toRemove \cup {h}
    /\ closing' = h
    /\ Notify
    /\ UNCHANGED <<active, keepRunning, request>>

\* inactiveSignal is set where the worker takes the handle out of the list
RemoveEnd(h) ==
    /\ closing = h
    /\ h \notin active
    /\ closing' = None
    /\ CloseRequest(h)
    /\ UNCHANGED <<toAdd, toRemove, active, worker, keepRunning>>

-----------------------------------------------------------------------------
(***************************************************************************)
(* The worker thread.                                                      *)
(***************************************************************************)

\* One pass of _DoWork under the lock: first the additions, then the removals
TakeOver ==
    /\ worker = "pass"
    /\ keepRunning
    /\ active' = (active \cup toAdd) \ toRemove
    /\ toAdd' = {}
    /\ toRemove' = {}
    /\ worker' = IF active' = {} THEN "asleep" ELSE "perform"
    /\ UNCHANGED <<keepRunning, closing, request>>

\* Variant: the predicate forgets the shutdown
WakeOnlyToAdd ==
    /\ worker = "notified"
    /\ worker' = IF toAdd # {} THEN "pass" ELSE "asleep"
    /\ UNCHANGED <<toAdd, toRemove, active, keepRunning, closing, request>>

\* The wait's predicate, evaluated under the lock when the worker was notified
Wake ==
    /\ worker = "notified"
    /\ worker' = IF ~keepRunning \/ toAdd # {} THEN "pass" ELSE "asleep"
    /\ UNCHANGED <<toAdd, toRemove, active, keepRunning, closing, request>>

\* Under the lock, the callbacks of the transfers that ended and their removal
\* from the active list; the loop ends when none is left running
Complete(ended) ==
    /\ worker = "perform"
    /\ ended # {}
    /\ active' = active \ ended
    /\ request' = [h \in Handles |-> IF h \in ended THEN "done" ELSE request[h]]
    /\ worker' = IF active' = {} THEN "pass" ELSE "perform"
    /\ UNCHANGED <<toAdd, toRemove, keepRunning, closing>>

\* _PerformTransferTasks returns after about 2 s even if transfers are running
PerformReturns ==
    /\ worker = "perform"
    /\ worker' = "pass"
    /\ UNCHANGED <<toAdd, toRemove, active, keepRunning, closing, request>>

Exit ==
    /\ worker = "pass"
    /\ ~keepRunning
    /\ worker' = "exited"
    /\ UNCHANGED <<toAdd, toRemove, active, keepRunning, closing, request>>

-----------------------------------------------------------------------------
(***************************************************************************)
(* ~CurlRequests: ask the worker to stop, join it, drop every handle.      *)
(***************************************************************************)
DestroyBegin ==
    /\ keepRunning
    /\ keepRunning' = FALSE
    /\ Notify
    /\ UNCHANGED <<toAdd, toRemove, active, closing, request>>

\* Variant: RemoveAll forgotten, inactiveSignal is never set
DestroyWithoutRemoveAll ==
    /\ worker = "exited"
    /\ worker' = "joined"
    /\ toAdd' = {}
    /\ toRemove' = {}
    /\ UNCHANGED <<active, keepRunning, closing, request>>

\* RemoveAll takes one handle after the other out of the multi handle and sets its
\* inactiveSignal.  It does so without _mutex, so that a Remove may come in between; that
\* both are then at the same vectors is undefined, and taken to work.
DropActive(h) ==
    /\ worker = "exited"
    /\ h \in active
    /\ active' = active \ {h}
    /\ UNCHANGED <<toAdd, toRemove, worker, keepRunning, closing, request>>

\* ... then the lists are cleared
DestroyEnd ==
    /\ worker = "exited"
    /\ active = {}
    /\ worker' = "joined"
    /\ toAdd' = {}
    /\ toRemove' = {}
    /\ UNCHANGED <<active, keepRunning, closing, request>>

Caller ==
    \E h \in Handles :
        SendRequest(h) \/ RemoveInactive(h) \/ RemoveBegin(h) \/ RemoveEnd(h)

Worker ==
    \/ TakeOver
    \/ Wake
    \/ PerformReturns
    \/ Exit
    \/ \E ended \in SUBSET active : Complete(ended)

Destructor == DestroyBegin \/ DestroyEnd \/ \E h \in Handles : DropActive(h)

Next == Caller \/ Worker \/ Destructor

\* The worker never stops between its steps: its waits are bounded by the 2 s
\* period, except the sleep, which ends with a notification.  A thread that was
\* signalled runs, and the destructor's join returns.  Nothing makes a transfer
\* end or a caller call.
Fairness ==
    /\ WF_vars(TakeOver)
    /\ WF_vars(Wake)
    /\ WF_vars(PerformReturns)
    /\ WF_vars(Exit)
    /\ WF_vars(DestroyEnd) /\ WF_vars(\E h \in Handles : DropActive(h))
    /\ \A h \in Handles : WF_vars(RemoveEnd(h))

Spec == Init /\ [][Next]_vars /\ Fairness

-----------------------------------------------------------------------------
(***************************************************************************)
(* Properties.                                                             *)
(***************************************************************************)

\* Whatever the worker drives, or is about to drive, is a request that is still
\* open: once Remove has returned, or the completion callback has run, no callback
\* of that request can come (download.cpp:319 "waits until all callbacks are
\* complete", 322 "safe to close now that no callbacks are expected").
OnlyOpenRequestsRun ==
    \A h \in active \cup toAdd : request[h] = "open"

\* A Remove that waits is known to the worker: its handle is marked as long as it
\* is active, so the next pass of _DoWork releases it; and it was taken out of
\* _handlesToAdd, so no pass can start it again behind the waiting thread.
WaitingRemoveIsMarked ==
    closing # None =>
        /\ closing \in active => closing \in toRemove
        /\ closing \notin toAdd

\* No lost wake-up: the worker sleeps only while there is nothing to add, nothing
\* to drive and no shutdown (the predicate of line 103 does not mention
\* _handlesToRemove, which is only sound because the active list is empty then).
SleepsOnlyWhenIdle ==
    worker = "asleep" => toAdd = {} /\ active = {} /\ keepRunning

\* Remove returns, whatever the transfer does and even when the destructor of
\* CurlRequests runs at the same time (RemoveAll sets inactiveSignal).
RemoveReturns ==
    \A h \in Handles : (closing = h) ~> (closing = None)

\* The destructor ends: the worker always sees _fKeepRunning fall.
DestructorEnds ==
    (~keepRunning) ~> (worker = "joined")

\* "Clients may now make new requests if they choose" (http_agent.cpp:104): a
\* request made after Close is queued or driven until it completes or is closed.
NoRequestLost ==
    \A h \in Handles :
        request[h] = "open" /\ closing # h /\ worker # "joined"
            => h \in toAdd \cup active
=============================================================================
