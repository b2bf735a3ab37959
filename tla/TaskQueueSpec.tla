--------------------------- MODULE TaskQueueSpec ---------------------------
(***************************************************************************)
(* What TaskThread promises to those who schedule tasks, without clock and *)
(* condition variable: tasks that are ready run in order, tasks that are   *)
(* delayed become ready some time, behind those that are ready already.    *)
(* Download is built on these operators; TaskThread is shown to implement  *)
(* them.                                                                   *)
(***************************************************************************)
EXTENDS TaskQueue

CONSTANT Tasks

VARIABLES
    ready,      \* the tasks that are due, in the order they will run
    delayed     \* how many tasks of each kind are not due yet

Count(s, task) == Cardinality({i \in DOMAIN s : s[i] = task})

Init == ready = <<>> /\ delayed = [t \in Tasks |-> 0]

Enqueue(task) == ready' = Sched(ready, task) /\ UNCHANGED delayed

EnqueueFirst(task) == ready' = SchedImmediate(ready, task) /\ UNCHANGED delayed

EnqueueLater(task) == delayed' = SchedDelayed(delayed, task) /\ UNCHANGED ready

\* Time passes: delayed tasks, perhaps several at once, join the end
Due ==
    /\ IsPrefix(ready, ready')
    /\ \A t \in Tasks : delayed[t] - delayed'[t] = Count(ready', t) - Count(ready, t)

Run == ready # <<>> /\ ready' = Tail(ready) /\ UNCHANGED delayed

Cancel(kind) ==
    /\ ready' = Unschedule(ready, {kind})
    /\ delayed' = UnscheduleDelayed(delayed, {kind})

Next ==
    \/ \E t \in Tasks : Enqueue(t) \/ EnqueueFirst(t) \/ EnqueueLater(t) \/ Cancel(t)
    \/ Due
    \/ Run

Spec == Init /\ [][Next]_<<ready, delayed>>
=============================================================================
