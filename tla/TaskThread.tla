----------------------------- MODULE TaskThread -----------------------------
(***************************************************************************)
(* class TaskThread with its TaskQueue (client-lite/src/threading): the    *)
(* one thread that runs the tasks of the agent when their time has come,   *)
(* the threads that schedule tasks, those that wait in SchedBlock for one  *)
(* to be run, and the destructor that stops the thread.                    *)
(*                                                                         *)
(* The lock _taskQMutex is held in each action that touches the queue.     *)
(* Time is counted in units of duration_t(1).  What a task does to its     *)
(* Download is not modelled here; what it schedules is, as an action any   *)
(* thread may take.  A tag stands for the tasks scheduled with it.         *)
(***************************************************************************)
EXTENDS Integers, FiniteSets

CONSTANTS
    Tags,           \* tags of the tasks that may be unscheduled
    Callers,        \* threads that use SchedBlock
    Stop,           \* the task of the destructor
    Delays,         \* the delays that are asked for
    MaxTime,        \* bound of the clock
    MaxScheduled    \* bound of the number of tasks scheduled

Tasks == Tags \cup Callers \cup {Stop}

ASSUME TaskThreadAssumption ==
    /\ Stop \notin Tags \cup Callers
    /\ Tags \cap Callers = {}
    /\ Delays \subseteq Nat
    /\ MaxTime \in Nat
    /\ MaxScheduled \in Nat

VARIABLES
    now,        \* clock_t::now()
    ops,        \* _ops: a multimap keeps the insertion order (nth) of equal times
    nth,        \* number of tasks scheduled so far
    poll,       \* where the thread is in _DoPoll
    wakeAt,     \* when its wait_for ends
    notified,   \* _taskQCond was notified since the thread went to wait
    current,    \* the task it runs
    fRunning,   \* _fRunning
    call,       \* the callers of SchedBlock and their completionEvent
    owner       \* the thread that destroys the object

queueVars == <<ops, nth>>
pollVars  == <<poll, wakeAt, current, fRunning>>
vars == <<now, queueVars, pollVars, notified, call, owner>>

\* How a task was scheduled (history): at the front, at the end, or for later
Ways == {"front", "end", "later"}
Ops == [due : Int, nth : Nat, task : Tasks, way : Ways]

TypeOK ==
    /\ now \in 0 .. MaxTime
    /\ ops \subseteq Ops
    /\ nth \in Nat
    /\ poll \in {"top", "forever", "until", "run", "exited"}
    /\ wakeAt \in Int
    /\ notified \in BOOLEAN
    /\ current \in Tasks
    /\ fRunning \in BOOLEAN
    /\ call \in [Callers -> {"idle", "waiting", "signalled"}]
    /\ owner \in {"alive", "joining", "gone"}

Init ==
    /\ now = 0
    /\ ops = {}
    /\ nth = 0
    /\ poll = "top"
    /\ wakeAt = 0
    /\ notified = FALSE
    /\ current = Stop
    /\ fRunning = TRUE
    /\ call = [c \in Callers |-> "idle"]
    /\ owner = "alive"

Waiting == poll \in {"forever", "until"}

-----------------------------------------------------------------------------
(***************************************************************************)
(* The queue.                                                              *)
(***************************************************************************)

\* Variant: equal times are served last in, first out
BeforeReversed(a, b) == a.due < b.due \/ (a.due = b.due /\ a.nth > b.nth)

\* The order of the multimap
Before(a, b) == a.due < b.due \/ (a.due = b.due /\ a.nth < b.nth)

IsFirst(op) == \A other \in ops : other = op \/ Before(op, other)

\* _taskQCond.notify_all: only the thread waits on it
Notify == notified' = Waiting

Insert(due, task, way) ==
    /\ nth < MaxScheduled
    /\ ops' = ops \cup {[due |-> due, nth |-> nth, task |-> task, way |-> way]}
    /\ nth' = nth + 1

\* Variant: the thread is woken only if it may be asleep for ever
AddNotifyingTheIdle(task, delay) ==
    /\ Insert(now + delay, task, IF delay = 0 THEN "end" ELSE "later")
    /\ notified' = (poll = "forever")

\* TaskQueue::Add and notify_all
Add(task, delay) ==
    /\ Insert(now + delay, task, IF delay = 0 THEN "end" ELSE "later")
    /\ Notify

\* Variant: just before now, wherever the earliest task is
AddBeforeNow(task) ==
    /\ Insert(now - 1, task, "front")
    /\ Notify

\* TaskQueue::AddFront and notify_all: just before now and every task
AddFront(task) ==
    /\ \E earliest \in {now} \cup {op.due : op \in ops} :
        /\ earliest <= now
        /\ \A op \in ops : earliest <= op.due
        /\ Insert(earliest - 1, task, "front")
    /\ Notify

-----------------------------------------------------------------------------
(***************************************************************************)
(* The threads that schedule: tasks with a tag, from any thread, and calls *)
(* that wait.                                                              *)
(***************************************************************************)
Sched(tag, delay) ==
    /\ owner # "gone"
    /\ Add(tag, delay)
    /\ UNCHANGED <<now, pollVars, call, owner>>

Unschedule(tag) ==
    /\ owner # "gone"
    /\ \E op \in ops : op.task = tag
    /\ ops' = {op \in ops : op.task # tag}
    /\ Notify
    /\ UNCHANGED <<now, nth, pollVars, call, owner>>

\* SchedBlock on another thread, as far as its wait
SchedBlock(c, immediate) ==
    /\ owner = "alive"
    /\ call[c] = "idle"
    /\ call' = [call EXCEPT ![c] = "waiting"]
    /\ IF immediate THEN AddFront(c) ELSE Add(c, 0)
    /\ UNCHANGED <<now, pollVars, owner>>

\* Variant: the wait has a limit, and its result is not looked at
SchedBlockGivesUp(c) ==
    /\ call[c] # "idle"
    /\ call' = [call EXCEPT ![c] = "idle"]
    /\ UNCHANGED <<now, queueVars, pollVars, notified, owner>>

\* The AutoResetEvent lets its one waiter go
SchedBlockReturns(c) ==
    /\ call[c] = "signalled"
    /\ call' = [call EXCEPT ![c] = "idle"]
    /\ UNCHANGED <<now, queueVars, pollVars, notified, owner>>

-----------------------------------------------------------------------------
(***************************************************************************)
(* _DoPoll: one pass of its loop at a time.                                *)
(***************************************************************************)
PopNextReady ==
    /\ poll = "top" /\ fRunning
    /\ \E op \in ops :
        /\ IsFirst(op)
        /\ op.due <= now
        /\ ops' = ops \ {op}
        /\ current' = op.task
    /\ poll' = "run"
    /\ UNCHANGED <<now, nth, wakeAt, fRunning, notified, call, owner>>

WaitForTask ==
    /\ poll = "top" /\ fRunning
    /\ ops = {}
    /\ poll' = "forever"
    /\ notified' = FALSE
    /\ UNCHANGED <<now, queueVars, wakeAt, current, fRunning, call, owner>>

WaitForTime ==
    /\ poll = "top" /\ fRunning
    /\ \E op \in ops :
        /\ IsFirst(op)
        /\ op.due > now
        /\ wakeAt' = op.due
    /\ poll' = "until"
    /\ notified' = FALSE
    /\ UNCHANGED <<now, queueVars, current, fRunning, call, owner>>

WakeUp ==
    /\ \/ Waiting /\ notified
       \/ poll = "until" /\ wakeAt <= now
    /\ poll' = "top"
    /\ UNCHANGED <<now, queueVars, wakeAt, current, fRunning, notified, call, owner>>

\* A condition variable may return without reason; the loop has no other guard
WakeSpuriously ==
    /\ Waiting
    /\ poll' = "top"
    /\ UNCHANGED <<now, queueVars, wakeAt, current, fRunning, notified, call, owner>>

\* Variant: the stop is only noted when nothing is left to do
RunStopWhenDone ==
    /\ poll = "run"
    /\ poll' = "top"
    /\ call' = [c \in Callers |-> IF c = current THEN "signalled" ELSE call[c]]
    /\ fRunning' = (fRunning /\ ~(current = Stop /\ ops = {}))
    /\ UNCHANGED <<now, queueVars, wakeAt, current, notified, owner>>

\* Variant: an exception of the task skips SetEvent
RunMayThrow ==
    /\ poll = "run"
    /\ poll' = "top"
    /\ call' \in {call, [c \in Callers |-> IF c = current THEN "signalled" ELSE call[c]]}
    /\ fRunning' = (fRunning /\ current # Stop)
    /\ UNCHANGED <<now, queueVars, wakeAt, current, notified, owner>>

\* The task returns.  That of a call sets its event, that of the destructor ends
\* the loop.
Run ==
    /\ poll = "run"
    /\ poll' = "top"
    /\ call' = [c \in Callers |-> IF c = current THEN "signalled" ELSE call[c]]
    /\ fRunning' = (fRunning /\ current # Stop)
    /\ UNCHANGED <<now, queueVars, wakeAt, current, notified, owner>>

Exit ==
    /\ poll = "top" /\ ~fRunning
    /\ poll' = "exited"
    /\ UNCHANGED <<now, queueVars, wakeAt, current, fRunning, notified, call, owner>>

-----------------------------------------------------------------------------
(***************************************************************************)
(* ~TaskThread.  No call is in progress: the manager that owns the thread  *)
(* is destroyed after the REST controller, which waits for its calls.      *)
(***************************************************************************)
Destroy ==
    /\ owner = "alive"
    /\ \A c \in Callers : call[c] = "idle"
    /\ owner' = "joining"
    /\ AddFront(Stop)
    /\ UNCHANGED <<now, pollVars, call>>

Join ==
    /\ owner = "joining"
    /\ poll = "exited"
    /\ owner' = "gone"
    /\ UNCHANGED <<now, queueVars, pollVars, notified, call>>

Tick ==
    /\ now < MaxTime
    /\ now' = now + 1
    /\ UNCHANGED <<queueVars, pollVars, notified, call, owner>>

Poll == PopNextReady \/ WaitForTask \/ WaitForTime \/ WakeUp \/ Run \/ Exit

Client ==
    \/ \E tag \in Tags : Unschedule(tag) \/ \E delay \in Delays : Sched(tag, delay)
    \/ \E c \in Callers :
        SchedBlockReturns(c) \/ \E immediate \in BOOLEAN : SchedBlock(c, immediate)

Next == Client \/ Poll \/ WakeSpuriously \/ Destroy \/ Join \/ Tick

\* The thread runs, time passes, and a thread that is let go returns.  Nobody
\* has to schedule anything.
Fairness ==
    /\ WF_vars(Poll)
    /\ WF_vars(Tick)
    /\ WF_vars(Join)
    /\ \A c \in Callers : WF_vars(SchedBlockReturns(c))

Spec == Init /\ [][Next]_vars /\ Fairness

-----------------------------------------------------------------------------
(***************************************************************************)
(* Properties.                                                             *)
(***************************************************************************)

\* No lost wake-up: while the thread waits and nobody notified it, there is no task
\* at all, or none before the end of its wait (the three branches of _DoPoll against
\* whatever is scheduled or unscheduled during the wait).
WakesInTime ==
    ~notified =>
        /\ poll = "forever" => ops = {}
        /\ poll = "until" => \A op \in ops : wakeAt <= op.due

\* The order the agent relies on.  Tasks scheduled at the end run in the order of
\* scheduling, so a status sees the updates before it (download_manager.cpp:96); a
\* task scheduled at the front runs before all that were there.
OrderIsKept ==
    \A a \in ops, b \in ops :
        a.nth < b.nth =>
            /\ a.way = "end" /\ b.way = "end" => Before(a, b)
            /\ b.way = "front" => Before(b, a)

\* A caller of SchedBlock waits exactly as long as its task is in the queue, or being
\* run: its completionEvent lives on its stack, so the task must not run a second
\* time, nor be lost while the caller waits for ever.
CallIsPending ==
    \A c \in Callers :
        /\ call[c] = "waiting" <=>
            (\E op \in ops : op.task = c) \/ (poll = "run" /\ current = c)
        /\ ~((\E op \in ops : op.task = c) /\ poll = "run" /\ current = c)
        /\ \A a \in ops, b \in ops : a.task = c /\ b.task = c => a = b

\* Every SchedBlock returns.
SchedBlockEnds == \A c \in Callers : (call[c] = "waiting") ~> (call[c] = "idle")

\* The destructor ends, whatever is still in the queue.
DestructorEnds == (owner = "joining") ~> (owner = "gone")

-----------------------------------------------------------------------------
(***************************************************************************)
(* What it implements: the queue without a clock.                          *)
(***************************************************************************)

\* The place of an entry among those of D, and the tasks of D in the order of the multimap
PlaceIn(D, op) == Cardinality({other \in D : other = op \/ Before(other, op)})

InOrder(D) ==
    [i \in 1 .. Cardinality(D) |-> (CHOOSE op \in D : PlaceIn(D, op) = i).task]

\* The tasks whose time has come, and how many are still to come
Ready == InOrder({op \in ops : op.due <= now})

Delayed == [t \in Tasks |-> Cardinality({op \in ops : op.task = t /\ op.due > now})]

Queue == INSTANCE TaskQueueSpec WITH ready <- Ready, delayed <- Delayed

\* The thread runs and orders tasks as the untimed queue does that Download is
\* modelled with (task_queue.cpp).
ImplementsQueue == Queue!Spec
=============================================================================
