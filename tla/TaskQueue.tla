----------------------------- MODULE TaskQueue -----------------------------
(***************************************************************************)
(* class TaskQueue (client-lite/src/threading/task_queue.cpp) without its  *)
(* clock.  _ops is ordered by due time, first come first served among      *)
(* equals.  A task whose time has come is in the sequence "ready", in the  *)
(* order in which popNextReady hands it out; a task still ahead of its     *)
(* time is only counted in "delayed", a function on its kinds, until       *)
(* Due moves it to the end: tasks that are ready became so earlier.        *)
(***************************************************************************)
EXTENDS Naturals, Sequences, SequencesExt

\* _Add with no delay: due now, after everything that is already due
Sched(ready, task) == Append(ready, task)

\* _AddFront: one tick before the earliest task, so ahead of all of them and of
\* whatever an earlier _AddFront put there
SchedImmediate(ready, task) == <<task>> \o ready

\* _Add with a delay
SchedDelayed(delayed, task) == [delayed EXCEPT ![task] = @ + 1]

\* Remove(tag), for the kinds of task that carry the tag
Unschedule(ready, kinds) ==
    LET kept[i \in 0 .. Len(ready)] ==
            IF i = 0 THEN <<>>
            ELSE IF ready[i] \in kinds THEN kept[i - 1]
            ELSE Append(kept[i - 1], ready[i])
    IN  kept[Len(ready)]

UnscheduleDelayed(delayed, kinds) ==
    [task \in DOMAIN delayed |-> IF task \in kinds THEN 0 ELSE delayed[task]]

\* Exists(tag)
IsScheduled(ready, delayed, task) == delayed[task] > 0 \/ Contains(ready, task)
=============================================================================
