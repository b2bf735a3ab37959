-------------------------- MODULE TaskThreadProofs --------------------------
(***************************************************************************)
(* TaskThread keeps its safety properties for every set of tags and        *)
(* callers, every delay and every bound of the clock.                      *)
(***************************************************************************)
EXTENDS TaskThread, Sequences, FiniteSetTheorems, FunctionTheorems, TLAPS

\* The insertion order tells the entries of the queue apart, and a task scheduled
\* without delay is due at once.
EntriesInOrder ==
    /\ \A op \in ops : op.nth < nth
    /\ \A a \in ops, b \in ops : a.nth = b.nth => a = b
    /\ \A op \in ops : op.way = "end" => op.due <= now

IInv == TypeOK /\ EntriesInOrder /\ WakesInTime /\ OrderIsKept /\ CallIsPending

\* A new entry: at its place in the queue it breaks no order (_Add, _AddFront).
LEMMA InsertKeepsOrder ==
    ASSUME NEW due \in Int, NEW task \in Tasks, NEW way \in Ways,
           TypeOK, EntriesInOrder, OrderIsKept,
           Insert(due, task, way), now' = now,
           way = "end" => due = now,
           way = "front" => \A op \in ops : due < op.due
    PROVE  /\ ops' \subseteq Ops
           /\ nth' \in Nat
           /\ EntriesInOrder'
           /\ OrderIsKept'
<1> DEFINE new == [due |-> due, nth |-> nth, task |-> task, way |-> way]
<1>1. new \in Ops /\ ops' = ops \cup {new} /\ nth' = nth + 1
  BY DEF TypeOK, Ops, Insert
<1>2. ops' \subseteq Ops /\ nth' \in Nat
  BY <1>1 DEF TypeOK
<1>3. EntriesInOrder'
  BY <1>1 DEF EntriesInOrder, TypeOK, Ops
<1>4. OrderIsKept'
  <2> SUFFICES ASSUME NEW a \in ops', NEW b \in ops', a.nth < b.nth
               PROVE  /\ a.way = "end" /\ b.way = "end" => Before(a, b)
                      /\ b.way = "front" => Before(b, a)
    BY DEF OrderIsKept, Before
  <2>1. a \in ops
    BY <1>1 DEF EntriesInOrder, TypeOK, Ops
  <2>2. CASE b \in ops
    BY <2>1, <2>2 DEF OrderIsKept
  <2>3. CASE b = new
    BY <2>1, <2>3 DEF EntriesInOrder, Before, TypeOK, Ops
  <2> QED
    BY <1>1, <2>2, <2>3
<1> QED
  BY <1>2, <1>3, <1>4

\* Add and AddFront of a task that no caller waits for, and of the task of a caller
\* who is about to wait.
LEMMA AddKeeps ==
    ASSUME IInv, NEW task \in Tasks, NEW delay \in Nat,
           Add(task, delay) \/ AddFront(task), now' = now
    PROVE  /\ \E due \in Int, way \in Ways : Insert(due, task, way)
           /\ notified' = Waiting
           /\ ops' \subseteq Ops
           /\ nth' \in Nat
           /\ EntriesInOrder'
           /\ OrderIsKept'
<1>1. CASE Add(task, delay)
  <2> DEFINE way == IF delay = 0 THEN "end" ELSE "later"
  <2>1. Insert(now + delay, task, way) /\ notified' = Waiting
    BY <1>1 DEF Add, Notify
  <2>2. now + delay \in Int /\ way \in Ways /\ (way = "end" => now + delay = now)
    BY DEF IInv, TypeOK, Ways
  <2>3. way # "front"
    OBVIOUS
  <2> HIDE DEF way
  <2>4. /\ ops' \subseteq Ops /\ nth' \in Nat /\ EntriesInOrder' /\ OrderIsKept'
    BY <2>1, <2>2, <2>3, InsertKeepsOrder DEF IInv
  <2> QED
    BY <2>1, <2>2, <2>4
<1>2. CASE AddFront(task)
  <2>1. PICK earliest \in {now} \cup {op.due : op \in ops} :
            /\ earliest <= now
            /\ \A op \in ops : earliest <= op.due
            /\ Insert(earliest - 1, task, "front")
    BY <1>2 DEF AddFront
  <2>2. earliest \in Int
    BY DEF IInv, TypeOK, Ops
  <2>3. earliest - 1 \in Int /\ \A op \in ops : earliest - 1 < op.due
    BY <2>1, <2>2 DEF IInv, TypeOK, Ops
  <2>4. "front" \in Ways
    BY DEF Ways
  <2>5. /\ ops' \subseteq Ops /\ nth' \in Nat /\ EntriesInOrder' /\ OrderIsKept'
    BY <2>1, <2>3, <2>4, InsertKeepsOrder DEF IInv
  <2> QED
    BY <1>2, <2>1, <2>3, <2>4, <2>5 DEF AddFront, Notify
<1> QED
  BY <1>1, <1>2

\* Some entries leave the queue: what holds of all entries holds of the rest.
LEMMA FewerKeeps ==
    ASSUME IInv, ops' \subseteq ops, nth' = nth, now' = now
    PROVE  ops' \subseteq Ops /\ EntriesInOrder' /\ OrderIsKept'
BY DEF IInv, TypeOK, EntriesInOrder, OrderIsKept, Before

LEMMA InitKeeps == Init => IInv
<1> SUFFICES ASSUME Init PROVE IInv
  OBVIOUS
<1>1. TypeOK
  <2>1. 0 \in 0 .. MaxTime /\ 0 \in Nat /\ 0 \in Int
    BY TaskThreadAssumption
  <2>2. Stop \in Tasks
    BY DEF Tasks
  <2>3. [c \in Callers |-> "idle"] \in [Callers -> {"idle", "waiting", "signalled"}]
    OBVIOUS
  <2> QED
    BY <2>1, <2>2, <2>3 DEF Init, TypeOK
<1>2. EntriesInOrder /\ WakesInTime /\ OrderIsKept
  BY DEF Init, EntriesInOrder, WakesInTime, OrderIsKept
<1>3. CallIsPending
  BY DEF Init, CallIsPending
<1> QED
  BY <1>1, <1>2, <1>3 DEF IInv

LEMMA SchedKeeps ==
    ASSUME IInv, NEW tag \in Tags, NEW delay \in Delays, Sched(tag, delay)
    PROVE  IInv'
<1>1. delay \in Nat /\ tag \in Tasks /\ tag \notin Callers
  BY TaskThreadAssumption DEF Tasks
<1>2. /\ Add(tag, delay)
      /\ UNCHANGED <<now, pollVars, call, owner>>
  BY DEF Sched
<1>3. /\ notified' = Waiting
      /\ ops' \subseteq Ops /\ nth' \in Nat
      /\ EntriesInOrder' /\ OrderIsKept'
  BY <1>1, <1>2, AddKeeps
<1>4. PICK due \in Int, way \in Ways : Insert(due, tag, way)
  BY <1>1, <1>2, AddKeeps
<1>5. TypeOK'
  BY <1>2, <1>3 DEF IInv, TypeOK, pollVars, Waiting
<1>6. WakesInTime'
  BY <1>2, <1>3 DEF WakesInTime, pollVars, Waiting
<1>7. CallIsPending'
  BY <1>1, <1>2, <1>4 DEF IInv, CallIsPending, Insert, pollVars
<1> QED
  BY <1>3, <1>5, <1>6, <1>7 DEF IInv

LEMMA UnscheduleKeeps ==
    ASSUME IInv, NEW tag \in Tags, Unschedule(tag)
    PROVE  IInv'
<1>1. ops' \subseteq Ops /\ EntriesInOrder' /\ OrderIsKept'
  BY FewerKeeps DEF Unschedule
<1>2. TypeOK'
  BY <1>1 DEF IInv, TypeOK, Unschedule, Notify, Waiting, pollVars
<1>3. WakesInTime'
  BY DEF IInv, WakesInTime, Unschedule, Notify, Waiting, pollVars
<1>4. CallIsPending'
  BY TaskThreadAssumption DEF IInv, CallIsPending, Unschedule, pollVars
<1> QED
  BY <1>1, <1>2, <1>3, <1>4 DEF IInv

LEMMA SchedBlockKeeps ==
    ASSUME IInv, NEW c \in Callers, NEW immediate \in BOOLEAN, SchedBlock(c, immediate)
    PROVE  IInv'
<1>1. c \in Tasks /\ 0 \in Nat
  BY DEF Tasks
<1>2. /\ Add(c, 0) \/ AddFront(c)
      /\ call[c] = "idle"
      /\ call' = [call EXCEPT ![c] = "waiting"]
      /\ UNCHANGED <<now, pollVars, owner>>
  BY DEF SchedBlock
<1>3. /\ notified' = Waiting
      /\ ops' \subseteq Ops /\ nth' \in Nat
      /\ EntriesInOrder' /\ OrderIsKept'
  BY <1>1, <1>2, AddKeeps
<1>4. PICK due \in Int, way \in Ways : Insert(due, c, way)
  BY <1>1, <1>2, AddKeeps
<1>5. TypeOK'
  BY <1>2, <1>3 DEF IInv, TypeOK, pollVars, Waiting
<1>6. WakesInTime'
  BY <1>2, <1>3 DEF WakesInTime, pollVars, Waiting
<1>7. CallIsPending'
  <2> DEFINE new == [due |-> due, nth |-> nth, task |-> c, way |-> way]
  <2>1. ops' = ops \cup {new} /\ new.task = c
    BY <1>4 DEF Insert
  <2>2. (\A op \in ops : op.task # c) /\ ~(poll = "run" /\ current = c)
    BY <1>2 DEF IInv, CallIsPending
  <2>3. poll' = poll /\ current' = current
    BY <1>2 DEF pollVars
  <2>4. call'[c] = "waiting" /\ \A d \in Callers \ {c} : call'[d] = call[d]
    BY <1>2 DEF IInv, TypeOK
  <2> HIDE DEF new
  <2> QED
    BY <2>1, <2>2, <2>3, <2>4 DEF IInv, CallIsPending
<1> QED
  BY <1>3, <1>5, <1>6, <1>7 DEF IInv

LEMMA PopKeeps ==
    ASSUME IInv, PopNextReady
    PROVE  IInv'
<1>1. PICK op \in ops : ops' = ops \ {op} /\ current' = op.task
  BY DEF PopNextReady
<1>2. ops' \subseteq Ops /\ EntriesInOrder' /\ OrderIsKept'
  BY <1>1, FewerKeeps DEF PopNextReady
<1>3. TypeOK'
  BY <1>1, <1>2 DEF IInv, TypeOK, Ops, PopNextReady
<1>4. WakesInTime'
  BY DEF WakesInTime, PopNextReady
<1>5. CallIsPending'
  BY <1>1 DEF IInv, CallIsPending, PopNextReady
<1> QED
  BY <1>2, <1>3, <1>4, <1>5 DEF IInv

LEMMA WaitForTimeKeeps ==
    ASSUME IInv, WaitForTime
    PROVE  IInv'
<1>1. PICK op \in ops : IsFirst(op) /\ wakeAt' = op.due
  BY DEF WaitForTime
<1>2. TypeOK'
  BY <1>1 DEF IInv, TypeOK, Ops, WaitForTime, queueVars
<1>3. WakesInTime'
  BY <1>1 DEF IInv, TypeOK, Ops, WakesInTime, WaitForTime, IsFirst, Before, queueVars
<1>4. EntriesInOrder' /\ OrderIsKept'
  BY DEF IInv, EntriesInOrder, OrderIsKept, Before, WaitForTime, queueVars
<1>5. CallIsPending'
  BY DEF IInv, CallIsPending, WaitForTime, queueVars
<1> QED
  BY <1>2, <1>3, <1>4, <1>5 DEF IInv

\* The steps of the thread and of the callers that leave the queue alone.
LEMMA QuietKeeps ==
    ASSUME IInv,
           \/ WaitForTask \/ WakeUp \/ WakeSpuriously \/ Run \/ Exit
           \/ \E c \in Callers : SchedBlockReturns(c)
           \/ Join \/ Tick
    PROVE  IInv'
<1>1. ops' = ops /\ nth' = nth
  BY DEF WaitForTask, WakeUp, WakeSpuriously, Run, Exit, SchedBlockReturns, Join, Tick,
         queueVars
<1>2. now \in Int /\ now' \in Int /\ now <= now'
  BY DEF IInv, TypeOK, WaitForTask, WakeUp, WakeSpuriously, Run, Exit, SchedBlockReturns,
         Join, Tick
<1>3. TypeOK'
  <2>1. CASE WaitForTask \/ WakeUp \/ WakeSpuriously \/ Exit \/ Join
    BY <2>1 DEF IInv, TypeOK, WaitForTask, WakeUp, WakeSpuriously, Exit, Join,
                queueVars, pollVars
  <2>2. CASE Run
    <3>1. call' \in [Callers -> {"idle", "waiting", "signalled"}]
      BY <2>2 DEF IInv, TypeOK, Run
    <3>2. fRunning' \in BOOLEAN
      BY <2>2 DEF IInv, TypeOK, Run
    <3> QED
      BY <2>2, <3>1, <3>2 DEF IInv, TypeOK, Run, queueVars
  <2>3. CASE \E c \in Callers : SchedBlockReturns(c)
    BY <2>3 DEF IInv, TypeOK, SchedBlockReturns, queueVars, pollVars
  <2>4. CASE Tick
    BY <2>4, TaskThreadAssumption DEF IInv, TypeOK, Tick, queueVars, pollVars
  <2> QED
    BY <2>1, <2>2, <2>3, <2>4
<1>4. EntriesInOrder'
  BY <1>1, <1>2 DEF IInv, TypeOK, Ops, EntriesInOrder
<1>5. WakesInTime'
  BY <1>1
  DEF IInv, WakesInTime, Waiting, WaitForTask, WakeUp, WakeSpuriously, Run, Exit,
      SchedBlockReturns, Join, Tick, pollVars
<1>6. OrderIsKept'
  BY <1>1 DEF IInv, OrderIsKept, Before
<1>7. CallIsPending'
  BY <1>1
  DEF IInv, CallIsPending, TypeOK, WaitForTask, WakeUp, WakeSpuriously, Run, Exit, Waiting,
      SchedBlockReturns, Join, Tick, pollVars
<1> QED
  BY <1>3, <1>4, <1>5, <1>6, <1>7 DEF IInv

LEMMA DestroyKeeps ==
    ASSUME IInv, Destroy
    PROVE  IInv'
<1>1. Stop \in Tasks /\ Stop \notin Callers /\ 0 \in Nat
  BY TaskThreadAssumption DEF Tasks
<1>2. AddFront(Stop) /\ UNCHANGED <<now, pollVars, call>> /\ owner' = "joining"
  BY DEF Destroy
<1>3. /\ notified' = Waiting
      /\ ops' \subseteq Ops /\ nth' \in Nat
      /\ EntriesInOrder' /\ OrderIsKept'
  BY <1>1, <1>2, AddKeeps
<1>4. PICK due \in Int, way \in Ways : Insert(due, Stop, way)
  BY <1>1, <1>2, AddKeeps
<1>5. TypeOK'
  BY <1>2, <1>3 DEF IInv, TypeOK, pollVars, Waiting
<1>6. WakesInTime'
  BY <1>2, <1>3 DEF WakesInTime, pollVars, Waiting
<1>7. CallIsPending'
  BY <1>1, <1>2, <1>4 DEF IInv, CallIsPending, Insert, pollVars
<1> QED
  BY <1>3, <1>5, <1>6, <1>7 DEF IInv

LEMMA StutterKeeps ==
    ASSUME IInv, UNCHANGED vars
    PROVE  IInv'
BY DEF IInv, vars, TypeOK, EntriesInOrder, WakesInTime, OrderIsKept, Before, CallIsPending,
       queueVars, pollVars

LEMMA NextKeeps == IInv /\ [Next]_vars => IInv'
<1> SUFFICES ASSUME IInv, [Next]_vars PROVE IInv'
  OBVIOUS
<1>1. CASE Client
  BY <1>1, UnscheduleKeeps, SchedKeeps, QuietKeeps, SchedBlockKeeps DEF Client
<1>2. CASE Poll
  BY <1>2, PopKeeps, WaitForTimeKeeps, QuietKeeps DEF Poll
<1>3. CASE WakeSpuriously \/ Join \/ Tick
  BY <1>3, QuietKeeps
<1>4. CASE Destroy
  BY <1>4, DestroyKeeps
<1>5. CASE UNCHANGED vars
  BY <1>5, StutterKeeps
<1> QED
  BY <1>1, <1>2, <1>3, <1>4, <1>5 DEF Next

LEMMA Inductive == Spec => []IInv
BY InitKeeps, NextKeeps, PTL DEF Spec

\* The queue, the thread and the callers keep their types (task_thread.h).
THEOREM TypeCorrect == Spec => []TypeOK
<1>1. IInv => TypeOK
  BY DEF IInv
<1> QED
  BY <1>1, Inductive, PTL

\* _DoPoll never waits past the time of a task, whatever is scheduled meanwhile.
THEOREM NoTaskOverslept == Spec => []WakesInTime
<1>1. IInv => WakesInTime
  BY DEF IInv
<1> QED
  BY <1>1, Inductive, PTL

\* Tasks scheduled at the end keep their order, one scheduled at the front overtakes
\* all: what GetDownloadStatus and the other calls of the manager rely on.
THEOREM OrderCorrect == Spec => []OrderIsKept
<1>1. IInv => OrderIsKept
  BY DEF IInv
<1> QED
  BY <1>1, Inductive, PTL

\* The task of a caller of SchedBlock is neither lost nor run twice.
THEOREM NoCallLost == Spec => []CallIsPending
<1>1. IInv => CallIsPending
  BY DEF IInv
<1> QED
  BY <1>1, Inductive, PTL

-----------------------------------------------------------------------------
(***************************************************************************)
(* The places of the entries: what the multimap makes of a set of them.    *)
(***************************************************************************)
Queued(D) ==
    /\ D \subseteq Ops
    /\ IsFiniteSet(D)
    /\ \A a \in D, b \in D : a.nth = b.nth => a = b

\* The entries of D up to op
UpTo(D, op) == {other \in D : other = op \/ Before(other, op)}

LEMMA BeforeIsAnOrder ==
    ASSUME NEW D, Queued(D)
    PROVE  /\ \A a, b \in D : a = b \/ Before(a, b) \/ Before(b, a)
           /\ \A a, b \in D : ~(Before(a, b) /\ Before(b, a))
           /\ \A a \in D : ~Before(a, a)
           /\ \A a, b, c \in D : Before(a, b) /\ Before(b, c) => Before(a, c)
BY DEF Queued, Ops, Before

LEMMA PlacesAreOrdered ==
    ASSUME NEW D, Queued(D)
    PROVE  /\ Cardinality(D) \in Nat
           /\ \A op \in D : PlaceIn(D, op) \in 1 .. Cardinality(D)
           /\ \A a, b \in D : Before(a, b) => PlaceIn(D, a) < PlaceIn(D, b)
           /\ \A a, b \in D : PlaceIn(D, a) = PlaceIn(D, b) => a = b
<1>1. IsFiniteSet(D) /\ Cardinality(D) \in Nat
  BY FS_CardinalityType DEF Queued
<1>2. ASSUME NEW op \in D
      PROVE  /\ IsFiniteSet(UpTo(D, op))
             /\ PlaceIn(D, op) = Cardinality(UpTo(D, op))
             /\ PlaceIn(D, op) \in 1 .. Cardinality(D)
  <2>1. UpTo(D, op) \in SUBSET D /\ op \in UpTo(D, op)
    BY DEF UpTo
  <2>2. IsFiniteSet(UpTo(D, op)) /\ Cardinality(UpTo(D, op)) <= Cardinality(D)
    BY <1>1, <2>1, FS_Subset
  <2>3. Cardinality(UpTo(D, op)) \in Nat
    BY <2>2, FS_CardinalityType
  <2>4. Cardinality(UpTo(D, op)) # 0
    BY <2>1, <2>2, FS_EmptySet
  <2>5. PlaceIn(D, op) = Cardinality(UpTo(D, op))
    BY DEF PlaceIn, UpTo
  <2> QED
    BY <1>1, <2>2, <2>3, <2>4, <2>5
<1>3. ASSUME NEW a \in D, NEW b \in D, Before(a, b)
      PROVE  PlaceIn(D, a) < PlaceIn(D, b)
  <2>1. UpTo(D, a) \in SUBSET UpTo(D, b) /\ b \in UpTo(D, b) /\ b \notin UpTo(D, a)
    BY <1>3, BeforeIsAnOrder DEF UpTo
  <2>2. /\ Cardinality(UpTo(D, a)) <= Cardinality(UpTo(D, b))
        /\ Cardinality(UpTo(D, b)) # Cardinality(UpTo(D, a))
    <3>1. UpTo(D, a) # UpTo(D, b)
      BY <2>1
    <3> QED
      BY <1>2, <2>1, <3>1, FS_Subset
  <2>3. /\ Cardinality(UpTo(D, a)) = PlaceIn(D, a) /\ PlaceIn(D, a) \in Int
        /\ Cardinality(UpTo(D, b)) = PlaceIn(D, b) /\ PlaceIn(D, b) \in Int
    <3>1. PlaceIn(D, a) \in 1 .. Cardinality(D) /\ PlaceIn(D, b) \in 1 .. Cardinality(D)
      BY <1>2
    <3> QED
      BY <1>2, <3>1
  <2> QED
    BY <2>2, <2>3
<1>4. ASSUME NEW a \in D, NEW b \in D, PlaceIn(D, a) = PlaceIn(D, b)
      PROVE  a = b
  <2>1. PlaceIn(D, a) \in Int
    <3>1. PlaceIn(D, a) \in 1 .. Cardinality(D)
      BY <1>2
    <3> QED
      BY <3>1
  <2>2. ~Before(a, b) /\ ~Before(b, a)
    BY <1>3, <1>4, <2>1
  <2> QED
    BY <2>2, BeforeIsAnOrder
<1> QED
  BY <1>1, <1>2, <1>3, <1>4

LEMMA EveryPlaceIsTaken ==
    ASSUME NEW D, Queued(D), NEW i \in 1 .. Cardinality(D)
    PROVE  \E op \in D : PlaceIn(D, op) = i
<1> DEFINE place == [op \in D |-> PlaceIn(D, op)]
<1>1. Cardinality(D) \in Nat /\ IsFiniteSet(D)
  BY PlacesAreOrdered DEF Queued
<1>2. IsFiniteSet(1 .. Cardinality(D)) /\ Cardinality(1 .. Cardinality(D)) = Cardinality(D)
  BY <1>1, FS_Interval
<1>3. place \in Injection(D, 1 .. Cardinality(D))
  <2>1. place \in [D -> 1 .. Cardinality(D)]
    BY PlacesAreOrdered
  <2>2. \A a, b \in D : place[a] = place[b] => a = b
    BY PlacesAreOrdered
  <2> HIDE DEF place
  <2> QED
    BY <2>1, <2>2, Fun_IsInj
<1>4. place \in Surjection(D, 1 .. Cardinality(D))
  <2> HIDE DEF place
  <2> QED
    BY <1>2, <1>3, FS_Injection
<1>5. \E op \in D : place[op] = i
  <2> HIDE DEF place
  <2> QED
    BY <1>4 DEF Surjection
<1> QED
  BY <1>5

LEMMA InOrderIsTheOrder ==
    ASSUME NEW D, Queued(D)
    PROVE  /\ InOrder(D) \in Seq(Tasks)
           /\ Len(InOrder(D)) = Cardinality(D)
           /\ \A op \in D : InOrder(D)[PlaceIn(D, op)] = op.task
<1>1. Cardinality(D) \in Nat
  BY PlacesAreOrdered
<1> DEFINE at(i) == CHOOSE op \in D : PlaceIn(D, op) = i
<1>2. \A i \in 1 .. Cardinality(D) : at(i) \in D /\ PlaceIn(D, at(i)) = i
  BY EveryPlaceIsTaken
<1>3. \A op \in D : at(PlaceIn(D, op)) = op
  BY PlacesAreOrdered, <1>2
<1>4. InOrder(D) = [i \in 1 .. Cardinality(D) |-> at(i).task]
  BY DEF InOrder
<1>5. \A i \in 1 .. Cardinality(D) : at(i).task \in Tasks
  BY <1>2 DEF Queued, Ops
<1> HIDE DEF at
<1>6. InOrder(D) \in Seq(Tasks) /\ Len(InOrder(D)) = Cardinality(D)
  BY <1>1, <1>4, <1>5
<1>7. \A op \in D : InOrder(D)[PlaceIn(D, op)] = op.task
  BY <1>3, <1>4, PlacesAreOrdered
<1> QED
  BY <1>6, <1>7

\* A sequence is the order of D if it has each task at its place.
LEMMA OrderIsUnique ==
    ASSUME NEW D, Queued(D), NEW s \in Seq(Tasks), Len(s) = Cardinality(D),
           \A op \in D : s[PlaceIn(D, op)] = op.task
    PROVE  InOrder(D) = s
<1>1. ASSUME NEW i \in 1 .. Cardinality(D) PROVE InOrder(D)[i] = s[i]
  <2>1. PICK op \in D : PlaceIn(D, op) = i
    BY EveryPlaceIsTaken
  <2> QED
    BY <2>1, InOrderIsTheOrder
<1>2. InOrder(D) \in Seq(Tasks) /\ Len(InOrder(D)) = Cardinality(D)
  BY InOrderIsTheOrder
<1> QED
  BY <1>1, <1>2

\* An entry after all others: _Add.
LEMMA OneMoreAtTheEnd ==
    ASSUME NEW D, NEW x \in Ops, x \notin D, Queued(D \cup {x}),
           \A op \in D : Before(op, x)
    PROVE  InOrder(D \cup {x}) = Append(InOrder(D), x.task)
<1> DEFINE E == D \cup {x}
<1>1. Queued(D) /\ Queued(E)
  BY FS_Subset DEF Queued
<1>2. Cardinality(E) = Cardinality(D) + 1 /\ Cardinality(D) \in Nat
  BY <1>1, FS_AddElement, FS_CardinalityType DEF Queued
<1>3. \A op \in D : PlaceIn(E, op) = PlaceIn(D, op)
  <2> SUFFICES ASSUME NEW op \in D PROVE PlaceIn(E, op) = PlaceIn(D, op)
    OBVIOUS
  <2>1. x # op /\ ~Before(x, op)
    BY <1>1, BeforeIsAnOrder
  <2> QED
    BY <2>1 DEF PlaceIn
<1>4. PlaceIn(E, x) = Cardinality(E)
  <2>1. {other \in E : other = x \/ Before(other, x)} = E
    OBVIOUS
  <2> QED
    BY <2>1 DEF PlaceIn
<1>5. x.task \in Tasks
  BY DEF Ops
<1>6. InOrder(D) \in Seq(Tasks) /\ Len(InOrder(D)) = Cardinality(D)
  BY <1>1, InOrderIsTheOrder
<1>7. /\ Append(InOrder(D), x.task) \in Seq(Tasks)
      /\ Len(Append(InOrder(D), x.task)) = Cardinality(E)
  BY <1>2, <1>5, <1>6
<1>8. ASSUME NEW op \in E
      PROVE  Append(InOrder(D), x.task)[PlaceIn(E, op)] = op.task
  <2>1. CASE op \in D
    <3>1. PlaceIn(D, op) \in 1 .. Cardinality(D) /\ InOrder(D)[PlaceIn(D, op)] = op.task
      BY <1>1, <2>1, PlacesAreOrdered, InOrderIsTheOrder
    <3>2. PlaceIn(E, op) = PlaceIn(D, op)
      BY <1>3, <2>1
    <3> HIDE DEF E
    <3> QED
      BY <1>6, <3>1, <3>2
  <2>2. CASE op = x
    <3> HIDE DEF E
    <3> QED
      BY <1>2, <1>4, <1>6, <2>2
  <2> QED
    BY <2>1, <2>2
<1> HIDE DEF E
<1>9. InOrder(E) = Append(InOrder(D), x.task)
  BY <1>1, <1>7, <1>8, OrderIsUnique
<1> QED
  BY <1>9 DEF E

\* An entry before all others: _AddFront, and the one that popNextReady takes.
LEMMA OneMoreAtTheFront ==
    ASSUME NEW D, NEW x \in Ops, x \notin D, Queued(D \cup {x}),
           \A op \in D : Before(x, op)
    PROVE  InOrder(D \cup {x}) = <<x.task>> \o InOrder(D)
<1> DEFINE E == D \cup {x}
<1>1. Queued(D) /\ Queued(E)
  BY FS_Subset DEF Queued
<1>2. Cardinality(E) = Cardinality(D) + 1 /\ Cardinality(D) \in Nat
  BY <1>1, FS_AddElement, FS_CardinalityType DEF Queued
<1>3. \A op \in D : PlaceIn(E, op) = PlaceIn(D, op) + 1
  <2> SUFFICES ASSUME NEW op \in D PROVE PlaceIn(E, op) = PlaceIn(D, op) + 1
    OBVIOUS
  <2>1. x \notin UpTo(D, op) /\ UpTo(E, op) = UpTo(D, op) \cup {x}
    BY DEF UpTo
  <2>2. IsFiniteSet(UpTo(D, op))
    <3>1. UpTo(D, op) \in SUBSET D
      BY DEF UpTo
    <3> QED
      BY <1>1, <3>1, FS_Subset DEF Queued
  <2>3. Cardinality(UpTo(E, op)) = Cardinality(UpTo(D, op)) + 1
    BY <2>1, <2>2, FS_AddElement
  <2> QED
    BY <2>3 DEF PlaceIn, UpTo
<1>4. PlaceIn(E, x) = 1
  <2>1. {other \in E : other = x \/ Before(other, x)} = {x}
    BY <1>1, BeforeIsAnOrder
  <2> QED
    BY <2>1, FS_Singleton DEF PlaceIn
<1>5. x.task \in Tasks
  BY DEF Ops
<1>6. InOrder(D) \in Seq(Tasks) /\ Len(InOrder(D)) = Cardinality(D)
  BY <1>1, InOrderIsTheOrder
<1>7. /\ <<x.task>> \o InOrder(D) \in Seq(Tasks)
      /\ Len(<<x.task>> \o InOrder(D)) = Cardinality(E)
  BY <1>2, <1>5, <1>6
<1>8. ASSUME NEW op \in E
      PROVE  (<<x.task>> \o InOrder(D))[PlaceIn(E, op)] = op.task
  <2>1. CASE op \in D
    <3>1. PlaceIn(D, op) \in 1 .. Cardinality(D) /\ InOrder(D)[PlaceIn(D, op)] = op.task
      BY <1>1, <2>1, PlacesAreOrdered, InOrderIsTheOrder
    <3>2. PlaceIn(E, op) = PlaceIn(D, op) + 1
      BY <1>3, <2>1
    <3> HIDE DEF E
    <3> QED
      BY <1>6, <3>1, <3>2
  <2>2. CASE op = x
    <3> HIDE DEF E
    <3> QED
      BY <1>4, <1>6, <2>2
  <2> QED
    BY <2>1, <2>2
<1> HIDE DEF E
<1>9. InOrder(E) = <<x.task>> \o InOrder(D)
  BY <1>1, <1>7, <1>8, OrderIsUnique
<1> QED
  BY <1>9 DEF E

\* The library has induction as the fact that < is well-founded on Nat.
Below == {p \in Nat \X Nat : p[1] < p[2]}

LEMMA LeastElement ==
    ASSUME NEW T, T \subseteq Nat, T # {}
    PROVE  \E least \in T : \A n \in T : ~(n < least)
<1>1. OpToRel(<, Nat) = Below
  BY Zenon DEF OpToRel, Below
<1>2. IsWellFoundedOn(Below, Nat)
  BY <1>1, NatLessThanWellFounded, Zenon
<1>3. PICK least \in T : \A n \in T : ~(<<n, least>> \in Below)
  BY <1>2, WFMin
<1> QED
  BY <1>3 DEF Below

\* Removing the entries of a tag and taking its tasks from the sequence is the same:
\* the multimap is walked from the front (TaskQueue::Remove).
LEMMA RemovedInOrder ==
    ASSUME NEW D, Queued(D), NEW tag
    PROVE  InOrder({op \in D : op.task # tag}) = Queue!Unschedule(InOrder(D), {tag})
<1> DEFINE s == InOrder(D)
           Left(i) == {op \in D : PlaceIn(D, op) <= i /\ op.task # tag}
           Def(f) == f = [i \in 0 .. Len(s) |->
                            IF i = 0 THEN <<>>
                            ELSE IF s[i] \in {tag} THEN f[i - 1]
                            ELSE Append(f[i - 1], s[i])]
           kept == CHOOSE f : Def(f)
           left == [i \in 0 .. Len(s) |-> InOrder(Left(i))]
           Differ == {i \in 0 .. Len(s) : kept[i] # left[i]}
<1>1. Queue!Unschedule(s, {tag}) = kept[Len(s)]
  BY DEF Queue!Unschedule
<1>2. /\ s \in Seq(Tasks) /\ Len(s) = Cardinality(D) /\ Len(s) \in Nat
      /\ \A op \in D : s[PlaceIn(D, op)] = op.task
      /\ \A op \in D : PlaceIn(D, op) \in 1 .. Len(s)
  BY InOrderIsTheOrder, PlacesAreOrdered
<1>3. \A i \in 0 .. Len(s) : Queued(Left(i)) /\ Left(i) \subseteq D
  <2> SUFFICES ASSUME NEW i \in 0 .. Len(s) PROVE Queued(Left(i)) /\ Left(i) \subseteq D
    OBVIOUS
  <2>1. Left(i) \in SUBSET D
    OBVIOUS
  <2> HIDE DEF Left
  <2> QED
    BY <2>1, FS_Subset DEF Queued
<1>4. InOrder(Left(0)) = <<>>
  <2>1. Left(0) = {}
    BY <1>2
  <2>2. Queued(Left(0))
    BY <1>2, <1>3
  <2> HIDE DEF Left
  <2>3. Len(InOrder(Left(0))) = 0 /\ InOrder(Left(0)) \in Seq(Tasks)
    BY <2>1, <2>2, InOrderIsTheOrder, FS_EmptySet
  <2> QED
    BY <2>3
<1>5. ASSUME NEW i \in 1 .. Len(s)
      PROVE  InOrder(Left(i)) = IF s[i] \in {tag} THEN InOrder(Left(i - 1))
                                ELSE Append(InOrder(Left(i - 1)), s[i])
  <2>1. PICK x \in D : PlaceIn(D, x) = i
    BY <1>2, EveryPlaceIsTaken
  <2>2. s[i] = x.task
    BY <1>2, <2>1
  <2>3. \A op \in D : PlaceIn(D, op) \in Int /\ (PlaceIn(D, op) = i => op = x)
    BY <1>2, <2>1, PlacesAreOrdered
  <2>4. i - 1 \in 0 .. Len(s) /\ i \in 0 .. Len(s) /\ i \in Int
    BY <1>2
  <2>5. CASE x.task = tag
    <3>1. Left(i) = Left(i - 1)
      BY <2>1, <2>3, <2>4, <2>5
    <3> QED
      BY <2>2, <2>5, <3>1
  <2>6. CASE x.task # tag
    <3>1. Left(i) = Left(i - 1) \cup {x} /\ x \notin Left(i - 1)
      BY <2>1, <2>3, <2>4, <2>6
    <3>2. ASSUME NEW op \in Left(i - 1) PROVE Before(op, x)
      <4>1. op \in D /\ op # x /\ PlaceIn(D, op) < PlaceIn(D, x)
        BY <2>1, <2>3, <2>4, <3>1
      <4>2. ~Before(x, op)
        BY <2>3, <4>1, PlacesAreOrdered
      <4> QED
        BY <4>1, <4>2, BeforeIsAnOrder
    <3>3. x \in Ops /\ Queued(Left(i))
      BY <1>3, <2>4 DEF Queued
    <3> HIDE DEF Left
    <3>4. InOrder(Left(i - 1) \cup {x}) = Append(InOrder(Left(i - 1)), x.task)
      BY <3>1, <3>2, <3>3, OneMoreAtTheEnd
    <3> QED
      BY <2>2, <2>6, <3>1, <3>4
  <2> QED
    BY <2>5, <2>6
<1> HIDE DEF s, Left
<1>6. Def(left)
  BY <1>2, <1>4, <1>5
<1>7. Def(kept)
  BY <1>6
<1> HIDE DEF kept
<1>8. Differ = {}
  <2> SUFFICES ASSUME Differ # {} PROVE FALSE
    OBVIOUS
  <2>1. PICK least \in Differ : \A n \in Differ : ~(n < least)
    <3>1. Differ \subseteq Nat
      BY <1>2
    <3> HIDE DEF Differ
    <3> QED
      BY <3>1, LeastElement
  <2>2. least \in 0 .. Len(s) /\ kept[least] # left[least]
    BY <2>1
  <2>3. least # 0
    BY <1>2, <1>6, <1>7, <2>2
  <2>4. least - 1 \in 0 .. Len(s) /\ least - 1 < least /\ least \in 1 .. Len(s)
    BY <1>2, <2>2, <2>3
  <2>5. kept[least - 1] = left[least - 1]
    BY <2>1, <2>4
  <2>6. kept[least] = IF s[least] \in {tag} THEN kept[least - 1]
                      ELSE Append(kept[least - 1], s[least])
    BY <1>7, <2>2, <2>3
  <2>7. left[least] = IF s[least] \in {tag} THEN left[least - 1]
                      ELSE Append(left[least - 1], s[least])
    BY <1>5, <2>2, <2>4
  <2> QED
    BY <2>2, <2>5, <2>6, <2>7
<1>9. kept[Len(s)] = InOrder(Left(Len(s)))
  <2>1. Len(s) \in 0 .. Len(s)
    BY <1>2
  <2>2. \A i \in 0 .. Len(s) : kept[i] = left[i]
    BY <1>8
  <2>3. left[Len(s)] = InOrder(Left(Len(s)))
    BY <2>1
  <2> HIDE DEF left
  <2> QED
    BY <2>1, <2>2, <2>3
<1>10. Left(Len(s)) = {op \in D : op.task # tag}
  BY <1>2 DEF Left
<1> QED
  BY <1>1, <1>9, <1>10 DEF s

\* The entries of D that are due, those of t, and those of t that are ahead of their time
DueOf(D, time) == {op \in D : op.due <= time}
Of(D, t) == {op \in D : op.task = t}
Ahead(D, time, t) == {op \in D : op.task = t /\ op.due > time}

\* How often a task is in the sequence: as often as the set has an entry of it
LEMMA CountInOrder ==
    ASSUME NEW D, Queued(D), NEW t
    PROVE  /\ Queue!Count(InOrder(D), t) = Cardinality(Of(D, t))
           /\ Cardinality(Of(D, t)) \in Nat
<1> DEFINE s == InOrder(D)
           Mine == Of(D, t)
           Positions == {i \in DOMAIN s : s[i] = t}
           place == [op \in Mine |-> PlaceIn(D, op)]
<1>1. IsFiniteSet(Mine) /\ Cardinality(Mine) \in Nat
  <2>1. Mine \in SUBSET D
    BY DEF Of
  <2> HIDE DEF Mine
  <2> QED
    BY <2>1, FS_Subset, FS_CardinalityType DEF Queued
<1>2. /\ DOMAIN s = 1 .. Cardinality(D)
      /\ \A op \in D : s[PlaceIn(D, op)] = op.task
      /\ \A op \in D : PlaceIn(D, op) \in 1 .. Cardinality(D)
  <2>1. s \in Seq(Tasks) /\ Len(s) = Cardinality(D)
    BY InOrderIsTheOrder
  <2> HIDE DEF s
  <2>2. DOMAIN s = 1 .. Cardinality(D)
    BY <2>1
  <2> QED
    BY <2>2, InOrderIsTheOrder, PlacesAreOrdered DEF s
<1> HIDE DEF s
<1>3. place \in [Mine -> Positions]
  BY <1>2 DEF Of
<1>4. \A a, b \in Mine : place[a] = place[b] => a = b
  BY PlacesAreOrdered DEF Of
<1>5. \A i \in Positions : \E op \in Mine : place[op] = i
  <2> SUFFICES ASSUME NEW i \in Positions PROVE \E op \in Mine : place[op] = i
    OBVIOUS
  <2>1. PICK op \in D : PlaceIn(D, op) = i
    BY <1>2, EveryPlaceIsTaken
  <2>2. op \in Mine
    BY <1>2, <2>1 DEF Of
  <2> QED
    BY <2>1, <2>2
<1> HIDE DEF place, Mine, Positions
<1>6. place \in Bijection(Mine, Positions)
  BY <1>3, <1>4, <1>5, Fun_IsBij
<1>7. Cardinality(Positions) = Cardinality(Mine)
  BY <1>1, <1>6, FS_Bijection DEF ExistsBijection
<1>8. Queue!Count(s, t) = Cardinality(Positions)
  BY Zenon DEF Queue!Count, Queue!Cardinality, Cardinality, Positions
<1> QED
  BY <1>1, <1>7, <1>8 DEF s, Mine

\* Of the entries of a task each is due or is not, at whatever time one asks.
LEMMA DueOrNot ==
    ASSUME NEW D, Queued(D), NEW time \in Int, NEW t
    PROVE  /\ Cardinality(Ahead(D, time, t)) \in Nat
           /\ Cardinality(Of(DueOf(D, time), t)) + Cardinality(Ahead(D, time, t))
                = Cardinality(Of(D, t))
<1> DEFINE DueOnes == Of(DueOf(D, time), t)
           Others == Ahead(D, time, t)
           Mine == Of(D, t)
<1>1. DueOnes \in SUBSET D /\ Others \in SUBSET D
  BY DEF Ahead, Of, DueOf
<1>2. DueOnes \cup Others = Mine /\ DueOnes \cap Others = {}
  <2>1. \A op \in D : op.due \in Int
    BY DEF Queued, Ops
  <2> QED
    BY <2>1 DEF Ahead, Of, DueOf
<1> HIDE DEF DueOnes, Others, Mine
<1>3. IsFiniteSet(DueOnes) /\ IsFiniteSet(Others)
  BY <1>1, FS_Subset DEF Queued
<1>4. Cardinality(DueOnes) \in Nat /\ Cardinality(Others) \in Nat
  BY <1>3, FS_CardinalityType
<1>5. Cardinality(Mine) = Cardinality(DueOnes) + Cardinality(Others)
  <2>1. Cardinality(DueOnes \cap Others) = 0
    BY <1>2, FS_EmptySet
  <2>2. Cardinality(DueOnes \cup Others)
            = Cardinality(DueOnes) + Cardinality(Others) - Cardinality(DueOnes \cap Others)
    BY <1>3, FS_Union
  <2>3. Cardinality(DueOnes \cup Others) = Cardinality(Mine)
    BY <1>2
  <2> QED
    BY <1>4, <2>1, <2>2, <2>3
<1> QED
  BY <1>4, <1>5 DEF DueOnes, Others, Mine

\* Entries that come after all of D leave the order of D as it was.
LEMMA LaterOnesFollow ==
    ASSUME NEW D, NEW E, Queued(E), D \subseteq E,
           \A a \in D, b \in E \ D : Before(a, b)
    PROVE  Queue!IsPrefix(InOrder(D), InOrder(E))
<1>1. Queued(D) /\ Cardinality(D) <= Cardinality(E)
  BY FS_Subset DEF Queued
<1>2. ASSUME NEW op \in D PROVE PlaceIn(E, op) = PlaceIn(D, op)
  <2>1. {other \in E : other = op \/ Before(other, op)}
            = {other \in D : other = op \/ Before(other, op)}
    BY BeforeIsAnOrder
  <2> QED
    BY <2>1 DEF PlaceIn
<1>3. /\ InOrder(D) \in Seq(Tasks) /\ Len(InOrder(D)) = Cardinality(D)
      /\ InOrder(E) \in Seq(Tasks) /\ Len(InOrder(E)) = Cardinality(E)
      /\ Cardinality(D) \in Nat
  BY <1>1, InOrderIsTheOrder, PlacesAreOrdered
<1>4. ASSUME NEW i \in 1 .. Cardinality(D) PROVE InOrder(D)[i] = InOrder(E)[i]
  <2>1. PICK op \in D : PlaceIn(D, op) = i
    BY <1>1, EveryPlaceIsTaken
  <2>2. InOrder(D)[i] = op.task /\ InOrder(E)[i] = op.task
    BY <1>1, <1>2, <2>1, InOrderIsTheOrder
  <2> QED
    BY <2>2
<1> QED
  BY <1>1, <1>3, <1>4 DEF Queue!IsPrefix

-----------------------------------------------------------------------------
(***************************************************************************)
(* Every step is one of the queue without a clock, or leaves it alone.     *)
(***************************************************************************)
DueAt(time) == DueOf(ops, time)

LEMMA EntriesAreQueued ==
    ASSUME IInv, IsFiniteSet(ops)
    PROVE  Queued(ops) /\ \A time \in Int : Queued(DueAt(time))
<1>1. Queued(ops)
  BY DEF IInv, TypeOK, EntriesInOrder, Queued
<1>2. ASSUME NEW time \in Int PROVE Queued(DueAt(time))
  BY <1>1, FS_Subset DEF Queued, DueAt, DueOf
<1> QED
  BY <1>1, <1>2

LEMMA FiniteKeeps == IInv /\ IsFiniteSet(ops) /\ [Next]_vars => IsFiniteSet(ops')
<1> SUFFICES ASSUME IInv, IsFiniteSet(ops), [Next]_vars PROVE IsFiniteSet(ops')
  OBVIOUS
<1>1. \/ ops' \in SUBSET ops
      \/ \E due, task, way : Insert(due, task, way)
  <2>1. CASE Client
    BY <2>1 DEF Client, Unschedule, Sched, Add, SchedBlockReturns, SchedBlock, AddFront, queueVars
  <2>2. CASE Poll
    BY <2>2 DEF Poll, PopNextReady, WaitForTask, WaitForTime, WakeUp, Run, Exit, queueVars
  <2>3. CASE WakeSpuriously \/ Join \/ Tick \/ UNCHANGED vars
    BY <2>3 DEF WakeSpuriously, Join, Tick, vars, queueVars
  <2>4. CASE Destroy
    BY <2>4 DEF Destroy, AddFront
  <2> QED
    BY <2>1, <2>2, <2>3, <2>4 DEF Next
<1>2. ASSUME \E due, task, way : Insert(due, task, way) PROVE IsFiniteSet(ops')
  BY <1>2, FS_AddElement DEF Insert
<1> QED
  BY <1>1, <1>2, FS_Subset

LEMMA AddImplemented ==
    ASSUME IInv, IsFiniteSet(ops), IsFiniteSet(ops'), IInv', NEW task \in Tasks,
           NEW delay \in Nat, Add(task, delay), now' = now
    PROVE  Queue!Next
<1> DEFINE way == IF delay = 0 THEN "end" ELSE "later"
           x == [due |-> now + delay, nth |-> nth, task |-> task, way |-> way]
<1>1. /\ ops' = ops \cup {x} /\ x \in Ops /\ now \in Int
      /\ \A op \in ops : op.nth < x.nth
      /\ x.nth \in Nat /\ x.due \in Int /\ x.task = task /\ x.due = now + delay
  BY DEF Add, Insert, IInv, TypeOK, EntriesInOrder, Ops, Ways
<1>2. Queued(ops) /\ Queued(DueAt(now)) /\ Queued(ops') /\ Queued(DueAt(now)') /\ x \notin ops
  <2>1. Queued(ops) /\ Queued(DueAt(now))
    BY <1>1, EntriesAreQueued
  <2>2. Queued(ops')
    BY DEF IInv, TypeOK, EntriesInOrder, Queued
  <2>3. DueAt(now)' \in SUBSET ops'
    BY DEF DueAt, DueOf
  <2>4. Queued(DueAt(now)')
    BY <2>2, <2>3, FS_Subset DEF Queued
  <2>5. x \notin ops
    BY <1>1 DEF IInv, TypeOK, Ops
  <2> QED
    BY <2>1, <2>2, <2>4, <2>5
<1>3. Ready = InOrder(DueAt(now)) /\ Ready' = InOrder(DueAt(now)')
  BY DEF Ready, DueAt, DueOf
<1>4. /\ Delayed = [t \in Tasks |-> Cardinality(Ahead(ops, now, t))]
      /\ Delayed' = [t \in Tasks |-> Cardinality(Ahead(ops', now, t))]
  BY DEF Delayed, Ahead
<1>5. CASE delay = 0
  <2>1. DueAt(now)' = DueAt(now) \cup {x}
    BY <1>1, <1>5 DEF DueAt, DueOf
  <2>2. ASSUME NEW op \in DueAt(now) PROVE Before(op, x)
    BY <1>1, <1>5 DEF DueAt, DueOf, Before, IInv, TypeOK, Ops
  <2>3. x \notin DueAt(now)
    BY <1>2 DEF DueAt, DueOf
  <2> HIDE DEF x
  <2>4. Ready' = Append(Ready, task)
    BY <1>1, <1>2, <1>3, <2>1, <2>2, <2>3, OneMoreAtTheEnd
  <2>5. Delayed' = Delayed
    <3>1. \A t \in Tasks : Ahead(ops', now, t) = Ahead(ops, now, t)
      BY <1>1, <1>5 DEF Ahead
    <3> QED
      BY <1>4, <3>1
  <2>6. Queue!Enqueue(task)
    BY <2>4, <2>5 DEF Queue!Enqueue, Queue!Sched
  <2> QED
    BY <2>6 DEF Queue!Next
<1>6. CASE delay # 0
  <2>1. DueAt(now)' = DueAt(now)
    BY <1>1, <1>6 DEF DueAt, DueOf
  <2>2. Ready' = Ready
    BY <1>3, <2>1
  <2>3. ASSUME NEW t \in Tasks
        PROVE  Cardinality(Ahead(ops', now, t))
                 = Cardinality(Ahead(ops, now, t)) + (IF t = task THEN 1 ELSE 0)
    <3> DEFINE Old == Ahead(ops, now, t)
               New == Ahead(ops', now, t)
    <3>1. Old \in SUBSET ops /\ x \notin Old
      BY <1>2 DEF Ahead
    <3>2. IF t = task THEN New = Old \cup {x} ELSE New = Old
      BY <1>1, <1>6 DEF Ahead
    <3> HIDE DEF Old, New, x
    <3>3. IsFiniteSet(Old)
      BY <3>1, FS_Subset
    <3>4. Cardinality(Old) \in Nat
      BY <3>3, FS_CardinalityType
    <3>5. Cardinality(New) = Cardinality(Old) + (IF t = task THEN 1 ELSE 0)
      BY <3>1, <3>2, <3>3, <3>4, FS_AddElement
    <3> QED
      BY <3>5 DEF Old, New
  <2>4. Delayed' = [Delayed EXCEPT ![task] = @ + 1]
    <3>1. \A t \in Tasks : Cardinality(Ahead(ops, now, t)) \in Nat
      BY <1>1, <1>2, DueOrNot
    <3> QED
      BY <1>4, <2>3, <3>1
  <2>5. Queue!EnqueueLater(task)
    BY <2>2, <2>4 DEF Queue!EnqueueLater, Queue!SchedDelayed
  <2> QED
    BY <2>5 DEF Queue!Next
<1> QED
  BY <1>5, <1>6

LEMMA AddFrontImplemented ==
    ASSUME IInv, IsFiniteSet(ops), IsFiniteSet(ops'), IInv', NEW task \in Tasks,
           AddFront(task), now' = now
    PROVE  Queue!Next
<1>1. PICK earliest \in {now} \cup {op.due : op \in ops} :
            /\ earliest <= now
            /\ \A op \in ops : earliest <= op.due
            /\ Insert(earliest - 1, task, "front")
  BY DEF AddFront
<1> DEFINE x == [due |-> earliest - 1, nth |-> nth, task |-> task, way |-> "front"]
<1>2. /\ ops' = ops \cup {x} /\ x \in Ops /\ now \in Int /\ x.task = task
      /\ x.due \in Int /\ x.due < now /\ \A op \in ops : x.due < op.due
      /\ x \notin ops
  BY <1>1 DEF Insert, IInv, TypeOK, EntriesInOrder, Ops, Ways
<1> HIDE DEF x
<1>3. Queued(DueAt(now)')
  <2>1. Queued(ops')
    BY DEF IInv, TypeOK, EntriesInOrder, Queued
  <2>2. DueAt(now)' \in SUBSET ops'
    BY DEF DueAt, DueOf
  <2> QED
    BY <2>1, <2>2, FS_Subset DEF Queued
<1>4. Ready = InOrder(DueAt(now)) /\ Ready' = InOrder(DueAt(now)')
  BY DEF Ready, DueAt, DueOf
<1>5. DueAt(now)' = DueAt(now) \cup {x} /\ x \notin DueAt(now)
  BY <1>2 DEF DueAt, DueOf
<1>6. \A op \in DueAt(now) : Before(x, op)
  BY <1>2 DEF DueAt, DueOf, Before
<1>7. Ready' = <<task>> \o Ready
  BY <1>2, <1>3, <1>4, <1>5, <1>6, OneMoreAtTheFront
<1>8. Delayed' = Delayed
  <2>1. \A t \in Tasks : Ahead(ops', now, t) = Ahead(ops, now, t)
    BY <1>2 DEF Ahead
  <2>2. /\ Delayed = [t \in Tasks |-> Cardinality(Ahead(ops, now, t))]
        /\ Delayed' = [t \in Tasks |-> Cardinality(Ahead(ops', now, t))]
    BY DEF Delayed, Ahead
  <2> QED
    BY <2>1, <2>2
<1>9. Queue!EnqueueFirst(task)
  BY <1>7, <1>8 DEF Queue!EnqueueFirst, Queue!SchedImmediate
<1> QED
  BY <1>9 DEF Queue!Next

LEMMA UnscheduleImplemented ==
    ASSUME IInv, IsFiniteSet(ops), NEW tag \in Tags, Unschedule(tag)
    PROVE  Queue!Next
<1>1. ops' = {op \in ops : op.task # tag} /\ now' = now /\ now \in Int
  BY DEF Unschedule, IInv, TypeOK
<1>2. Queued(DueAt(now))
  BY <1>1, EntriesAreQueued
<1>3. Ready' = Queue!Unschedule(Ready, {tag})
  <2>1. DueAt(now)' = {op \in DueAt(now) : op.task # tag}
    BY <1>1 DEF DueAt, DueOf
  <2>2. Ready = InOrder(DueAt(now)) /\ Ready' = InOrder(DueAt(now)')
    BY DEF Ready, DueAt, DueOf
  <2> QED
    BY <1>2, <2>1, <2>2, RemovedInOrder
<1>4. Delayed' = Queue!UnscheduleDelayed(Delayed, {tag})
  <2>1. /\ Delayed = [t \in Tasks |-> Cardinality(Ahead(ops, now, t))]
        /\ Delayed' = [t \in Tasks |-> Cardinality(Ahead(ops', now, t))]
    BY <1>1 DEF Delayed, Ahead
  <2>2. \A t \in Tasks : t # tag => Ahead(ops', now, t) = Ahead(ops, now, t)
    BY <1>1 DEF Ahead
  <2>3. Cardinality(Ahead(ops', now, tag)) = 0
    <3>1. Ahead(ops', now, tag) = {}
      BY <1>1 DEF Ahead
    <3> QED
      BY <3>1, FS_EmptySet
  <2>4. \A t \in Tasks : Cardinality(Ahead(ops', now, t))
                           = IF t \in {tag} THEN 0 ELSE Cardinality(Ahead(ops, now, t))
    BY <2>2, <2>3
  <2> QED
    BY <2>1, <2>4 DEF Queue!UnscheduleDelayed
<1>5. Queue!Cancel(tag)
  BY <1>3, <1>4 DEF Queue!Cancel
<1> QED
  BY <1>5 DEF Queue!Next, Tasks

LEMMA PopImplemented ==
    ASSUME IInv, IsFiniteSet(ops), PopNextReady
    PROVE  Queue!Next
<1>1. PICK x \in ops : IsFirst(x) /\ x.due <= now /\ ops' = ops \ {x}
  BY DEF PopNextReady
<1>2. now' = now /\ now \in Int /\ Queued(DueAt(now)) /\ x \in Ops /\ Queued(ops)
  BY EntriesAreQueued DEF PopNextReady, IInv, TypeOK
<1> DEFINE Rest == DueAt(now) \ {x}
<1>3. DueAt(now) = Rest \cup {x} /\ DueAt(now)' = Rest /\ x \notin Rest /\ Queued(Rest \cup {x})
  BY <1>1, <1>2 DEF DueAt, DueOf
<1>4. \A op \in Rest : Before(x, op)
  BY <1>1 DEF IsFirst, DueAt, DueOf
<1>5. Ready = InOrder(Rest \cup {x}) /\ Ready' = InOrder(Rest)
  BY <1>2, <1>3 DEF Ready, DueAt, DueOf
<1> HIDE DEF Rest
<1>6. Ready = <<x.task>> \o Ready'
  BY <1>2, <1>3, <1>4, <1>5, OneMoreAtTheFront
<1>7. Ready' \in Seq(Tasks) /\ x.task \in Tasks
  <2>1. Queued(Rest)
    BY <1>3, FS_Subset DEF Queued
  <2> QED
    BY <1>2, <1>5, <2>1, InOrderIsTheOrder DEF Ops
<1>8. Ready # <<>> /\ Ready' = Tail(Ready)
  BY <1>6, <1>7
<1>9. Delayed' = Delayed
  <2>1. \A t \in Tasks : Ahead(ops', now, t) = Ahead(ops, now, t)
    BY <1>1, <1>2 DEF Ahead, Ops, Queued
  <2>2. /\ Delayed = [t \in Tasks |-> Cardinality(Ahead(ops, now, t))]
        /\ Delayed' = [t \in Tasks |-> Cardinality(Ahead(ops', now, t))]
    BY <1>2 DEF Delayed, Ahead
  <2> QED
    BY <2>1, <2>2
<1>10. Queue!Run
  BY <1>8, <1>9 DEF Queue!Run
<1> QED
  BY <1>10 DEF Queue!Next

LEMMA TickImplemented ==
    ASSUME IInv, IsFiniteSet(ops), Tick
    PROVE  Queue!Next
<1>1. ops' = ops /\ now' = now + 1 /\ now \in Int /\ now' \in Int
  BY DEF Tick, queueVars, IInv, TypeOK
<1>2. Queued(ops) /\ Queued(DueAt(now)) /\ Queued(DueAt(now'))
  BY <1>1, EntriesAreQueued
<1>3. Ready = InOrder(DueAt(now)) /\ Ready' = InOrder(DueAt(now'))
  BY <1>1 DEF Ready, DueAt, DueOf
<1>4. Queue!IsPrefix(Ready, Ready')
  <2>1. DueAt(now) \subseteq DueAt(now')
    BY <1>1, <1>2 DEF DueAt, DueOf, Queued, Ops
  <2>2. \A a \in DueAt(now), b \in DueAt(now') \ DueAt(now) : Before(a, b)
    BY <1>1, <1>2 DEF DueAt, DueOf, Before, Queued, Ops
  <2> QED
    BY <1>2, <1>3, <2>1, <2>2, LaterOnesFollow
<1>5. ASSUME NEW t \in Tasks
      PROVE  Delayed[t] - Delayed'[t] = Queue!Count(Ready', t) - Queue!Count(Ready, t)
  <2>1. /\ Delayed[t] = Cardinality(Ahead(ops, now, t))
        /\ Delayed'[t] = Cardinality(Ahead(ops, now', t))
    BY <1>1 DEF Delayed, Ahead
  <2>2. /\ Queue!Count(Ready, t) = Cardinality(Of(DueAt(now), t))
        /\ Cardinality(Of(DueAt(now), t)) \in Nat
        /\ Queue!Count(Ready', t) = Cardinality(Of(DueAt(now'), t))
        /\ Cardinality(Of(DueAt(now'), t)) \in Nat
    BY <1>2, <1>3, CountInOrder
  <2>3. /\ Cardinality(Ahead(ops, now, t)) \in Nat
        /\ Cardinality(Of(DueAt(now), t)) + Cardinality(Ahead(ops, now, t))
             = Cardinality(Of(ops, t))
    BY <1>1, <1>2, DueOrNot DEF DueAt
  <2>4. /\ Cardinality(Ahead(ops, now', t)) \in Nat
        /\ Cardinality(Of(DueAt(now'), t)) + Cardinality(Ahead(ops, now', t))
             = Cardinality(Of(ops, t))
    BY <1>1, <1>2, DueOrNot DEF DueAt
  <2> QED
    BY <2>1, <2>2, <2>3, <2>4
<1>6. Queue!Due
  BY <1>4, <1>5 DEF Queue!Due
<1> QED
  BY <1>6 DEF Queue!Next

LEMMA OthersLeaveQueue ==
    ASSUME ops' = ops, now' = now
    PROVE  Ready' = Ready /\ Delayed' = Delayed
BY DEF Ready, Delayed

LEMMA InitImplemented == Init => Queue!Init
<1> SUFFICES ASSUME Init PROVE Queue!Init
  OBVIOUS
<1>1. Ready = <<>>
  <2>1. {op \in ops : op.due <= now} = {} /\ Queued({})
    BY FS_EmptySet DEF Init, Queued
  <2>2. Len(InOrder({})) = 0 /\ InOrder({}) \in Seq(Tasks)
    BY <2>1, InOrderIsTheOrder, FS_EmptySet
  <2>3. Ready = InOrder({})
    BY <2>1 DEF Ready
  <2> QED
    BY <2>1, <2>2, <2>3
<1>2. Delayed = [t \in Tasks |-> 0]
  <2>1. \A t \in Tasks : Cardinality({op \in ops : op.task = t /\ op.due > now}) = 0
    <3>1. \A t \in Tasks : {op \in ops : op.task = t /\ op.due > now} = {}
      BY DEF Init
    <3> QED
      BY <3>1, FS_EmptySet
  <2> QED
    BY <2>1 DEF Delayed
<1> QED
  BY <1>1, <1>2 DEF Queue!Init

LEMMA NextImplemented ==
    /\ IInv /\ IInv' /\ IsFiniteSet(ops) /\ IsFiniteSet(ops')
    /\ [Next]_vars
    => [Queue!Next]_<<Ready, Delayed>>
<1> SUFFICES ASSUME IInv, IInv', IsFiniteSet(ops), IsFiniteSet(ops'), [Next]_vars
             PROVE  Queue!Next \/ (Ready' = Ready /\ Delayed' = Delayed)
  OBVIOUS
<1>1. ASSUME NEW tag \in Tags, NEW delay \in Delays, Sched(tag, delay) PROVE Queue!Next
  <2>1. tag \in Tasks /\ delay \in Nat /\ Add(tag, delay) /\ now' = now
    BY <1>1, TaskThreadAssumption DEF Sched, Tasks
  <2> QED
    BY <2>1, AddImplemented
<1>2. ASSUME NEW c \in Callers, NEW immediate \in BOOLEAN, SchedBlock(c, immediate)
      PROVE  Queue!Next
  <2>1. c \in Tasks /\ 0 \in Nat /\ (Add(c, 0) \/ AddFront(c)) /\ now' = now
    BY <1>2 DEF SchedBlock, Tasks
  <2> QED
    BY <2>1, AddImplemented, AddFrontImplemented
<1>3. CASE Destroy
  <2>1. Stop \in Tasks /\ AddFront(Stop) /\ now' = now
    BY <1>3 DEF Destroy, Tasks
  <2> QED
    BY <2>1, AddFrontImplemented
<1>4. CASE \/ WaitForTask \/ WaitForTime \/ WakeUp \/ WakeSpuriously \/ Run \/ Exit
           \/ \E c \in Callers : SchedBlockReturns(c)
           \/ Join \/ UNCHANGED vars
  <2>1. ops' = ops /\ now' = now
    BY <1>4 DEF WaitForTask, WaitForTime, WakeUp, WakeSpuriously, Run, Exit,
                SchedBlockReturns, Join, vars, queueVars
  <2> QED
    BY <2>1, OthersLeaveQueue
<1>5. CASE Client
  BY <1>1, <1>2, <1>4, <1>5, UnscheduleImplemented DEF Client
<1>6. CASE Poll
  BY <1>4, <1>6, PopImplemented DEF Poll
<1> QED
  BY <1>3, <1>4, <1>5, <1>6, TickImplemented DEF Next

\* The thread with its clock, condition variable and callers runs and orders tasks as the
\* queue without a clock, which Download is built on (task_queue.cpp, task_thread.cpp).
THEOREM QueueImplemented == Spec => ImplementsQueue
<1> DEFINE Finite == IsFiniteSet(ops)
<1>1. Init => Finite
  BY FS_EmptySet DEF Init
<1>2. IInv /\ Finite /\ [Next]_vars => Finite'
  BY FiniteKeeps
<1>3. IInv /\ IInv' /\ Finite /\ Finite' /\ [Next]_vars => [Queue!Next]_<<Ready, Delayed>>
  BY NextImplemented
<1> HIDE DEF Finite
<1> QED
  BY <1>1, <1>2, <1>3, Inductive, InitImplemented, PTL DEF Spec, ImplementsQueue, Queue!Spec
=============================================================================
