-------------------------- MODULE AsyncForallProofs --------------------------
(***************************************************************************)
(* Proofs about the thread pool, for every number of workers and tasks, and  *)
(* about the program made of an scf.forall, for all bounds and steps.        *)
(***************************************************************************)
EXTENDS AsyncForall, VectorLemmas

(***************************************************************************)
(* The inductive invariant of the thread pool.                              *)
(***************************************************************************)
Queued(t) == \E i \in 1 .. Len(tasks) : tasks[i] = t

\* The queue has no task twice, no two workers run the same one, and none
\* is both queued and running.
Apart ==
    /\ \A i, j \in 1 .. Len(tasks) : tasks[i] = tasks[j] => i = j
    /\ \A v, w \in Workers : running[v] = running[w] /\ running[v] # None => v = w
    /\ \A w \in Workers : ~Queued(running[w])

\* What is queued or running is what was enqueued and has not finished.
Unfinished ==
    /\ finished \subseteq submitted
    /\ \A i \in 1 .. Len(tasks) : tasks[i] \in submitted \ finished
    /\ \A w \in Workers : running[w] # None => running[w] \in submitted \ finished
    /\ \A t \in submitted \ finished : Queued(t) \/ \E w \in Workers : running[w] = t

RunningWhenRun == \A w \in Workers : running[w] # None <=> worker[w] = "run"

\* The counter that wait looks at counts them.
Counted ==
    /\ IsFiniteSet(submitted)
    /\ activeTasks = Cardinality(submitted \ finished)

\* While somebody sleeps, every queued task has a notification or an awake
\* worker of its own: more than EnoughAwake says, which bounds the smaller of
\* sleepers and tasks and would not survive a worker that takes a task.
Announced ==
    In("asleep") # {} => Len(tasks) <= Cardinality(toNotify) + Cardinality(In("test"))

Stopped == owner \in {"notifyAll", "join", "gone"}

\* Workers exit after the stop only, and the last one leaves an empty queue.
Exits ==
    /\ stop <=> Stopped
    /\ In("exited") # {} => stop
    /\ In("exited") = Workers => tasks = <<>>
    /\ owner = "gone" => In("exited") = Workers

SchedulerIInv ==
    /\ PoolTypeOK
    /\ Apart
    /\ Unfinished
    /\ RunningWhenRun
    /\ Counted
    /\ Announced
    /\ Exits

-----------------------------------------------------------------------------
\* The sets of workers by place are finite, and so is the set of threads.
LEMMA FinitePlaces ==
    /\ \A where : IsFiniteSet(In(where)) /\ Cardinality(In(where)) \in Nat
    /\ IsFiniteSet(Threads)
<1>1. ASSUME NEW where
      PROVE  IsFiniteSet(In(where)) /\ Cardinality(In(where)) \in Nat
  <2>1. In(where) \in SUBSET Workers
    BY DEF In
  <2> QED BY <2>1, PoolThreads, FS_Subset, FS_CardinalityType
<1>2. IsFiniteSet(Threads)
  BY PoolThreads, FS_AddElement DEF Threads
<1> QED BY <1>1, <1>2

\* A worker that moves leaves one set and joins another.
LEMMA WorkerMoves ==
    ASSUME PoolTypeOK, NEW w \in Workers, NEW to,
           worker' = [worker EXCEPT ![w] = to]
    PROVE  /\ In(to)' = In(to) \cup {w}
           /\ \A where : where # to => In(where)' = In(where) \ {w}
  BY DEF PoolTypeOK, In

\* Nobody moves when worker is unchanged.
LEMMA NobodyMoves ==
    ASSUME UNCHANGED worker
    PROVE  \A where : In(where)' = In(where)
  BY DEF In

\* The queue after a push.
LEMMA PushedQueue ==
    ASSUME tasks \in Seq(Tasks), NEW t \in Tasks, tasks' = Append(tasks, t)
    PROVE  /\ tasks' \in Seq(Tasks) /\ Len(tasks') = Len(tasks) + 1
           /\ \A i \in 1 .. Len(tasks) : tasks'[i] = tasks[i]
           /\ tasks'[Len(tasks) + 1] = t
           /\ \A u : Queued(u)' <=> Queued(u) \/ u = t
<1>1. /\ tasks' \in Seq(Tasks) /\ Len(tasks') = Len(tasks) + 1
      /\ \A i \in 1 .. Len(tasks) : tasks'[i] = tasks[i]
      /\ tasks'[Len(tasks) + 1] = t
  OBVIOUS
<1>2. Len(tasks) \in Nat
  OBVIOUS
<1>3. ASSUME NEW u PROVE Queued(u)' <=> Queued(u) \/ u = t
  BY <1>1, <1>2 DEF Queued
<1> QED BY <1>1, <1>3

\* The queue after its head was taken.
LEMMA PoppedQueue ==
    ASSUME tasks \in Seq(Tasks), tasks # <<>>, tasks' = Tail(tasks)
    PROVE  /\ tasks' \in Seq(Tasks) /\ Len(tasks') = Len(tasks) - 1
           /\ Len(tasks) \in Nat \ {0}
           /\ \A i \in 1 .. Len(tasks) - 1 : tasks'[i] = tasks[i + 1]
           /\ Head(tasks) = tasks[1] /\ Head(tasks) \in Tasks
           /\ \A u : Queued(u) <=> Queued(u)' \/ u = tasks[1]
<1>1. /\ tasks' \in Seq(Tasks) /\ Len(tasks') = Len(tasks) - 1
      /\ Len(tasks) \in Nat \ {0}
      /\ \A i \in 1 .. Len(tasks) - 1 : tasks'[i] = tasks[i + 1]
      /\ Head(tasks) = tasks[1] /\ Head(tasks) \in Tasks
  OBVIOUS
<1>2. ASSUME NEW u, Queued(u) PROVE Queued(u)' \/ u = tasks[1]
  <2>1. PICK i \in 1 .. Len(tasks) : tasks[i] = u
    BY <1>2 DEF Queued
  <2>2. CASE i = 1
    BY <2>1, <2>2
  <2>3. CASE i # 1
    <3>1. i - 1 \in 1 .. Len(tasks') /\ tasks'[i - 1] = tasks[i]
      BY <1>1, <2>3
    <3> QED BY <2>1, <3>1 DEF Queued
  <2> QED BY <2>2, <2>3
<1>3. ASSUME NEW u, Queued(u)' \/ u = tasks[1] PROVE Queued(u)
  BY <1>1, <1>3 DEF Queued
<1> QED BY <1>1, <1>2, <1>3

-----------------------------------------------------------------------------
\* The invariant holds of a new pool.
LEMMA InitEstablishesScheduler == PoolInit => SchedulerIInv
<1> SUFFICES ASSUME PoolInit PROVE SchedulerIInv
  OBVIOUS
<1>1. tasks = <<>> /\ Len(tasks) = 0 /\ tasks \in Seq(Tasks)
  BY DEF PoolInit
<1>2. PoolTypeOK
  BY <1>1 DEF PoolInit, PoolTypeOK
<1>3. \A u : ~Queued(u)
  BY <1>1 DEF Queued
<1>4. Apart /\ Unfinished /\ RunningWhenRun
  BY <1>1, <1>3 DEF PoolInit, Apart, Unfinished, RunningWhenRun
<1>5. Counted
  BY FS_EmptySet DEF PoolInit, Counted
<1>6. In("asleep") = {} /\ In("exited") = {} /\ Workers # {}
  BY PoolThreads DEF PoolInit, In
<1>7. Announced /\ Exits
  BY <1>6 DEF PoolInit, Announced, Exits, Stopped
<1> QED BY <1>2, <1>4, <1>5, <1>7 DEF SchedulerIInv

\* Types are kept.
LEMMA NextKeepsPoolTypes == SchedulerIInv /\ PoolNext => PoolTypeOK'
<1> SUFFICES ASSUME SchedulerIInv, PoolNext PROVE PoolTypeOK'
  OBVIOUS
<1> USE DEF SchedulerIInv, PoolTypeOK
<1>1. ASSUME NEW a \in Threads, NotifyOne(a) PROVE PoolTypeOK'
  BY <1>1 DEF NotifyOne, queue, In
<1>2. ASSUME NEW a \in Threads, NEW t \in Tasks, enqueueTask(a, t) PROVE PoolTypeOK'
  BY <1>2, PushedQueue DEF enqueueTask, Push
<1>3. ASSUME NEW w \in Workers, Sleep(w) \/ Exit(w) \/ WakeSpuriously(w) PROVE PoolTypeOK'
  BY <1>3 DEF Sleep, Exit, WakeSpuriously, queue
<1>4. ASSUME NEW w \in Workers, Take(w) PROVE PoolTypeOK'
  BY <1>4, PoppedQueue DEF Take
<1>5. ASSUME NEW w \in Workers, Finish(w) PROVE PoolTypeOK'
  <2>1. running[w] \in submitted \ finished
    BY <1>5 DEF Finish, RunningWhenRun, Unfinished
  <2>2. IsFiniteSet(submitted \ finished)
    BY FS_Difference DEF Counted
  <2>3. Cardinality(submitted \ finished) # 0
    BY <2>1, <2>2, FS_EmptySet
  <2>4. activeTasks - 1 \in Nat
    BY <2>3 DEF Counted
  <2> QED BY <1>5, <2>1, <2>4 DEF Finish
<1>6. ASSUME WaitCall \/ WaitSpurious \/ WaitSleep \/ WaitReturn PROVE PoolTypeOK'
  BY <1>6 DEF WaitCall, WaitSpurious, WaitSleep, WaitReturn, OwnerStep, queue
<1>7. ASSUME DestroyStop \/ DestroyNotify \/ DestroyJoined PROVE PoolTypeOK'
  BY <1>7 DEF DestroyStop, DestroyNotify, DestroyJoined, OwnerStep, queue
<1> QED BY <1>1, <1>2, <1>3, <1>4, <1>5, <1>6, <1>7
        DEF PoolNext, WorkerStep, OwnerProgress

\* enqueueTask: the new task is queued only, it is counted, and its
\* notification is on its way.
LEMMA PushKeepsScheduler ==
    ASSUME SchedulerIInv, NEW a \in Threads, NEW t \in Tasks, enqueueTask(a, t)
    PROVE  Apart' /\ Unfinished' /\ RunningWhenRun' /\ Counted' /\ Announced' /\ Exits'
<1> USE DEF SchedulerIInv
<1>1. /\ t \notin submitted /\ a \notin toNotify
      /\ tasks \in Seq(Tasks) /\ tasks' = Append(tasks, t)
      /\ activeTasks' = activeTasks + 1
      /\ submitted' = submitted \cup {t} /\ toNotify' = toNotify \cup {a}
      /\ UNCHANGED <<stop, worker, running, owner, finished>>
      /\ IF a = Main THEN owner = "run" ELSE worker[a] = "run"
  BY DEF enqueueTask, Push, MayEnqueue, PoolTypeOK
<1>2. /\ tasks' \in Seq(Tasks) /\ Len(tasks') = Len(tasks) + 1
      /\ \A i \in 1 .. Len(tasks) : tasks'[i] = tasks[i]
      /\ tasks'[Len(tasks) + 1] = t
      /\ \A u : Queued(u)' <=> Queued(u) \/ u = t
      /\ Len(tasks) \in Nat
  BY <1>1, PushedQueue
<1>3. \A w \in Workers : running[w] # t
  BY <1>1, PoolThreads DEF Unfinished
<1>4. Apart'
  BY <1>1, <1>2, <1>3 DEF Apart, Unfinished
<1>5. Unfinished'
  <2>1. \A i \in 1 .. Len(tasks') : tasks'[i] \in submitted' \ finished'
    BY <1>1, <1>2 DEF Unfinished
  <2>2. \A u \in submitted' \ finished' : Queued(u)' \/ \E w \in Workers : running'[w] = u
    BY <1>1, <1>2 DEF Unfinished
  <2> QED BY <1>1, <2>1, <2>2 DEF Unfinished
<1>6. RunningWhenRun'
  BY <1>1 DEF RunningWhenRun
<1>7. Counted'
  <2>1. submitted' \ finished' = (submitted \ finished) \cup {t} /\ t \notin submitted \ finished
    BY <1>1 DEF Unfinished
  <2>2. IsFiniteSet(submitted \ finished) /\ IsFiniteSet(submitted')
    BY <1>1, FS_Difference, FS_AddElement DEF Counted
  <2>3. Cardinality(submitted' \ finished') = Cardinality(submitted \ finished) + 1
    BY <2>1, <2>2, FS_AddElement
  <2> QED BY <1>1, <2>2, <2>3 DEF Counted
<1>8. Announced'
  <2>1. Cardinality(toNotify') = Cardinality(toNotify) + 1
    <3>1. IsFiniteSet(toNotify)
      BY FinitePlaces, FS_Subset DEF PoolTypeOK
    <3> QED BY <1>1, <3>1, FS_AddElement
  <2>2. Cardinality(toNotify) \in Nat /\ Cardinality(In("test")) \in Nat
    BY FinitePlaces, FS_Subset, FS_CardinalityType DEF PoolTypeOK
  <2> QED BY <1>1, <1>2, <2>1, <2>2, NobodyMoves DEF Announced
<1>9. Exits'
  <2>1. In("exited") # Workers
    <3>1. CASE a = Main
      BY <1>1, <3>1, PoolThreads DEF Exits, Stopped
    <3>2. CASE a # Main
      <4>1. a \in Workers /\ worker[a] # "exited"
        BY <1>1, <3>2 DEF Threads
      <4> QED BY <4>1 DEF In
    <3> QED BY <3>1, <3>2
  <2> QED BY <1>1, <2>1, NobodyMoves DEF Exits, Stopped
<1> QED BY <1>4, <1>5, <1>6, <1>7, <1>8, <1>9

\* Taking a task: it moves from the queue to one worker.
LEMMA TakeKeepsScheduler ==
    ASSUME SchedulerIInv, NEW w \in Workers, Take(w)
    PROVE  Apart' /\ Unfinished' /\ RunningWhenRun' /\ Counted' /\ Announced' /\ Exits'
<1> USE DEF SchedulerIInv
<1>1. /\ worker[w] = "test" /\ tasks # <<>> /\ tasks \in Seq(Tasks)
      /\ tasks' = Tail(tasks)
      /\ running' = [running EXCEPT ![w] = Head(tasks)]
      /\ worker' = [worker EXCEPT ![w] = "run"]
      /\ running \in [Workers -> Tasks \cup {None}]
      /\ worker \in [Workers -> {"test", "asleep", "run", "exited"}]
      /\ UNCHANGED <<activeTasks, submitted, stop, toNotify, owner, finished>>
  BY DEF Take, PoolTypeOK
<1>2. /\ tasks' \in Seq(Tasks) /\ Len(tasks') = Len(tasks) - 1
      /\ Len(tasks) \in Nat \ {0}
      /\ \A i \in 1 .. Len(tasks) - 1 : tasks'[i] = tasks[i + 1]
      /\ Head(tasks) = tasks[1] /\ Head(tasks) \in Tasks
      /\ \A u : Queued(u) <=> Queued(u)' \/ u = tasks[1]
  BY <1>1, PoppedQueue
<1> PICK t \in Tasks : t = tasks[1]
  BY <1>2
<1>3. \A v \in Workers : running'[v] = IF v = w THEN t ELSE running[v]
  BY <1>1, <1>2
<1>4. ~Queued(t)'
  <2> SUFFICES ASSUME NEW i \in 1 .. Len(tasks'), tasks'[i] = t PROVE FALSE
    BY DEF Queued
  <2>1. tasks[i + 1] = tasks[1] /\ i + 1 \in 1 .. Len(tasks) /\ 1 \in 1 .. Len(tasks)
    BY <1>2
  <2> QED BY <2>1 DEF Apart
<1>5. Queued(t) /\ \A v \in Workers : running[v] # t
  BY <1>2 DEF Apart
<1>6. Apart'
  <2>1. \A i, j \in 1 .. Len(tasks') : tasks'[i] = tasks'[j] => i = j
    <3> SUFFICES ASSUME NEW i \in 1 .. Len(tasks'), NEW j \in 1 .. Len(tasks'),
                        tasks'[i] = tasks'[j]
                 PROVE  i = j
      OBVIOUS
    <3>1. /\ i + 1 \in 1 .. Len(tasks) /\ j + 1 \in 1 .. Len(tasks)
          /\ tasks[i + 1] = tasks[j + 1]
      BY <1>2
    <3>2. i + 1 = j + 1
      BY <3>1 DEF Apart
    <3> QED BY <3>2
  <2>2. \A u, v \in Workers : running'[u] = running'[v] /\ running'[u] # None => u = v
    BY <1>3, <1>5 DEF Apart
  <2>3. \A v \in Workers : (~Queued(running[v]))'
    <3> SUFFICES ASSUME NEW v \in Workers, NEW i \in 1 .. Len(tasks'),
                        tasks'[i] = running'[v]
                 PROVE  FALSE
      BY DEF Queued
    <3> PICK u : u = running'[v]
      OBVIOUS
    <3>1. Queued(u)'
      BY DEF Queued
    <3> QED BY <1>2, <1>3, <1>4, <3>1 DEF Apart
  <2> QED BY <2>1, <2>2, <2>3 DEF Apart
<1>7. Unfinished'
  <2>1. t \in submitted \ finished
    BY <1>2 DEF Unfinished
  <2>2. \A i \in 1 .. Len(tasks') : tasks'[i] \in submitted' \ finished'
    BY <1>1, <1>2 DEF Unfinished
  <2>3. \A u \in submitted' \ finished' : Queued(u)' \/ \E v \in Workers : running'[v] = u
    <3> SUFFICES ASSUME NEW u \in submitted \ finished
                 PROVE  Queued(u)' \/ \E v \in Workers : running'[v] = u
      BY <1>1
    <3>1. CASE Queued(u)
      BY <1>2, <1>3, <3>1
    <3>2. ASSUME NEW v \in Workers, running[v] = u PROVE running'[v] = u
      <4>1. running[w] = None /\ u # None
        BY <1>1, PoolThreads DEF RunningWhenRun, PoolTypeOK
      <4> QED BY <1>3, <3>2, <4>1
    <3> QED BY <3>1, <3>2 DEF Unfinished
  <2> QED BY <1>1, <1>3, <2>1, <2>2, <2>3 DEF Unfinished
<1>8. RunningWhenRun'
  BY <1>1, <1>2, PoolThreads DEF RunningWhenRun
<1>9. Counted'
  BY <1>1 DEF Counted
<1>10. /\ In("asleep")' = In("asleep") /\ In("exited")' = In("exited")
       /\ In("test")' = In("test") \ {w}
       /\ w \in In("test") /\ w \notin In("exited")
  BY <1>1, WorkerMoves DEF In
<1>11. Announced'
  <2>1. Cardinality(In("test")') = Cardinality(In("test")) - 1
    BY <1>10, FinitePlaces, FS_RemoveElement
  <2>2. Cardinality(toNotify) \in Nat /\ Cardinality(In("test")) \in Nat
    BY FinitePlaces, FS_Subset, FS_CardinalityType DEF PoolTypeOK
  <2> QED BY <1>1, <1>2, <1>10, <2>1, <2>2 DEF Announced
<1>12. Exits'
  BY <1>1, <1>10 DEF Exits, Stopped
<1> QED BY <1>6, <1>7, <1>8, <1>9, <1>11, <1>12

\* The end of a task: its worker is free and the counter goes down.
LEMMA FinishKeepsScheduler ==
    ASSUME SchedulerIInv, NEW w \in Workers, Finish(w)
    PROVE  Apart' /\ Unfinished' /\ RunningWhenRun' /\ Counted' /\ Announced' /\ Exits'
<1> USE DEF SchedulerIInv
<1>1. /\ worker[w] = "run"
      /\ activeTasks' = activeTasks - 1
      /\ owner' = owner \/ (owner' = "waitTest" /\ owner = "waitAsleep")
      /\ worker' = [worker EXCEPT ![w] = "test"]
      /\ running' = [running EXCEPT ![w] = None]
      /\ finished' = finished \cup {running[w]}
      /\ running \in [Workers -> Tasks \cup {None}]
      /\ worker \in [Workers -> {"test", "asleep", "run", "exited"}]
      /\ UNCHANGED <<tasks, submitted, stop, toNotify>>
  BY DEF Finish, PoolTypeOK
<1>2. running[w] \in submitted \ finished
  BY <1>1 DEF RunningWhenRun, Unfinished
<1>3. \A v \in Workers : running'[v] = IF v = w THEN None ELSE running[v]
  BY <1>1
<1>4. \A u : Queued(u)' <=> Queued(u)
  BY <1>1 DEF Queued
<1>5. Apart'
  <2>1. ~Queued(None)
    BY PoolThreads DEF Queued, Unfinished, PoolTypeOK
  <2>2. \A v \in Workers : (~Queued(running[v]))'
    <3> SUFFICES ASSUME NEW v \in Workers, NEW i \in 1 .. Len(tasks),
                        tasks[i] = running'[v]
                 PROVE  FALSE
      BY <1>1 DEF Queued
    <3> QED BY <1>3, <2>1 DEF Apart, Queued
  <2> QED BY <1>1, <1>3, <2>2 DEF Apart
<1>6. Unfinished'
  <2>1. \A i \in 1 .. Len(tasks') : tasks'[i] \in submitted' \ finished'
    BY <1>1 DEF Unfinished, Apart, Queued
  <2>2. \A v \in Workers : running'[v] # None => running'[v] \in submitted' \ finished'
    BY <1>1, <1>3 DEF Unfinished, Apart
  <2>3. \A u \in submitted' \ finished' : Queued(u)' \/ \E v \in Workers : running'[v] = u
    <3> SUFFICES ASSUME NEW u \in submitted \ finished, u # running[w]
                 PROVE  Queued(u)' \/ \E v \in Workers : running'[v] = u
      BY <1>1
    <3> QED BY <1>3, <1>4 DEF Unfinished
  <2> QED BY <1>1, <1>2, <2>1, <2>2, <2>3 DEF Unfinished
<1>7. RunningWhenRun'
  BY <1>1 DEF RunningWhenRun
<1>8. Counted'
  <2>1. submitted' \ finished' = (submitted \ finished) \ {running[w]}
    BY <1>1
  <2>2. IsFiniteSet(submitted \ finished)
    BY FS_Difference DEF Counted
  <2>3. Cardinality(submitted' \ finished') = Cardinality(submitted \ finished) - 1
    BY <1>2, <2>1, <2>2, FS_RemoveElement
  <2> QED BY <1>1, <2>3 DEF Counted
<1>9. /\ In("asleep")' = In("asleep") /\ In("exited")' = In("exited")
      /\ In("test")' = In("test") \cup {w}
      /\ w \notin In("test") /\ w \notin In("exited")
  BY <1>1, WorkerMoves DEF In
<1>10. Announced'
  <2>1. Cardinality(In("test")') = Cardinality(In("test")) + 1
    BY <1>9, FinitePlaces, FS_AddElement
  <2>2. Cardinality(toNotify) \in Nat /\ Cardinality(In("test")) \in Nat
    BY FinitePlaces, FS_Subset, FS_CardinalityType DEF PoolTypeOK
  <2>3. Len(tasks) \in Nat
    BY DEF PoolTypeOK
  <2> QED BY <1>1, <1>9, <2>1, <2>2, <2>3 DEF Announced
<1>11. Exits'
  BY <1>1, <1>9 DEF Exits, Stopped
<1> QED BY <1>5, <1>6, <1>7, <1>8, <1>10, <1>11

\* A notification that wakes a sleeper replaces itself by an awake worker.
LEMMA WakeOneKeepsAnnounced ==
    ASSUME SchedulerIInv, NEW a \in toNotify, NotifyOne(a)
    PROVE  Announced' /\ In("exited")' = In("exited")
<1> USE DEF SchedulerIInv
<1>1. /\ toNotify' = toNotify \ {a} /\ IsFiniteSet(toNotify)
      /\ Cardinality(toNotify') = Cardinality(toNotify) - 1
      /\ Cardinality(toNotify) \in Nat
  BY FinitePlaces, FS_Subset, FS_RemoveElement, FS_CardinalityType
  DEF NotifyOne, PoolTypeOK
<1>2. CASE In("asleep") = {} /\ UNCHANGED worker
  BY <1>2, NobodyMoves DEF Announced
<1>3. ASSUME NEW w \in In("asleep"), worker' = [worker EXCEPT ![w] = "test"]
      PROVE  Announced' /\ In("exited")' = In("exited")
  <2>1. w \in Workers /\ worker[w] = "asleep"
    BY <1>3 DEF In
  <2>2. In("test")' = In("test") \cup {w} /\ In("exited")' = In("exited")
    <3>1. In("test")' = In("test") \cup {w} /\ In("exited")' = In("exited") \ {w}
      BY <1>3, <2>1 DEF In, PoolTypeOK
    <3>2. w \notin In("exited")
      BY <2>1 DEF In
    <3> QED BY <3>1, <3>2
  <2>3. Cardinality(In("test")') = Cardinality(In("test")) + 1
    <3>1. w \notin In("test")
      BY <2>1 DEF In
    <3> QED BY <2>2, <3>1, FinitePlaces, FS_AddElement
  <2>4. Cardinality(In("test")) \in Nat /\ Len(tasks) \in Nat /\ tasks' = tasks
    BY FinitePlaces DEF PoolTypeOK, NotifyOne, queue
  <2>5. Len(tasks) <= Cardinality(toNotify) + Cardinality(In("test"))
    BY <1>3 DEF Announced
  <2> QED BY <1>1, <2>2, <2>3, <2>4, <2>5 DEF Announced
<1> QED BY <1>2, <1>3 DEF NotifyOne

\* Steps that neither move a task nor change what is counted.
LEMMA TasksStay ==
    ASSUME SchedulerIInv, UNCHANGED <<tasks, activeTasks, submitted, running, finished>>
    PROVE  Apart' /\ Unfinished' /\ Counted'
  BY DEF SchedulerIInv, Apart, Unfinished, Counted, Queued

\* Sleeping, waking and leaving: nobody sleeps or leaves over a queued task.
LEMMA IdleKeepsScheduler ==
    ASSUME SchedulerIInv, NEW w \in Workers, Sleep(w) \/ WakeSpuriously(w) \/ Exit(w)
    PROVE  RunningWhenRun' /\ Announced' /\ Exits'
<1> USE DEF SchedulerIInv
<1>1. /\ Cardinality(toNotify) \in Nat /\ IsFiniteSet(In("test"))
      /\ Cardinality(In("test")) \in Nat /\ Cardinality(In("test")') \in Nat
      /\ Len(tasks) \in Nat
  <2>1. In("test")' \in SUBSET Workers
    BY DEF In
  <2> QED BY <2>1, PoolThreads, FinitePlaces, FS_Subset, FS_CardinalityType DEF PoolTypeOK
<1>2. ASSUME Sleep(w) PROVE RunningWhenRun' /\ Announced' /\ Exits'
  <2>1. tasks' = <<>> /\ Len(tasks') = 0 /\ UNCHANGED <<toNotify, stop, owner, running>>
        /\ worker' = [worker EXCEPT ![w] = "asleep"] /\ worker[w] = "test"
    BY <1>2 DEF Sleep, queue
  <2>2. In("exited")' = In("exited")
    BY <2>1, WorkerMoves DEF In
  <2> QED BY <1>1, <2>1, <2>2
          DEF RunningWhenRun, Announced, Exits, Stopped, PoolTypeOK
<1>3. ASSUME WakeSpuriously(w) PROVE RunningWhenRun' /\ Announced' /\ Exits'
  <2>1. UNCHANGED <<tasks, toNotify, stop, owner, running>>
        /\ worker' = [worker EXCEPT ![w] = "test"] /\ worker[w] = "asleep"
    BY <1>3 DEF WakeSpuriously, queue
  <2>2. /\ In("exited")' = In("exited") /\ In("test")' = In("test") \cup {w}
        /\ w \in In("asleep")
    <3>1. In("test")' = In("test") \cup {w} /\ In("exited")' = In("exited") \ {w}
      BY <2>1 DEF In, PoolTypeOK
    <3>2. w \in In("asleep") /\ w \notin In("exited")
      BY <2>1 DEF In
    <3> QED BY <3>1, <3>2
  <2>3. \/ Cardinality(In("test")') = Cardinality(In("test"))
        \/ Cardinality(In("test")') = Cardinality(In("test")) + 1
    BY <1>1, <2>2, FS_AddElement
  <2>4. Announced'
    BY <1>1, <2>1, <2>2, <2>3 DEF Announced
  <2> QED BY <2>1, <2>2, <2>4 DEF RunningWhenRun, Exits, Stopped, PoolTypeOK
<1>4. ASSUME Exit(w) PROVE RunningWhenRun' /\ Announced' /\ Exits'
  <2>1. tasks' = <<>> /\ Len(tasks') = 0 /\ UNCHANGED <<toNotify, stop, owner, running>>
        /\ worker' = [worker EXCEPT ![w] = "exited"] /\ worker[w] = "test" /\ stop
    BY <1>4 DEF Exit, queue
  <2>2. In("exited")' = In("exited") \cup {w}
    BY <2>1, WorkerMoves
  <2>3. In("exited") # Workers
    BY <2>1 DEF In
  <2> QED BY <1>1, <2>1, <2>2, <2>3
          DEF RunningWhenRun, Announced, Exits, Stopped, PoolTypeOK
<1> QED BY <1>2, <1>3, <1>4

\* The owner in wait and in the destructor.
LEMMA OwnerKeepsScheduler ==
    ASSUME SchedulerIInv,
           WaitCall \/ WaitSpurious \/ DestroyStop \/ OwnerProgress
    PROVE  /\ UNCHANGED <<tasks, activeTasks, submitted, running, finished, toNotify>>
           /\ RunningWhenRun' /\ Announced' /\ Exits'
<1> USE DEF SchedulerIInv
<1>1. UNCHANGED <<tasks, activeTasks, submitted, running, finished, toNotify>>
  BY DEF WaitCall, WaitSpurious, DestroyStop, OwnerProgress, WaitSleep, WaitReturn,
         DestroyNotify, DestroyJoined, OwnerStep, queue
<1>2. CASE WaitCall \/ WaitSpurious \/ WaitSleep \/ WaitReturn
  BY <1>1, <1>2, NobodyMoves
  DEF WaitCall, WaitSpurious, WaitSleep, WaitReturn, OwnerStep,
      RunningWhenRun, Announced, Exits, Stopped
<1>3. CASE DestroyStop
  BY <1>1, <1>3, NobodyMoves
  DEF DestroyStop, OwnerStep, RunningWhenRun, Announced, Exits, Stopped
<1>4. CASE DestroyNotify
  <2>1. /\ owner = "notifyAll" /\ owner' = "join" /\ UNCHANGED stop
        /\ worker' = [v \in Workers |-> IF worker[v] = "asleep" THEN "test" ELSE worker[v]]
    BY <1>4 DEF DestroyNotify, OwnerStep
  <2>2. In("asleep")' = {} /\ In("exited")' = In("exited")
    BY <2>1 DEF In
  <2> QED BY <1>1, <2>1, <2>2 DEF RunningWhenRun, Announced, Exits, Stopped
<1>5. CASE DestroyJoined
  BY <1>1, <1>5, NobodyMoves
  DEF DestroyJoined, OwnerStep, RunningWhenRun, Announced, Exits, Stopped
<1> QED BY <1>1, <1>2, <1>3, <1>4, <1>5 DEF OwnerProgress

\* Every step of the pool keeps the invariant.
LEMMA NextKeepsScheduler == SchedulerIInv /\ [PoolNext]_poolVars => SchedulerIInv'
<1> SUFFICES ASSUME SchedulerIInv, [PoolNext]_poolVars PROVE SchedulerIInv'
  OBVIOUS
<1>1. CASE UNCHANGED poolVars
  <2>1. UNCHANGED <<tasks, stop, activeTasks, worker, running, toNotify, owner,
                    submitted, finished>>
    BY <1>1 DEF poolVars
  <2>2. PoolTypeOK' /\ RunningWhenRun'
    BY <2>1 DEF SchedulerIInv, PoolTypeOK, RunningWhenRun
  <2>3. Announced' /\ Exits'
    BY <2>1, NobodyMoves DEF SchedulerIInv, Announced, Exits, Stopped
  <2> QED BY <2>1, <2>2, <2>3, TasksStay DEF SchedulerIInv
<1>2. CASE PoolNext
  <2>0. PoolTypeOK'
    BY <1>2, NextKeepsPoolTypes
  <2>1. ASSUME NEW a \in Threads, NEW t \in Tasks, enqueueTask(a, t) PROVE SchedulerIInv'
    BY <2>0, <2>1, PushKeepsScheduler DEF SchedulerIInv
  <2>2. ASSUME NEW a \in Threads, NotifyOne(a) PROVE SchedulerIInv'
    <3>1. a \in toNotify /\ UNCHANGED <<tasks, activeTasks, submitted, running, finished,
                                        stop, owner>>
      BY <2>2 DEF NotifyOne, queue
    <3>2. RunningWhenRun'
      BY <2>2, <3>1 DEF SchedulerIInv, RunningWhenRun, NotifyOne, In, PoolTypeOK
    <3>3. Announced' /\ Exits'
      BY <2>2, <3>1, WakeOneKeepsAnnounced DEF SchedulerIInv, Exits, Stopped
    <3> QED BY <2>0, <3>1, <3>2, <3>3, TasksStay DEF SchedulerIInv
  <2>3. ASSUME NEW w \in Workers, Sleep(w) \/ WakeSpuriously(w) \/ Exit(w)
        PROVE  SchedulerIInv'
    <3>1. UNCHANGED <<tasks, activeTasks, submitted, running, finished>>
      BY <2>3 DEF Sleep, WakeSpuriously, Exit, queue
    <3> QED BY <2>0, <2>3, <3>1, TasksStay, IdleKeepsScheduler DEF SchedulerIInv
  <2>4. ASSUME NEW w \in Workers, Take(w) PROVE SchedulerIInv'
    BY <2>0, <2>4, TakeKeepsScheduler DEF SchedulerIInv
  <2>5. ASSUME NEW w \in Workers, Finish(w) PROVE SchedulerIInv'
    BY <2>0, <2>5, FinishKeepsScheduler DEF SchedulerIInv
  <2>6. CASE WaitCall \/ WaitSpurious \/ DestroyStop \/ OwnerProgress
    BY <2>0, <2>6, OwnerKeepsScheduler, TasksStay DEF SchedulerIInv
  <2> QED BY <1>2, <2>1, <2>2, <2>3, <2>4, <2>5, <2>6 DEF PoolNext, WorkerStep
<1> QED BY <1>1, <1>2

-----------------------------------------------------------------------------
\* A set with at most one element, by whether it has one.
LEMMA AtMostOne ==
    ASSUME NEW S, \A x, y \in S : x = y
    PROVE  Cardinality(S) = IF S = {} THEN 0 ELSE 1
<1>1. CASE S = {}
  BY <1>1, FS_EmptySet
<1>2. CASE S # {}
  <2>1. PICK x : S = {x}
    BY <1>2
  <2> QED BY <1>2, <2>1, FS_Singleton
<1> QED BY <1>1, <1>2

\* Each enqueued task is in one place: queued, with a worker, or finished.
LEMMA SchedulerRunsOnce == SchedulerIInv => RunsOnce
<1> SUFFICES ASSUME SchedulerIInv, NEW t \in submitted
             PROVE  Cardinality({i \in DOMAIN tasks : tasks[i] = t})
                      + Cardinality({w \in Workers : running[w] = t})
                      + (IF t \in finished THEN 1 ELSE 0) = 1
  BY DEF RunsOnce
<1> DEFINE Q == {i \in DOMAIN tasks : tasks[i] = t}
           R == {w \in Workers : running[w] = t}
<1>1. DOMAIN tasks = 1 .. Len(tasks) /\ t # None
  BY PoolThreads DEF SchedulerIInv, PoolTypeOK
<1>2. Cardinality(Q) = IF Q = {} THEN 0 ELSE 1
  BY <1>1, AtMostOne DEF SchedulerIInv, Apart
<1>3. Cardinality(R) = IF R = {} THEN 0 ELSE 1
  BY <1>1, AtMostOne DEF SchedulerIInv, Apart
<1>4. /\ Q = {} \/ R = {}
      /\ t \in finished => Q = {} /\ R = {}
      /\ t \notin finished => Q # {} \/ R # {}
  BY <1>1 DEF SchedulerIInv, Apart, Unfinished, Queued
<1> HIDE DEF Q, R
<1>5. Cardinality(Q) + Cardinality(R) + (IF t \in finished THEN 1 ELSE 0) = 1
  BY <1>2, <1>3, <1>4
<1> QED BY <1>5 DEF Q, R

\* The inductive invariant gives the one the runs check.
LEMMA SchedulerIInvGivesInv == SchedulerIInv => SchedulerInv
<1> SUFFICES ASSUME SchedulerIInv PROVE SchedulerInv
  OBVIOUS
<1>1. EnoughAwake
  <2> DEFINE a == Len(tasks)
             b == Cardinality(In("asleep"))
             c == Cardinality(toNotify) + Cardinality(In("test"))
  <2>1. a \in Nat /\ b \in Nat /\ c \in Nat
    BY FinitePlaces, FS_Subset, FS_CardinalityType DEF SchedulerIInv, PoolTypeOK
  <2>2. b # 0 => a <= c
    BY FS_EmptySet DEF SchedulerIInv, Announced
  <2> HIDE DEF a, b, c
  <2>3. Min({a, b}) \in {a, b} /\ Min({a, b}) <= a /\ Min({a, b}) <= b
    <3>1. \E x \in {a, b} : \A y \in {a, b} : x <= y
      BY <2>1
    <3> QED BY <3>1 DEF Min
  <2>4. Min({a, b}) <= c
    BY <2>1, <2>2, <2>3
  <2> QED BY <2>4 DEF EnoughAwake, a, b, c
<1>2. DrainedAtExit
  <2> SUFFICES ASSUME owner = "gone" PROVE submitted = finished
    BY DEF DrainedAtExit
  <2>1. tasks = <<>> /\ Len(tasks) = 0 /\ \A w \in Workers : worker[w] = "exited"
    BY DEF SchedulerIInv, Exits, In
  <2>2. \A t \in submitted \ finished : t # None
    BY PoolThreads DEF SchedulerIInv, PoolTypeOK
  <2>3. \A t \in submitted \ finished : FALSE
    BY <2>1, <2>2 DEF SchedulerIInv, Unfinished, RunningWhenRun, Queued
  <2> QED BY <2>3 DEF SchedulerIInv, Unfinished
<1> QED BY <1>1, <1>2, SchedulerRunsOnce DEF SchedulerInv, SchedulerIInv

\* Each task is run once, no wake-up is lost, and the destructor leaves no
\* task behind, whatever workers, tasks and callers do.
THEOREM SchedulerInvariant == PoolSpec => []SchedulerInv
<1>1. PoolSpec => []SchedulerIInv
  BY InitEstablishesScheduler, NextKeepsScheduler, PTL DEF PoolSpec
<1> QED BY <1>1, SchedulerIInvGivesInv, PTL

\* Without an active task every task has finished.
LEMMA IdleHasFinished ==
    ASSUME SchedulerIInv, activeTasks = 0
    PROVE  submitted \subseteq finished
<1>1. IsFiniteSet(submitted \ finished)
  BY FS_Difference DEF SchedulerIInv, Counted
<1>2. submitted \ finished = {}
  BY <1>1, FS_EmptySet DEF SchedulerIInv, Counted
<1> QED BY <1>2

\* wait returns only when every task enqueued so far has run to its end.
THEOREM WaitReturnsIdle == PoolSpec => WaitMeansIdle
<1>1. PoolSpec => []SchedulerIInv
  BY InitEstablishesScheduler, NextKeepsScheduler, PTL DEF PoolSpec
<1>2. SchedulerIInv /\ [PoolNext]_poolVars
        => [(owner = "waitTest" /\ owner' = "run") => submitted \subseteq finished]_poolVars
  <2> SUFFICES ASSUME SchedulerIInv, PoolNext, owner = "waitTest", owner' = "run"
               PROVE  submitted \subseteq finished
    OBVIOUS
  <2>1. activeTasks = 0
    BY DEF PoolNext, NotifyOne, enqueueTask, Push, WorkerStep, Sleep, Exit, Take,
           WakeSpuriously, Finish, WaitCall, WaitSpurious, DestroyStop, OwnerProgress,
           WaitSleep, WaitReturn, DestroyNotify, DestroyJoined, OwnerStep
  <2> QED BY <2>1, IdleHasFinished
<1> QED BY <1>1, <1>2, PTL DEF PoolSpec, WaitMeansIdle

-----------------------------------------------------------------------------
(***************************************************************************)
(* Where the token of an iteration is, between its creation by the main      *)
(* thread and the last reference to it.                                     *)
(***************************************************************************)
RunsIn(i, S) == \E w \in Workers : running[w] = i /\ task[w] \in S

Created(i) == i < iv \/ (i = iv /\ main \in {"execute", "add", "dropToken"})
Enqueued(i) == i < iv \/ (i = iv /\ main \in {"add", "dropToken"})
Added(i) == i < iv \/ (i = iv /\ main = "dropToken")

Emplaced(i) == i \in finished \/ RunsIn(i, {"awaiter", "leave", "dropToken", "end"})
Locked(i) == RunsIn(i, {"awaiter", "leave"})
Awaiting(i) == RunsIn(i, {"awaiter"})
Left(i) == i \in finished \/ RunsIn(i, {"dropToken", "end"})
Dropped(i) == i \in finished \/ RunsIn(i, {"end"})

\* The references the program and the task have.
CallerRef(i) == IF dropsRefs /\ i < iv THEN 0 ELSE 1
TaskRef(i) == IF Dropped(i) THEN 0 ELSE 1

TokenOK(i) ==
    IF Created(i)
    THEN /\ token[i].state # "none"
         /\ isAvailableOrError(i) <=> Emplaced(i)
         /\ token[i].refCount = CallerRef(i) + TaskRef(i)
         /\ token[i].mu # NoThread <=> Locked(i)
         /\ token[i].awaiter => Added(i)
         /\ Added(i) /\ ~Emplaced(i) => token[i].awaiter
         /\ Awaiting(i) => token[i].awaiter
    ELSE token[i] = Unborn

\* The tokens the group has counted, and those whose awaiter refers to it.
IsCounted(i) == isAvailableOrError(i) /\ Added(i) /\ ~Awaiting(i)
CountedTokens == {i \in Iterations : IsCounted(i)}

HoldsGroup(i) == token[i].awaiter /\ ~Left(i)
AwaiterRefs == {i \in Iterations : HoldsGroup(i)}

-----------------------------------------------------------------------------
(***************************************************************************)
(* The inductive invariant.                                                 *)
(***************************************************************************)
\* The induction variable is an iteration wherever the loop body uses it.
LoopCounter ==
    /\ iv >= lb /\ (iv - lb) % step = 0
    /\ main \in {"execute", "add", "dropToken"} => iv < ub
    /\ main = "asleep" \/ PastJoin => iv >= ub
    /\ main = "createGroup" => iv = lb
    /\ main \in {"dropToken", "dropGroup"} => dropsRefs

\* What the main thread has enqueued, and what the workers run.
TasksOfLoop == \A i \in Iterations : i \in submitted <=> Enqueued(i)

WorkerStages == \A w \in Workers : task[w] = "none" <=> running[w] = None

BodiesRun == \A i \in Iterations : RunsIn(i, {"emplace"}) \/ Emplaced(i) => i \in bodies

TokenStates == \A i \in Iterations : TokenOK(i)

GroupRef ==
    IF main = "createGroup" \/ (dropsRefs /\ main \in {"exit", "exitWait", "assert"})
    THEN 0 ELSE 1

\* The group waits for what it has not counted, and knows the errors of what
\* it has; its references are the program's and those of the awaiters.
GroupState ==
    /\ main # "createGroup" => group.pendingTokens = nThreads - Cardinality(CountedTokens)
    /\ group.numErrors > 0 <=> \E i \in CountedTokens : token[i].state = "error"
    /\ group.refCount = GroupRef + Cardinality(AwaiterRefs)

Joined == PastJoin => CountedTokens = Iterations

IdleAtAssert == main = "assert" => submitted \subseteq finished

ForallIInv ==
    /\ SchedulerIInv
    /\ TypeOK
    /\ LoopCounter
    /\ TasksOfLoop
    /\ WorkerStages
    /\ BodiesRun
    /\ TokenStates
    /\ GroupState
    /\ Joined
    /\ IdleAtAssert
    /\ ErrorsReported

\* The group was created for at least as many tokens as there are iterations.
EnoughPending == Cardinality(Iterations) <= nThreads

-----------------------------------------------------------------------------
\* Iterations are numbers and tasks, and there are finitely many.
LEMMA IterationFacts ==
    /\ IsFiniteSet(Iterations)
    /\ \A i \in Iterations : i \in Nat /\ i >= lb /\ i < ub /\ (i - lb) % step = 0
    /\ \A i \in Iterations : i # None /\ i \in Tasks /\ i \in AsyncTokens
    /\ \A i \in Nat : i >= lb /\ i < ub /\ (i - lb) % step = 0 => i \in Iterations
    /\ lb \in Nat /\ ub \in Nat /\ step \in Nat \ {0}
<1>1. lb \in Nat /\ ub \in Nat /\ step \in Nat \ {0} /\ Tasks = Iterations
      /\ AsyncTokens = Iterations /\ None \notin Tasks
  BY ForallAssumption, PoolThreads
<1>2. Iterations \in SUBSET (lb .. ub - 1)
  BY DEF Iterations
<1>3. IsFiniteSet(Iterations)
  <2>1. lb \in Int /\ ub - 1 \in Int
    BY <1>1
  <2>2. IsFiniteSet(lb .. ub - 1)
    BY <2>1, FS_Interval
  <2> QED BY <1>2, <2>2, FS_Subset
<1>4. \A i \in Iterations : i \in Nat /\ i >= lb /\ i < ub /\ (i - lb) % step = 0
  BY <1>1 DEF Iterations
<1>5. \A i \in Nat : i >= lb /\ i < ub /\ (i - lb) % step = 0 => i \in Iterations
  BY <1>1 DEF Iterations
<1> QED BY <1>1, <1>3, <1>4, <1>5

\* After iv the next iteration is iv + step.
LEMMA NextIteration ==
    ASSUME iv \in Nat, iv >= lb, (iv - lb) % step = 0
    PROVE  /\ iv + step \in Nat /\ iv + step >= lb /\ (iv + step - lb) % step = 0
           /\ \A i \in Iterations : i < iv + step <=> i < iv \/ i = iv
<1>1. lb \in Nat /\ step \in Nat \ {0}
  BY IterationFacts
<1>2. PICK d \in Nat : d = iv - lb
  BY <1>1
<1>3. PICK q \in Nat, r \in 0 .. step - 1 : r = d % step /\ d = step * q + r
  BY <1>1, DivModNames
<1>4. d = step * q /\ q \in Int
  BY <1>1, <1>2, <1>3
<1>5. step * (q + 1) = step * q + step
  BY <1>1, <1>4, NextMultiple
<1>6. (iv + step - lb) % step = 0
  <2>1. iv + step - lb = step * (q + 1) + 0
    BY <1>1, <1>2, <1>4, <1>5
  <2>2. q + 1 \in Int
    BY <1>4
  <2>3. (step * (q + 1) + 0) % step = 0
    BY <1>1, <2>2, ModUnique
  <2> QED BY <2>1, <2>3
<1>7. ASSUME NEW i \in Iterations, i > iv PROVE i >= iv + step
  <2>1. i \in Nat /\ i >= lb /\ (i - lb) % step = 0
    BY IterationFacts
  <2>2. PICK e \in Nat : e = i - lb
    BY <1>1, <2>1
  <2>3. PICK p \in Nat, s \in 0 .. step - 1 : s = e % step /\ e = step * p + s
    BY <1>1, DivModNames
  <2>4. e = step * p
    BY <1>1, <2>1, <2>2, <2>3
  <2>5. e > d
    BY <1>1, <1>2, <1>7, <2>1, <2>2
  <2>6. CASE p <= q
    <3>1. step * p <= step * q
      BY <1>1, <2>6
    <3> QED BY <1>1, <1>3, <1>4, <2>3, <2>4, <2>5, <3>1
  <2>7. CASE p >= q + 1
    <3>1. step * p >= step * (q + 1)
      BY <1>1, <2>7
    <3>2. e >= d + step
      BY <1>1, <1>4, <1>5, <2>4, <3>1
    <3> QED BY <1>1, <1>2, <2>1, <2>2, <3>2
  <2> QED BY <2>6, <2>7
<1>8. \A i \in Iterations : i \in Nat
  BY IterationFacts
<1> QED BY <1>1, <1>6, <1>7, <1>8

\* The sets of tokens the group knows are finite.
LEMMA FiniteTokens ==
    /\ IsFiniteSet(CountedTokens) /\ Cardinality(CountedTokens) \in Nat
    /\ IsFiniteSet(AwaiterRefs) /\ Cardinality(AwaiterRefs) \in Nat
    /\ CountedTokens \subseteq Iterations /\ AwaiterRefs \subseteq Iterations
<1>1. CountedTokens \in SUBSET Iterations /\ AwaiterRefs \in SUBSET Iterations
  BY DEF CountedTokens, AwaiterRefs
<1> QED BY <1>1, IterationFacts, FS_Subset, FS_CardinalityType

\* A running task is an iteration that was enqueued, and one worker runs it.
LEMMA StageOf ==
    ASSUME ForallIInv, NEW w \in Workers, NEW i, i = running[w], task[w] # "none"
    PROVE  /\ i \in Iterations /\ i \notin finished /\ i \in submitted /\ i # None
           /\ \A S : RunsIn(i, S) <=> task[w] \in S
           /\ Created(i)
<1>1. i # None
  BY DEF ForallIInv, WorkerStages
<1>2. i \in submitted /\ i \notin finished
  BY <1>1 DEF ForallIInv, SchedulerIInv, Unfinished
<1>3. i \in Iterations
  BY <1>2, ForallAssumption DEF ForallIInv, SchedulerIInv, PoolTypeOK
<1>4. \A v \in Workers : running[v] = i => v = w
  BY <1>1 DEF ForallIInv, SchedulerIInv, Apart
<1>5. Created(i)
  BY <1>2, <1>3 DEF ForallIInv, TasksOfLoop, Enqueued, Created
<1> QED BY <1>1, <1>2, <1>3, <1>4, <1>5 DEF RunsIn

\* What was not enqueued has not run.
LEMMA NotStarted ==
    ASSUME ForallIInv, NEW i \in Iterations, i \notin submitted
    PROVE  i \notin finished /\ \A S : ~RunsIn(i, S)
  BY IterationFacts DEF ForallIInv, SchedulerIInv, Unfinished, RunsIn

\* One worker goes on in its task.
LEMMA StageMoves ==
    ASSUME ForallIInv, NEW w \in Workers, NEW i, i = running[w], task[w] # "none",
           NEW to, task' = [task EXCEPT ![w] = to], running' = running
    PROVE  /\ \A S : RunsIn(i, S)' <=> to \in S
           /\ \A j \in Iterations : j # i => \A S : RunsIn(j, S)' <=> RunsIn(j, S)
<1>1. i # None /\ \A v \in Workers : running[v] = i => v = w
  BY DEF ForallIInv, WorkerStages, SchedulerIInv, Apart
<1>2. \A v \in Workers : task'[v] = IF v = w THEN to ELSE task[v]
  BY DEF ForallIInv, TypeOK
<1> QED BY <1>1, <1>2 DEF RunsIn

\* A token nobody touched is as it was.
LEMMA TokenFrame ==
    ASSUME NEW i, TokenOK(i), token'[i] = token[i], UNCHANGED dropsRefs,
           Created(i)' <=> Created(i), Added(i)' <=> Added(i),
           dropsRefs => (i < iv' <=> i < iv),
           Emplaced(i)' <=> Emplaced(i), Dropped(i)' <=> Dropped(i),
           Locked(i)' <=> Locked(i), Awaiting(i)' <=> Awaiting(i)
    PROVE  TokenOK(i)'
<1>1. CallerRef(i)' = CallerRef(i) /\ TaskRef(i)' = TaskRef(i)
  BY DEF CallerRef, TaskRef
<1> QED BY <1>1 DEF TokenOK, isAvailableOrError

-----------------------------------------------------------------------------
\* Nothing is created, enqueued or counted at first.
LEMMA InitEstablishesForall == Init => ForallIInv
<1> SUFFICES ASSUME Init PROVE ForallIInv
  OBVIOUS
<1>1. SchedulerIInv
  BY InitEstablishesScheduler DEF Init
<1>2. /\ main = "createGroup" /\ iv = lb /\ task = [w \in Workers |-> "none"]
      /\ bodies = {} /\ sawError = FALSE /\ dropsRefs \in BOOLEAN
      /\ token = [t \in AsyncTokens |-> Unborn]
      /\ group = [pendingTokens |-> 0, numErrors |-> 0, refCount |-> 0]
      /\ running = [w \in Workers |-> None] /\ submitted = {} /\ finished = {}
  BY DEF Init, AsyncInit, PoolInit
<1>3. TypeOK
  <2>1. Unborn \in [state : {"none", "unavailable", "available", "error"},
                    refCount : Nat, mu : Workers \cup {NoThread}, awaiter : BOOLEAN]
    BY DEF Unborn
  <2>2. token \in [AsyncTokens -> [state : {"none", "unavailable", "available", "error"},
                                   refCount : Nat, mu : Workers \cup {NoThread},
                                   awaiter : BOOLEAN]]
    BY <1>2, <2>1
  <2>3. group \in [pendingTokens : Int, numErrors : Nat, refCount : Nat]
    BY <1>2
  <2>4. task \in [Workers -> {"none", "body", "emplace", "awaiter", "leave", "dropToken", "end"}]
    BY <1>2
  <2>5. PoolTypeOK /\ iv \in Nat
    BY <1>1, <1>2, IterationFacts DEF SchedulerIInv
  <2> QED BY <1>2, <2>2, <2>3, <2>4, <2>5 DEF TypeOK
<1>4. \A i \in Iterations : \A S : ~RunsIn(i, S)
  BY <1>2, IterationFacts DEF RunsIn
<1>5. \A i \in Iterations : ~Created(i) /\ ~Enqueued(i) /\ ~Added(i) /\ ~Emplaced(i)
  BY <1>2, <1>4, IterationFacts DEF Created, Enqueued, Added, Emplaced
<1>6. LoopCounter
  <2>1. (lb - lb) % step = 0
    BY IterationFacts
  <2> QED BY <1>2, <2>1, IterationFacts DEF LoopCounter, PastJoin
<1>7. CountedTokens = {} /\ AwaiterRefs = {}
  BY <1>2, <1>5, IterationFacts DEF CountedTokens, AwaiterRefs, IsCounted, HoldsGroup, Unborn
<1>8. GroupState
  BY <1>2, <1>7, FS_EmptySet DEF GroupState, GroupRef
<1>9. TokenStates
  BY <1>2, <1>5, IterationFacts DEF TokenStates, TokenOK
<1> QED BY <1>1, <1>2, <1>3, <1>4, <1>5, <1>6, <1>8, <1>9
        DEF ForallIInv, TasksOfLoop, WorkerStages, BodiesRun, Joined, PastJoin,
            IdleAtAssert, ErrorsReported

-----------------------------------------------------------------------------
\* Whatever the program does, the pool makes one of its own steps.
LEMMA PoolStepOfForall ==
    ASSUME ForallIInv, [Next]_vars
    PROVE  [PoolNext]_poolVars
<1>1. main = "execute" => iv \in Tasks
  BY IterationFacts DEF ForallIInv, LoopCounter, TypeOK
<1>2. Main \in Threads
  BY DEF Threads
<1>3. CASE MainExecute
  <2>1. main = "execute" /\ enqueueTask(Main, iv)
    BY <1>3 DEF MainExecute, MainAt
  <2>2. iv \in Tasks
    BY <1>1, <2>1
  <2> QED BY <1>2, <2>1, <2>2 DEF PoolNext
<1>4. CASE MainNotify
  BY <1>2, <1>4 DEF MainNotify, PoolNext
<1>5. CASE MainShutdown \/ MainWait \/ MainDestroyPool
  BY <1>5 DEF MainShutdown, MainWait, MainDestroyPool, PoolNext, OwnerProgress
<1>6. CASE \/ MainCreateGroup \/ MainCreateToken \/ MainAddToGroup \/ MainDropToken
           \/ MainAwait \/ MainWake \/ MainCheckError \/ MainDropGroup
  BY <1>6 DEF MainCreateGroup, MainCreateToken, MainAddToGroup, MainDropToken,
              MainAwait, MainWake, MainCheckError, MainDropGroup
<1>7. ASSUME NEW w \in Workers, WorkerTake(w) \/ WorkerIdle(w)
      PROVE  PoolNext
  BY <1>7 DEF WorkerTake, WorkerIdle, PoolNext, WorkerStep
<1>8. ASSUME NEW w \in Workers, WorkerFinish(w) \/ WorkerSpurious(w)
      PROVE  PoolNext
  BY <1>8 DEF WorkerFinish, WorkerSpurious, PoolNext
<1>9. ASSUME NEW w \in Workers,
             TaskBody(w) \/ TaskEmplace(w) \/ TaskAwaiter(w) \/ TaskLeave(w) \/ TaskDropToken(w)
      PROVE  UNCHANGED poolVars
  BY <1>9 DEF TaskBody, TaskEmplace, TaskAwaiter, TaskLeave, TaskDropToken
<1>10. CASE UNCHANGED vars
  BY <1>10 DEF vars
<1>11. CASE Ended
  BY <1>11 DEF Ended, vars
<1> QED BY <1>3, <1>4, <1>5, <1>6, <1>7, <1>8, <1>9, <1>10, <1>11
        DEF Next, MainStep, WorkStep

\* A step that leaves the loop, the tokens and the stages of the tasks alone
\* leaves what is said of them.
LEMMA QuietStep ==
    ASSUME ForallIInv, UNCHANGED <<token, task, running, finished, submitted, iv, bodies,
                                   dropsRefs>>,
           main' = main \/ {main, main'} \cap {"execute", "add", "dropToken"} = {}
    PROVE  /\ TasksOfLoop' /\ WorkerStages' /\ BodiesRun' /\ TokenStates'
           /\ CountedTokens' = CountedTokens /\ AwaiterRefs' = AwaiterRefs
<1>1. \A i : /\ Created(i)' <=> Created(i)
             /\ Enqueued(i)' <=> Enqueued(i)
             /\ Added(i)' <=> Added(i)
  BY DEF Created, Enqueued, Added
<1>2. \A i, S : RunsIn(i, S)' <=> RunsIn(i, S)
  BY DEF RunsIn
<1>3. \A i : /\ Emplaced(i)' <=> Emplaced(i)
             /\ Dropped(i)' <=> Dropped(i)
             /\ Left(i)' <=> Left(i)
             /\ Locked(i)' <=> Locked(i)
             /\ Awaiting(i)' <=> Awaiting(i)
  BY <1>2 DEF Emplaced, Dropped, Left, Locked, Awaiting
<1>4. TokenStates'
  <2> SUFFICES ASSUME NEW i \in Iterations PROVE TokenOK(i)'
    BY DEF TokenStates
  <2>1. TokenOK(i)
    BY DEF ForallIInv, TokenStates
  <2> QED BY <1>1, <1>3, <2>1, TokenFrame
<1>5. CountedTokens' = CountedTokens
  BY <1>1, <1>3 DEF CountedTokens, IsCounted, isAvailableOrError
<1>6. AwaiterRefs' = AwaiterRefs
  BY <1>3 DEF AwaiterRefs, HoldsGroup
<1>7. TasksOfLoop' /\ WorkerStages' /\ BodiesRun'
  BY <1>1, <1>2, <1>3 DEF ForallIInv, TasksOfLoop, WorkerStages, BodiesRun
<1> QED BY <1>4, <1>5, <1>6, <1>7

\* The types of the program's variables.
TokenRecord ==
    [state : {"none", "unavailable", "available", "error"}, refCount : Nat,
     mu : Workers \cup {NoThread}, awaiter : BOOLEAN]

\* Every token of the program is a token of the runtime, field by field.
LEMMA TokenFields ==
    ASSUME ForallIInv, NEW t \in AsyncTokens
    PROVE  /\ token \in [AsyncTokens -> TokenRecord]
           /\ token[t] \in TokenRecord
           /\ token[t].state \in {"none", "unavailable", "available", "error"}
           /\ token[t].refCount \in Nat /\ token[t].mu \in Workers \cup {NoThread}
           /\ token[t].awaiter \in BOOLEAN
<1>1. token \in [AsyncTokens -> TokenRecord]
  BY DEF ForallIInv, TypeOK, TokenRecord
<1>2. token[t] \in TokenRecord
  BY <1>1
<1> QED BY <1>1, <1>2 DEF TokenRecord

\* So is the group.
LEMMA GroupFields ==
    ASSUME ForallIInv
    PROVE  /\ group \in [pendingTokens : Int, numErrors : Nat, refCount : Nat]
           /\ group.pendingTokens \in Int /\ group.numErrors \in Nat
           /\ group.refCount \in Nat
  BY DEF ForallIInv, TypeOK

\* The size the group is created with is a number.
LEMMA GroupSizeInt == nThreads \in Int
  BY IterationFacts DEF nThreads

\* Without a pending token every iteration is counted.
LEMMA NonePending ==
    ASSUME ForallIInv, EnoughPending, main # "createGroup", group.pendingTokens = 0
    PROVE  CountedTokens = Iterations
<1>1. Cardinality(CountedTokens) = nThreads
  BY FiniteTokens, GroupSizeInt DEF ForallIInv, GroupState
<1>2. Cardinality(Iterations) \in Nat
  BY IterationFacts, FS_CardinalityType
<1>3. Cardinality(CountedTokens) <= Cardinality(Iterations)
  BY IterationFacts, FiniteTokens, FS_Subset
<1>4. Cardinality(CountedTokens) = Cardinality(Iterations)
  BY <1>1, <1>2, <1>3, GroupSizeInt DEF EnoughPending
<1> QED BY <1>4, IterationFacts, FiniteTokens, FS_Subset

-----------------------------------------------------------------------------
(***************************************************************************)
(* The steps that leave the tokens alone.                                   *)
(***************************************************************************)
Quiet == UNCHANGED <<token, task, running, finished, submitted, iv, bodies, dropsRefs>>

\* Sleeping, waking and notifying change nothing the program sees.
LEMMA PoolOnlyStep ==
    ASSUME ForallIInv, SchedulerIInv', Quiet, UNCHANGED <<main, group, sawError>>
    PROVE  ForallIInv'
<1>1. /\ TasksOfLoop' /\ WorkerStages' /\ BodiesRun' /\ TokenStates'
      /\ CountedTokens' = CountedTokens /\ AwaiterRefs' = AwaiterRefs
  BY QuietStep DEF Quiet
<1>2. TypeOK'
  BY DEF ForallIInv, SchedulerIInv, TypeOK, Quiet
<1>3. LoopCounter' /\ IdleAtAssert'
  BY DEF ForallIInv, LoopCounter, PastJoin, IdleAtAssert, Quiet
<1>4. GroupState' /\ Joined'
  BY <1>1 DEF ForallIInv, GroupState, GroupRef, Joined, PastJoin, Quiet
<1>5. ErrorsReported'
  BY DEF ForallIInv, ErrorsReported, Quiet
<1> QED BY <1>1, <1>2, <1>3, <1>4, <1>5 DEF ForallIInv

\* The main thread before and after the loop.
LEMMA MainOnlyStep ==
    ASSUME ForallIInv, EnoughPending, SchedulerIInv', Quiet,
           \/ MainCreateGroup \/ MainAwait \/ MainWake \/ MainCheckError \/ MainDropGroup
           \/ main = "exit" /\ main' = "exitWait" /\ UNCHANGED <<group, sawError>>
           \/ /\ main = "exitWait" /\ main' = "assert" /\ UNCHANGED <<group, sawError>>
              /\ submitted \subseteq finished
    PROVE  ForallIInv'
<1>1. /\ main \notin {"execute", "add", "dropToken"}
      /\ main' \notin {"execute", "add", "dropToken"}
  BY DEF MainCreateGroup, MainAwait, MainWake, MainCheckError, MainDropGroup, MainAt
<1>2. /\ TasksOfLoop' /\ WorkerStages' /\ BodiesRun' /\ TokenStates'
      /\ CountedTokens' = CountedTokens /\ AwaiterRefs' = AwaiterRefs
  BY <1>1, QuietStep DEF Quiet
<1>3. /\ token' = token /\ iv' = iv /\ dropsRefs' = dropsRefs
      /\ submitted' = submitted /\ finished' = finished
      /\ task' = task /\ bodies' = bodies
  BY DEF Quiet
<1>4. /\ TypeOK /\ LoopCounter /\ GroupState /\ Joined /\ ErrorsReported /\ IdleAtAssert
      /\ dropsRefs \in BOOLEAN
  BY DEF ForallIInv, TypeOK
<1>5. ASSUME group' \in [pendingTokens : Int, numErrors : Nat, refCount : Nat],
             sawError' \in BOOLEAN,
             main' \in {"createGroup", "loop", "execute", "add", "dropToken", "asleep",
                        "joined", "dropGroup", "exit", "exitWait", "assert"}
      PROVE  TypeOK'
  BY <1>3, <1>4, <1>5 DEF TypeOK, SchedulerIInv
<1>6. CASE MainCreateGroup
  <2>1. /\ main = "createGroup" /\ main' = "loop" /\ sawError' = sawError
        /\ group' = [group EXCEPT !.pendingTokens = nThreads, !.refCount = 1]
    BY <1>6 DEF MainCreateGroup, MainAt, CreateGroup
  <2>2. /\ group' \in [pendingTokens : Int, numErrors : Nat, refCount : Nat]
        /\ group'.pendingTokens = nThreads /\ group'.refCount = 1
        /\ group'.numErrors = group.numErrors
    BY <2>1, GroupFields, GroupSizeInt
  <2>3. TypeOK'
    BY <1>4, <1>5, <2>1, <2>2 DEF TypeOK
  <2>4. CountedTokens = {} /\ AwaiterRefs = {}
    <3>1. \A i \in Iterations : ~Created(i) /\ ~Added(i)
      BY <1>4, <2>1, IterationFacts DEF LoopCounter, Created, Added
    <3>2. \A i \in Iterations : token[i] = Unborn
      BY <3>1 DEF ForallIInv, TokenStates, TokenOK
    <3> QED BY <3>1, <3>2 DEF CountedTokens, IsCounted, AwaiterRefs, HoldsGroup, Unborn
  <2>5. Cardinality(CountedTokens) = 0 /\ Cardinality(AwaiterRefs) = 0
    BY <2>4, FS_EmptySet
  <2>6. GroupState'
    BY <1>2, <1>3, <1>4, <2>1, <2>2, <2>4, <2>5, GroupSizeInt DEF GroupState, GroupRef
  <2> QED BY <1>2, <1>3, <1>4, <2>1, <2>3, <2>6
          DEF ForallIInv, LoopCounter, PastJoin, Joined, IdleAtAssert, ErrorsReported
<1>7. CASE MainAwait
  <2>1. /\ main = "loop" /\ main' = (IF AwaitAllDone THEN "joined" ELSE "asleep")
        /\ iv >= ub /\ group' = group /\ sawError' = sawError
    BY <1>7 DEF MainAwait, MainAt, asyncVars
  <2>2. TypeOK'
    BY <1>4, <1>5, <2>1 DEF TypeOK
  <2>3. main' = "joined" => CountedTokens = Iterations
    BY <2>1, NonePending DEF AwaitAllDone
  <2>4. GroupState' /\ Joined'
    BY <1>2, <1>3, <1>4, <2>1, <2>3 DEF GroupState, GroupRef, Joined, PastJoin
  <2> QED BY <1>2, <1>3, <1>4, <2>1, <2>2, <2>4
          DEF ForallIInv, LoopCounter, PastJoin, IdleAtAssert, ErrorsReported
<1>8. CASE MainWake
  <2>1. main = "asleep" /\ main' = "loop" /\ group' = group /\ sawError' = sawError
    BY <1>8 DEF MainWake, MainAt, asyncVars
  <2>2. TypeOK'
    BY <1>4, <1>5, <2>1 DEF TypeOK
  <2>3. GroupState' /\ Joined'
    BY <1>2, <1>3, <1>4, <2>1 DEF GroupState, GroupRef, Joined, PastJoin
  <2> QED BY <1>2, <1>3, <1>4, <2>1, <2>2, <2>3
          DEF ForallIInv, LoopCounter, PastJoin, IdleAtAssert, ErrorsReported
<1>9. CASE MainCheckError
  <2>1. /\ main = "joined" /\ main' = (IF dropsRefs THEN "dropGroup" ELSE "exit")
        /\ group' = group /\ sawError' = IsGroupError
    BY <1>9 DEF MainCheckError, MainAt, asyncVars
  <2>2. IsGroupError \in BOOLEAN
    BY DEF IsGroupError
  <2>3. TypeOK'
    BY <1>4, <1>5, <2>1, <2>2 DEF TypeOK
  <2>4. CountedTokens = Iterations
    BY <1>4, <2>1 DEF Joined, PastJoin
  <2>5. ErrorsReported'
    <3>1. IsGroupError <=> \E t \in AsyncTokens : token[t].state = "error"
      BY <1>4, <2>4, ForallAssumption DEF GroupState, IsGroupError
    <3> QED BY <1>3, <2>1, <2>2, <3>1 DEF ErrorsReported
  <2>6. GroupState' /\ Joined'
    BY <1>2, <1>3, <1>4, <2>1, <2>4 DEF GroupState, GroupRef, Joined, PastJoin
  <2> QED BY <1>2, <1>3, <1>4, <2>1, <2>3, <2>5, <2>6
          DEF ForallIInv, LoopCounter, PastJoin, IdleAtAssert
<1>10. CASE MainDropGroup
  <2>1. /\ main = "dropGroup" /\ main' = "exit" /\ sawError' = sawError
        /\ group' = [group EXCEPT !.refCount = @ - 1]
    BY <1>10 DEF MainDropGroup, MainAt, dropGroupRef
  <2>2. dropsRefs /\ group.refCount = 1 + Cardinality(AwaiterRefs)
    BY <1>4, <2>1 DEF LoopCounter, GroupState, GroupRef
  <2>3. /\ group' \in [pendingTokens : Int, numErrors : Nat, refCount : Nat]
        /\ group'.pendingTokens = group.pendingTokens
        /\ group'.numErrors = group.numErrors
        /\ group'.refCount = Cardinality(AwaiterRefs)
    BY <2>1, <2>2, GroupFields, FiniteTokens
  <2>4. TypeOK'
    BY <1>4, <1>5, <2>1, <2>3 DEF TypeOK
  <2>5. GroupState' /\ Joined'
    BY <1>2, <1>3, <1>4, <2>1, <2>2, <2>3, FiniteTokens
       DEF GroupState, GroupRef, Joined, PastJoin
  <2> QED BY <1>2, <1>3, <1>4, <2>1, <2>4, <2>5
          DEF ForallIInv, LoopCounter, PastJoin, IdleAtAssert, ErrorsReported
<1>11. CASE \/ main = "exit" /\ main' = "exitWait" /\ UNCHANGED <<group, sawError>>
            \/ /\ main = "exitWait" /\ main' = "assert" /\ UNCHANGED <<group, sawError>>
               /\ submitted \subseteq finished
  <2>1. TypeOK'
    BY <1>4, <1>5, <1>11 DEF TypeOK
  <2>2. GroupState' /\ Joined'
    BY <1>2, <1>3, <1>4, <1>11 DEF GroupState, GroupRef, Joined, PastJoin
  <2>3. IdleAtAssert' /\ ErrorsReported' /\ LoopCounter'
    BY <1>3, <1>4, <1>11 DEF LoopCounter, PastJoin, IdleAtAssert, ErrorsReported
  <2> QED BY <1>2, <2>1, <2>2, <2>3 DEF ForallIInv
<1> QED BY <1>6, <1>7, <1>8, <1>9, <1>10, <1>11

-----------------------------------------------------------------------------
(***************************************************************************)
(* The loop of the main thread.                                             *)
(***************************************************************************)
InLoop == {"loop", "execute", "add", "dropToken"}

\* Inside the loop the properties of what follows it hold vacuously.
LEMMA LoopFrame ==
    ASSUME ForallIInv, SchedulerIInv', main \in InLoop, main' \in InLoop,
           TasksOfLoop', TokenStates', GroupState', LoopCounter',
           token' \in [AsyncTokens -> TokenRecord],
           group' \in [pendingTokens : Int, numErrors : Nat, refCount : Nat],
           iv' \in Nat, UNCHANGED <<task, running, finished, bodies, dropsRefs, sawError>>
    PROVE  ForallIInv'
<1>1. TypeOK'
  BY DEF ForallIInv, SchedulerIInv, TypeOK, TokenRecord, InLoop
<1>2. \A i, S : RunsIn(i, S)' <=> RunsIn(i, S)
  BY DEF RunsIn
<1>3. BodiesRun' /\ WorkerStages'
  BY <1>2 DEF ForallIInv, BodiesRun, WorkerStages, Emplaced
<1>4. Joined' /\ IdleAtAssert' /\ ErrorsReported'
  BY DEF InLoop, Joined, PastJoin, IdleAtAssert, ErrorsReported
<1> QED BY <1>1, <1>3, <1>4 DEF ForallIInv

\* A step of the main thread moves no task.
LEMMA StagesStay ==
    ASSUME UNCHANGED <<task, running, finished>>
    PROVE  \A i : /\ Emplaced(i)' <=> Emplaced(i)
                  /\ Dropped(i)' <=> Dropped(i)
                  /\ Left(i)' <=> Left(i)
                  /\ Locked(i)' <=> Locked(i)
                  /\ Awaiting(i)' <=> Awaiting(i)
<1>1. \A i, S : RunsIn(i, S)' <=> RunsIn(i, S)
  BY DEF RunsIn
<1> QED BY <1>1 DEF Emplaced, Dropped, Left, Locked, Awaiting

\* Calling the coroutine.
LEMMA CreateTokenKeeps ==
    ASSUME ForallIInv, SchedulerIInv', MainCreateToken
    PROVE  ForallIInv'
<1>1. /\ main = "loop" /\ main' = "execute" /\ iv < ub
      /\ task' = task /\ bodies' = bodies /\ dropsRefs' = dropsRefs
      /\ running' = running /\ finished' = finished /\ submitted' = submitted
      /\ iv' = iv /\ sawError' = sawError /\ group' = group
      /\ token' = [token EXCEPT ![iv] = [Unborn EXCEPT !.state = "unavailable", !.refCount = 2]]
  BY DEF MainCreateToken, MainAt, CreateToken, poolVars
<1>2. TypeOK /\ LoopCounter /\ TasksOfLoop /\ TokenStates /\ GroupState
  BY DEF ForallIInv
<1>3. iv \in Iterations /\ iv \in Nat
  BY <1>1, <1>2, IterationFacts DEF LoopCounter, TypeOK
<1>4. PICK n : n = iv
  OBVIOUS
<1>5. ~Created(n) /\ n \notin submitted
  BY <1>1, <1>2, <1>3, <1>4 DEF Created, TasksOfLoop, Enqueued
<1>6. n \notin finished /\ \A S : ~RunsIn(n, S)
  BY <1>3, <1>4, <1>5, NotStarted
<1>7. \A i : Added(i)' <=> Added(i)
  BY <1>1 DEF Added
<1>8. token[n] = Unborn /\ n \in AsyncTokens
  BY <1>2, <1>3, <1>4, <1>5, IterationFacts DEF TokenStates, TokenOK
<1>9. /\ token'[n].state = "unavailable" /\ token'[n].refCount = 2
      /\ token'[n].mu = NoThread /\ token'[n].awaiter = FALSE
      /\ \A i \in AsyncTokens : i # n => token'[i] = token[i]
      /\ token' \in [AsyncTokens -> TokenRecord]
  <2>1. token \in [AsyncTokens -> TokenRecord]
    BY <1>8, TokenFields
  <2>2. [Unborn EXCEPT !.state = "unavailable", !.refCount = 2] \in TokenRecord
    BY DEF TokenRecord, Unborn
  <2>3. /\ [Unborn EXCEPT !.state = "unavailable", !.refCount = 2].state = "unavailable"
        /\ [Unborn EXCEPT !.state = "unavailable", !.refCount = 2].refCount = 2
        /\ [Unborn EXCEPT !.state = "unavailable", !.refCount = 2].mu = NoThread
        /\ [Unborn EXCEPT !.state = "unavailable", !.refCount = 2].awaiter = FALSE
    BY DEF Unborn
  <2> QED BY <1>1, <1>4, <1>8, <2>1, <2>2, <2>3
<1>10. TokenStates'
  <2> SUFFICES ASSUME NEW i \in Iterations PROVE TokenOK(i)'
    BY DEF TokenStates
  <2>1. CASE i = n
    <3>1. ~Emplaced(n)' /\ ~Dropped(n)' /\ ~Locked(n)' /\ ~Awaiting(n)' /\ ~Added(n)'
      BY <1>1, <1>3, <1>4, <1>6, <1>7, StagesStay DEF Emplaced, Dropped, Locked, Awaiting, Added
    <3>2. CallerRef(n)' = 1 /\ TaskRef(n)' = 1
      BY <1>1, <1>3, <1>4, <3>1 DEF CallerRef, TaskRef
    <3>3. Created(n)'
      BY <1>1, <1>4 DEF Created
    <3> QED BY <1>9, <2>1, <3>1, <3>2, <3>3 DEF TokenOK, isAvailableOrError
  <2>2. CASE i # n
    <3>1. Created(i)' <=> Created(i)
      BY <1>1, <1>4, <2>2 DEF Created
    <3>2. token'[i] = token[i] /\ TokenOK(i)
      BY <1>2, <1>9, <2>2, IterationFacts DEF TokenStates
    <3> QED BY <1>1, <1>7, <3>1, <3>2, StagesStay, TokenFrame
  <2> QED BY <2>1, <2>2
<1>11. CountedTokens' = CountedTokens /\ AwaiterRefs' = AwaiterRefs
  <2>1. ASSUME NEW i \in Iterations
        PROVE  (IsCounted(i)' <=> IsCounted(i)) /\ (HoldsGroup(i)' <=> HoldsGroup(i))
    <3>1. CASE i = n
      BY <1>8, <1>9, <3>1 DEF IsCounted, HoldsGroup, isAvailableOrError, Unborn
    <3>2. CASE i # n
      BY <1>1, <1>7, <1>9, <3>2, IterationFacts, StagesStay
         DEF IsCounted, HoldsGroup, isAvailableOrError
    <3> QED BY <3>1, <3>2
  <2> QED BY <2>1 DEF CountedTokens, AwaiterRefs
<1>12. GroupState'
  <2>1. \A i \in CountedTokens : token'[i].state = token[i].state
    BY <1>8, <1>9, IterationFacts DEF CountedTokens, IsCounted, isAvailableOrError, Unborn
  <2> QED BY <1>1, <1>2, <1>11, <2>1 DEF GroupState, GroupRef
<1>13. TasksOfLoop' /\ LoopCounter'
  BY <1>1, <1>2 DEF TasksOfLoop, Enqueued, LoopCounter, PastJoin
<1> QED BY <1>1, <1>2, <1>9, <1>10, <1>12, <1>13, LoopFrame, GroupFields
        DEF InLoop, TypeOK

\* Handing the task to the pool.
LEMMA ExecuteKeeps ==
    ASSUME ForallIInv, SchedulerIInv', MainExecute
    PROVE  ForallIInv'
<1>1. /\ main = "execute" /\ main' = "add"
      /\ task' = task /\ bodies' = bodies /\ dropsRefs' = dropsRefs
      /\ running' = running /\ finished' = finished /\ submitted' = submitted \cup {iv}
      /\ iv' = iv /\ sawError' = sawError /\ group' = group /\ token' = token
  BY DEF MainExecute, MainAt, enqueueTask, Push, asyncVars
<1>2. TypeOK /\ LoopCounter /\ TasksOfLoop /\ TokenStates /\ GroupState /\ iv \in Nat
  BY DEF ForallIInv, TypeOK
<1>3. \A i : Created(i)' <=> Created(i)
  BY <1>1 DEF Created
<1>4. \A i : Added(i)' <=> Added(i)
  BY <1>1 DEF Added
<1>5. TokenStates'
  <2> SUFFICES ASSUME NEW i \in Iterations PROVE TokenOK(i)'
    BY DEF TokenStates
  <2>1. TokenOK(i)
    BY <1>2 DEF TokenStates
  <2> QED BY <1>1, <1>3, <1>4, <2>1, StagesStay, TokenFrame
<1>6. CountedTokens' = CountedTokens /\ AwaiterRefs' = AwaiterRefs
  BY <1>1, <1>4, StagesStay DEF CountedTokens, IsCounted, isAvailableOrError, AwaiterRefs,
     HoldsGroup
<1>7. GroupState'
  BY <1>1, <1>2, <1>6 DEF GroupState, GroupRef
<1>8. TasksOfLoop'
  <2>1. \A i \in Iterations : Enqueued(i)' <=> Enqueued(i) \/ i = iv
    BY <1>1 DEF Enqueued
  <2> QED BY <1>1, <1>2, <2>1 DEF TasksOfLoop
<1>9. LoopCounter'
  BY <1>1, <1>2 DEF LoopCounter, PastJoin
<1>10. token' \in [AsyncTokens -> TokenRecord]
  BY <1>1, <1>2 DEF TypeOK, TokenRecord
<1> QED BY <1>1, <1>2, <1>5, <1>7, <1>8, <1>9, <1>10, LoopFrame, GroupFields
        DEF InLoop

\* After its body the loop goes on to the next iteration: what was at iv lies
\* below it.
LEMMA CounterMoves ==
    ASSUME ForallIInv, iv' = iv + step, main' = "loop"
    PROVE  /\ iv' \in Nat /\ iv' >= lb /\ (iv' - lb) % step = 0
           /\ \A i \in Iterations : /\ i < iv' <=> i < iv \/ i = iv
                                    /\ Created(i)' <=> i < iv \/ i = iv
                                    /\ Enqueued(i)' <=> i < iv \/ i = iv
                                    /\ Added(i)' <=> i < iv \/ i = iv
<1>1. iv \in Nat /\ iv >= lb /\ (iv - lb) % step = 0
  BY DEF ForallIInv, TypeOK, LoopCounter
<1>2. /\ iv' \in Nat /\ iv' >= lb /\ (iv' - lb) % step = 0
      /\ \A i \in Iterations : i < iv' <=> i < iv \/ i = iv
  <2>1. /\ iv + step \in Nat /\ iv + step >= lb /\ (iv + step - lb) % step = 0
        /\ \A i \in Iterations : i < iv + step <=> i < iv \/ i = iv
    BY <1>1, NextIteration
  <2>2. iv' = iv + step /\ iv \in Nat
    BY <1>1
  <2> QED BY <2>1, <2>2, IterationFacts
<1> QED BY <1>2 DEF Created, Enqueued, Added

\* Adding the token to the group: it is counted, or its awaiter will.
LEMMA AddKeeps ==
    ASSUME ForallIInv, SchedulerIInv', MainAddToGroup
    PROVE  ForallIInv'
<1>1. /\ main = "add" /\ main' = (IF dropsRefs THEN "dropToken" ELSE "loop")
      /\ task' = task /\ bodies' = bodies /\ dropsRefs' = dropsRefs
      /\ running' = running /\ finished' = finished /\ submitted' = submitted
      /\ iv' = (IF dropsRefs THEN iv ELSE iv + step) /\ sawError' = sawError
      /\ AddTokenToGroup(iv)
  BY DEF MainAddToGroup, MainAt, poolVars
<1>2. TypeOK /\ LoopCounter /\ TasksOfLoop /\ TokenStates /\ GroupState
  BY DEF ForallIInv
<1>3. iv \in Iterations /\ iv \in Nat
  BY <1>1, <1>2, IterationFacts DEF LoopCounter, TypeOK
<1>4. PICK n : n = iv
  OBVIOUS
<1>5. n \in Iterations /\ n \in AsyncTokens /\ n \in Nat
  BY <1>3, <1>4, IterationFacts
<1>6. Created(n) /\ ~Added(n)
  BY <1>1, <1>3, <1>4 DEF Created, Added
<1>7. TokenOK(n) /\ ~token[n].awaiter
  BY <1>2, <1>5, <1>6 DEF TokenStates, TokenOK
<1>8. dropsRefs \in BOOLEAN
  BY <1>2 DEF TypeOK
<1>9. /\ iv' \in Nat
      /\ \A i \in Iterations : /\ Created(i)' <=> Created(i)
                               /\ Enqueued(i)' <=> Enqueued(i)
                               /\ Added(i)' <=> Added(i) \/ i = n
                               /\ dropsRefs => (i < iv' <=> i < iv)
  <2>1. CASE dropsRefs
    <3>1. iv' = iv /\ main' = "dropToken"
      BY <1>1, <2>1
    <3> QED BY <1>1, <1>3, <1>4, <3>1 DEF Created, Enqueued, Added
  <2>2. CASE ~dropsRefs
    <3>1. iv' = iv + step /\ main' = "loop"
      BY <1>1, <2>2
    <3> QED BY <1>1, <1>4, <2>2, <3>1, CounterMoves DEF Created, Enqueued, Added
  <2> QED BY <1>8, <2>1, <2>2
<1>10. LoopCounter'
  <2>1. CASE dropsRefs
    BY <1>1, <1>2, <2>1 DEF LoopCounter, PastJoin
  <2>2. CASE ~dropsRefs
    <3>1. iv' = iv + step /\ main' = "loop"
      BY <1>1, <2>2
    <3> QED BY <1>1, <3>1, CounterMoves DEF LoopCounter, PastJoin
  <2> QED BY <1>8, <2>1, <2>2
<1>11. TasksOfLoop'
  BY <1>1, <1>2, <1>9 DEF TasksOfLoop
<1>12. main \in InLoop /\ main' \in InLoop /\ GroupRef = 1 /\ GroupRef' = 1
  BY <1>1, <1>8 DEF InLoop, GroupRef
<1>13. CASE isAvailableOrError(n)
  <2>1. /\ token' = token /\ token[n].mu = NoThread
        /\ group' = [group EXCEPT !.numErrors = @ + (IF token[n].state = "error" THEN 1 ELSE 0),
                                  !.pendingTokens = @ - 1]
    BY <1>1, <1>4, <1>13 DEF AddTokenToGroup, onTokenReady
  <2>2. /\ group' \in [pendingTokens : Int, numErrors : Nat, refCount : Nat]
        /\ group'.pendingTokens = group.pendingTokens - 1
        /\ group'.numErrors = group.numErrors + (IF token[n].state = "error" THEN 1 ELSE 0)
        /\ group'.refCount = group.refCount
    <3>1. PICK e \in Nat : e = (IF token[n].state = "error" THEN 1 ELSE 0)
      OBVIOUS
    <3>2. group' = [group EXCEPT !.numErrors = @ + e, !.pendingTokens = @ - 1]
      BY <2>1, <3>1
    <3>3. /\ group' \in [pendingTokens : Int, numErrors : Nat, refCount : Nat]
          /\ group'.pendingTokens = group.pendingTokens - 1
          /\ group'.numErrors = group.numErrors + e
          /\ group'.refCount = group.refCount
      <4>1. /\ group \in [pendingTokens : Int, numErrors : Nat, refCount : Nat]
            /\ group.pendingTokens - 1 \in Int /\ group.numErrors + e \in Nat
        BY GroupFields
      <4> QED BY <3>2, <4>1
    <3> QED BY <3>1, <3>3
  <2>3. ~Awaiting(n)
    BY <1>6, <1>7, <2>1 DEF TokenOK, Locked, Awaiting, RunsIn
  <2>4. TokenStates'
    <3> SUFFICES ASSUME NEW i \in Iterations PROVE TokenOK(i)'
      BY DEF TokenStates
    <3>1. CASE i = n
      <4>1. /\ Created(n)' /\ Added(n)' /\ CallerRef(n)' = CallerRef(n)
            /\ TaskRef(n)' = TaskRef(n)
            /\ Emplaced(n)' <=> Emplaced(n)
            /\ Locked(n)' <=> Locked(n)
            /\ Awaiting(n)' <=> Awaiting(n)
        BY <1>1, <1>5, <1>6, <1>9, StagesStay DEF CallerRef, TaskRef
      <4>2. Emplaced(n)
        BY <1>6, <1>7, <1>13 DEF TokenOK
      <4> QED BY <1>6, <1>7, <2>1, <2>3, <3>1, <4>1, <4>2 DEF TokenOK, isAvailableOrError
    <3>2. CASE i # n
      <4>1. TokenOK(i)
        BY <1>2 DEF TokenStates
      <4> QED BY <1>1, <1>9, <2>1, <3>2, <4>1, StagesStay, TokenFrame
    <3> QED BY <3>1, <3>2
  <2>5. /\ \A i \in Iterations : IsCounted(i)' <=> IsCounted(i) \/ i = n
        /\ ~IsCounted(n)
    BY <1>1, <1>6, <1>9, <1>13, <2>1, <2>3, StagesStay DEF IsCounted, isAvailableOrError
  <2>6. /\ CountedTokens' = CountedTokens \cup {n}
        /\ n \notin CountedTokens
        /\ AwaiterRefs' = AwaiterRefs
    BY <1>1, <1>5, <2>1, <2>5, StagesStay DEF CountedTokens, AwaiterRefs, HoldsGroup
  <2>7. Cardinality(CountedTokens') = Cardinality(CountedTokens) + 1
    BY <2>6, FiniteTokens, FS_AddElement
  <2>8. group'.numErrors > 0 <=> \E i \in CountedTokens' : token'[i].state = "error"
    BY <1>2, <2>1, <2>2, <2>6, GroupFields DEF GroupState
  <2>9. GroupState'
    BY <1>1, <1>2, <1>12, <2>2, <2>6, <2>7, <2>8, FiniteTokens, GroupSizeInt DEF GroupState
  <2>10. token' \in [AsyncTokens -> TokenRecord]
    BY <1>5, <2>1, TokenFields
  <2> QED BY <1>1, <1>9, <1>10, <1>11, <1>12, <2>2, <2>4, <2>9, <2>10, LoopFrame
<1>14. CASE ~isAvailableOrError(n)
  <2>1. /\ group' = [group EXCEPT !.refCount = @ + 1]
        /\ token' = [token EXCEPT ![n].awaiter = TRUE]
    BY <1>1, <1>4, <1>14 DEF AddTokenToGroup
  <2>2. /\ group' \in [pendingTokens : Int, numErrors : Nat, refCount : Nat]
        /\ group'.pendingTokens = group.pendingTokens
        /\ group'.numErrors = group.numErrors
        /\ group'.refCount = group.refCount + 1
    BY <2>1, GroupFields
  <2>3. /\ token'[n].state = token[n].state /\ token'[n].refCount = token[n].refCount
        /\ token'[n].mu = token[n].mu /\ token'[n].awaiter
        /\ \A i \in AsyncTokens : i # n => token'[i] = token[i]
        /\ token' \in [AsyncTokens -> TokenRecord]
    <3>1. token \in [AsyncTokens -> TokenRecord] /\ token[n] \in TokenRecord
      BY <1>5, TokenFields
    <3> QED BY <1>5, <2>1, <3>1 DEF TokenRecord
  <2>4. ~Emplaced(n)
    BY <1>6, <1>7, <1>14 DEF TokenOK
  <2>5. TokenStates'
    <3> SUFFICES ASSUME NEW i \in Iterations PROVE TokenOK(i)'
      BY DEF TokenStates
    <3>1. CASE i = n
      <4>1. /\ Created(n)' /\ Added(n)' /\ CallerRef(n)' = CallerRef(n)
            /\ TaskRef(n)' = TaskRef(n)
            /\ Emplaced(n)' <=> Emplaced(n)
            /\ Locked(n)' <=> Locked(n)
            /\ Awaiting(n)' <=> Awaiting(n)
        BY <1>1, <1>5, <1>6, <1>9, StagesStay DEF CallerRef, TaskRef
      <4> QED BY <1>6, <1>7, <2>3, <3>1, <4>1 DEF TokenOK, isAvailableOrError
    <3>2. CASE i # n
      <4>1. TokenOK(i) /\ token'[i] = token[i]
        BY <1>2, <2>3, <3>2, IterationFacts DEF TokenStates
      <4> QED BY <1>1, <1>9, <3>2, <4>1, StagesStay, TokenFrame
    <3> QED BY <3>1, <3>2
  <2>6. CountedTokens' = CountedTokens
    <3>1. ASSUME NEW i \in Iterations PROVE IsCounted(i)' <=> IsCounted(i)
      <4>1. CASE i = n
        BY <1>14, <2>3, <4>1 DEF IsCounted, isAvailableOrError
      <4>2. CASE i # n
        BY <1>1, <1>9, <2>3, <4>2, IterationFacts, StagesStay DEF IsCounted, isAvailableOrError
      <4> QED BY <4>1, <4>2
    <3> QED BY <3>1 DEF CountedTokens
  <2>7. AwaiterRefs' = AwaiterRefs \cup {n} /\ n \notin AwaiterRefs
    <3>1. ~Left(n)
      BY <2>4 DEF Left, Emplaced, RunsIn
    <3>2. \A i \in Iterations : HoldsGroup(i)' <=> HoldsGroup(i) \/ i = n
      BY <1>1, <2>3, <3>1, IterationFacts, StagesStay DEF HoldsGroup
    <3>3. ~HoldsGroup(n)
      BY <1>7 DEF HoldsGroup
    <3> QED BY <1>5, <3>2, <3>3 DEF AwaiterRefs
  <2>8. Cardinality(AwaiterRefs') = Cardinality(AwaiterRefs) + 1
    BY <2>7, FiniteTokens, FS_AddElement
  <2>9. \A i \in Iterations : token'[i].state = token[i].state
    BY <2>3, IterationFacts
  <2>10. GroupState'
    BY <1>1, <1>2, <1>12, <2>2, <2>6, <2>8, <2>9, FiniteTokens, GroupFields DEF GroupState
  <2> QED BY <1>1, <1>9, <1>10, <1>11, <1>12, <2>2, <2>3, <2>5, <2>10, LoopFrame
<1> QED BY <1>13, <1>14

\* Dropping the caller's reference.
LEMMA DropTokenKeeps ==
    ASSUME ForallIInv, SchedulerIInv', MainDropToken
    PROVE  ForallIInv'
<1>1. /\ main = "dropToken" /\ main' = "loop"
      /\ task' = task /\ bodies' = bodies /\ dropsRefs' = dropsRefs
      /\ running' = running /\ finished' = finished /\ submitted' = submitted
      /\ iv' = iv + step /\ sawError' = sawError /\ group' = group
      /\ token' = [token EXCEPT ![iv].refCount = @ - 1]
  BY DEF MainDropToken, MainAt, poolVars, dropTokenRef
<1>2. TypeOK /\ LoopCounter /\ TasksOfLoop /\ TokenStates /\ GroupState
  BY DEF ForallIInv
<1>3. iv \in Iterations /\ iv \in Nat /\ dropsRefs
  BY <1>1, <1>2, IterationFacts DEF LoopCounter, TypeOK
<1>4. PICK n : n = iv
  OBVIOUS
<1>5. n \in Iterations /\ n \in AsyncTokens /\ n \in Nat
  BY <1>3, <1>4, IterationFacts
<1>6. Created(n) /\ Added(n) /\ CallerRef(n) = 1 /\ CallerRef(n)' = 0
  <2>1. n < iv'
    BY <1>1, <1>4, <1>5, CounterMoves
  <2> QED BY <1>1, <1>3, <1>4, <2>1 DEF Created, Added, CallerRef
<1>7. TokenOK(n)
  BY <1>2, <1>5 DEF TokenStates
<1>8. /\ iv' \in Nat
      /\ \A i \in Iterations : /\ Created(i)' <=> Created(i)
                               /\ Enqueued(i)' <=> Enqueued(i)
                               /\ Added(i)' <=> Added(i)
                               /\ i < iv' <=> i < iv \/ i = n
  BY <1>1, <1>3, <1>4, CounterMoves DEF Created, Enqueued, Added
<1>9. /\ token'[n].state = token[n].state /\ token'[n].refCount = TaskRef(n)
      /\ token'[n].mu = token[n].mu /\ token'[n].awaiter = token[n].awaiter
      /\ \A i \in AsyncTokens : i # n => token'[i] = token[i]
      /\ token' \in [AsyncTokens -> TokenRecord]
  <2>1. token \in [AsyncTokens -> TokenRecord] /\ token[n] \in TokenRecord
    BY <1>5, TokenFields
  <2>2. token[n].refCount = 1 + TaskRef(n) /\ TaskRef(n) \in Nat
    BY <1>6, <1>7 DEF TokenOK, TaskRef
  <2>3. token' = [token EXCEPT ![n].refCount = @ - 1]
    BY <1>1, <1>4
  <2>4. PICK r \in Nat : r = TaskRef(n)
    BY <2>2
  <2>5. token[n].refCount - 1 = r
    BY <2>2, <2>4
  <2>6. token'[n] = [token[n] EXCEPT !.refCount = r]
    BY <1>5, <2>1, <2>3, <2>5
  <2>7. /\ token'[n] \in TokenRecord
        /\ token'[n].state = token[n].state /\ token'[n].refCount = r
        /\ token'[n].mu = token[n].mu /\ token'[n].awaiter = token[n].awaiter
    BY <2>1, <2>6 DEF TokenRecord
  <2> QED BY <1>5, <2>1, <2>3, <2>4, <2>7
<1>10. TokenStates'
  <2> SUFFICES ASSUME NEW i \in Iterations PROVE TokenOK(i)'
    BY DEF TokenStates
  <2>1. CASE i = n
    <3>1. /\ Created(n)' /\ Added(n)' /\ TaskRef(n)' = TaskRef(n)
          /\ Emplaced(n)' <=> Emplaced(n)
          /\ Locked(n)' <=> Locked(n)
          /\ Awaiting(n)' <=> Awaiting(n)
      BY <1>1, <1>5, <1>6, <1>8, StagesStay DEF TaskRef
    <3>2. TaskRef(n) \in Nat
      BY DEF TaskRef
    <3> QED BY <1>6, <1>7, <1>9, <2>1, <3>1, <3>2 DEF TokenOK, isAvailableOrError
  <2>2. CASE i # n
    <3>1. TokenOK(i) /\ token'[i] = token[i]
      BY <1>2, <1>9, <2>2, IterationFacts DEF TokenStates
    <3> QED BY <1>1, <1>8, <2>2, <3>1, StagesStay, TokenFrame
  <2> QED BY <2>1, <2>2
<1>11. \A i \in Iterations : /\ token'[i].state = token[i].state
                             /\ token'[i].awaiter = token[i].awaiter
  BY <1>9, IterationFacts
<1>12. CountedTokens' = CountedTokens /\ AwaiterRefs' = AwaiterRefs
  BY <1>1, <1>8, <1>11, StagesStay
     DEF CountedTokens, IsCounted, isAvailableOrError, AwaiterRefs, HoldsGroup
<1>13. GroupState'
  BY <1>1, <1>2, <1>11, <1>12, FiniteTokens DEF GroupState, GroupRef
<1>14. TasksOfLoop'
  BY <1>1, <1>2, <1>8 DEF TasksOfLoop
<1>15. LoopCounter'
  BY <1>1, CounterMoves DEF LoopCounter, PastJoin
<1> QED BY <1>1, <1>8, <1>9, <1>10, <1>13, <1>14, <1>15, LoopFrame, GroupFields
        DEF InLoop

-----------------------------------------------------------------------------
(***************************************************************************)
(* The tasks.                                                               *)
(***************************************************************************)
\* What a step of a worker leaves alone, and what it may add.
LEMMA WorkerFrame ==
    ASSUME ForallIInv, SchedulerIInv', TokenStates', GroupState', WorkerStages', BodiesRun',
           token' \in [AsyncTokens -> TokenRecord],
           group' \in [pendingTokens : Int, numErrors : Nat, refCount : Nat],
           NEW w \in Workers,
           NEW to \in {"none", "body", "emplace", "awaiter", "leave", "dropToken", "end"},
           task' = [task EXCEPT ![w] = to], bodies' \subseteq Iterations,
           UNCHANGED <<iv, dropsRefs, sawError, submitted>>, finished \subseteq finished',
           main' = main \/ (main = "asleep" /\ main' = "loop"),
           CountedTokens \subseteq CountedTokens',
           PastJoin => \A t \in AsyncTokens : token'[t].state = token[t].state
    PROVE  ForallIInv'
<1>1. TypeOK'
  <2>1. task' \in [Workers -> {"none", "body", "emplace", "awaiter", "leave", "dropToken", "end"}]
    BY DEF ForallIInv, TypeOK
  <2> QED BY <2>1 DEF ForallIInv, SchedulerIInv, TypeOK, TokenRecord
<1>2. LoopCounter' /\ TasksOfLoop'
  BY DEF ForallIInv, LoopCounter, PastJoin, TasksOfLoop, Enqueued
<1>3. Joined'
  <2>1. CountedTokens' \subseteq Iterations
    BY DEF CountedTokens
  <2> QED BY <2>1 DEF ForallIInv, Joined, PastJoin
<1>4. IdleAtAssert'
  BY DEF ForallIInv, IdleAtAssert
<1>5. ErrorsReported'
  BY DEF ForallIInv, ErrorsReported, PastJoin
<1> QED BY <1>1, <1>2, <1>3, <1>4, <1>5 DEF ForallIInv

\* The loop of the main thread is where it was.
LEMMA LoopStays ==
    ASSUME UNCHANGED <<iv, dropsRefs>>,
           main' = main \/ (main = "asleep" /\ main' = "loop")
    PROVE  /\ \A i : /\ Created(i)' <=> Created(i)
                     /\ Enqueued(i)' <=> Enqueued(i)
                     /\ Added(i)' <=> Added(i)
                     /\ CallerRef(i)' = CallerRef(i)
           /\ GroupRef' = GroupRef
  BY DEF Created, Enqueued, Added, CallerRef, GroupRef

\* A task no worker moved.
LEMMA OtherTask ==
    ASSUME NEW j, \A S : RunsIn(j, S)' <=> RunsIn(j, S), j \in finished' <=> j \in finished
    PROVE  /\ Emplaced(j)' <=> Emplaced(j)
           /\ Dropped(j)' <=> Dropped(j)
           /\ Left(j)' <=> Left(j)
           /\ Locked(j)' <=> Locked(j)
           /\ Awaiting(j)' <=> Awaiting(j)
  BY DEF Emplaced, Dropped, Left, Locked, Awaiting

\* A step that moves one task between stages that the token does not tell
\* apart leaves the tokens and the group as they are.
LEMMA HiddenStep ==
    ASSUME ForallIInv, UNCHANGED <<token, group, iv, main, dropsRefs>>,
           \A j \in Iterations : /\ Emplaced(j)' <=> Emplaced(j)
                                 /\ Dropped(j)' <=> Dropped(j)
                                 /\ Left(j)' <=> Left(j)
                                 /\ Locked(j)' <=> Locked(j)
                                 /\ Awaiting(j)' <=> Awaiting(j)
    PROVE  /\ TokenStates' /\ GroupState'
           /\ CountedTokens' = CountedTokens
<1>1. /\ \A i : /\ Created(i)' <=> Created(i)
                /\ Added(i)' <=> Added(i)
      /\ GroupRef' = GroupRef
  BY LoopStays
<1>2. TokenStates'
  <2> SUFFICES ASSUME NEW j \in Iterations PROVE TokenOK(j)'
    BY DEF TokenStates
  <2>1. TokenOK(j)
    BY DEF ForallIInv, TokenStates
  <2> QED BY <1>1, <2>1, TokenFrame
<1>3. CountedTokens' = CountedTokens /\ AwaiterRefs' = AwaiterRefs
  BY <1>1 DEF CountedTokens, IsCounted, isAvailableOrError, AwaiterRefs, HoldsGroup
<1>4. GroupState'
  BY <1>1, <1>3 DEF ForallIInv, GroupState
<1> QED BY <1>2, <1>3, <1>4

\* A worker takes the next task.
LEMMA TakeKeeps ==
    ASSUME ForallIInv, SchedulerIInv', NEW w \in Workers, WorkerTake(w)
    PROVE  ForallIInv'
<1>1. /\ tasks # <<>> /\ worker[w] = "test"
      /\ running' = [running EXCEPT ![w] = Head(tasks)]
      /\ task' = [task EXCEPT ![w] = "body"]
      /\ finished' = finished /\ submitted' = submitted
      /\ iv' = iv /\ sawError' = sawError /\ dropsRefs' = dropsRefs
      /\ token' = token /\ group' = group /\ main' = main /\ bodies' = bodies
  BY DEF WorkerTake, Take, TaskAt, asyncVars
<1>2. SchedulerIInv /\ PoolTypeOK /\ TypeOK /\ WorkerStages /\ BodiesRun
  BY DEF ForallIInv, SchedulerIInv
<1>3. PICK i : i = Head(tasks)
  OBVIOUS
<1>4. /\ i = tasks[1] /\ 1 \in 1 .. Len(tasks) /\ i \in Tasks /\ Queued(i)
  BY <1>1, <1>2, <1>3 DEF PoolTypeOK, Queued
<1>5. /\ i \in Iterations /\ i # None /\ i \notin finished
      /\ \A v \in Workers : running[v] # i
  BY <1>2, <1>4, ForallAssumption, PoolThreads DEF SchedulerIInv, Unfinished, Apart
<1>6. running[w] = None
  BY <1>1, <1>2 DEF SchedulerIInv, RunningWhenRun
<1>7. /\ \A v \in Workers : running'[v] = IF v = w THEN i ELSE running[v]
      /\ \A v \in Workers : task'[v] = IF v = w THEN "body" ELSE task[v]
  BY <1>1, <1>2, <1>3 DEF PoolTypeOK, TypeOK
<1>8. \A S : ("body" \notin S) => \A j \in Iterations : RunsIn(j, S)' <=> RunsIn(j, S)
  BY <1>5, <1>6, <1>7, IterationFacts DEF RunsIn
<1>9. \A j \in Iterations : /\ Emplaced(j)' <=> Emplaced(j)
                            /\ Dropped(j)' <=> Dropped(j)
                            /\ Left(j)' <=> Left(j)
                            /\ Locked(j)' <=> Locked(j)
                            /\ Awaiting(j)' <=> Awaiting(j)
                            /\ RunsIn(j, {"emplace"})' <=> RunsIn(j, {"emplace"})
  BY <1>1, <1>8 DEF Emplaced, Dropped, Left, Locked, Awaiting
<1>10. TokenStates' /\ GroupState' /\ CountedTokens' = CountedTokens
  BY <1>1, <1>9, HiddenStep
<1>11. WorkerStages' /\ BodiesRun'
  BY <1>1, <1>2, <1>5, <1>7, <1>9 DEF WorkerStages, BodiesRun
<1>12. token' \in [AsyncTokens -> TokenRecord] /\ bodies' \subseteq Iterations
  BY <1>1, <1>2 DEF TypeOK, TokenRecord
<1> QED BY <1>1, <1>10, <1>11, <1>12, WorkerFrame, GroupFields

\* It runs the body.
LEMMA BodyKeeps ==
    ASSUME ForallIInv, SchedulerIInv', NEW w \in Workers, TaskBody(w)
    PROVE  ForallIInv'
<1>1. PICK i : i = running[w]
  OBVIOUS
<1>2. /\ task[w] = "body" /\ task' = [task EXCEPT ![w] = "emplace"]
      /\ running' = running /\ finished' = finished /\ submitted' = submitted
      /\ iv' = iv /\ sawError' = sawError /\ dropsRefs' = dropsRefs
      /\ token' = token /\ group' = group /\ main' = main /\ bodies' = bodies \cup {i}
  BY <1>1 DEF TaskBody, TaskAt, poolVars, asyncVars
<1>3. TypeOK /\ WorkerStages /\ BodiesRun
  BY DEF ForallIInv
<1>4. i \in Iterations /\ i # None /\ \A S : RunsIn(i, S) <=> "body" \in S
  BY <1>1, <1>2, StageOf
<1>5. /\ \A S : RunsIn(i, S)' <=> "emplace" \in S
      /\ \A j \in Iterations : j # i => \A S : RunsIn(j, S)' <=> RunsIn(j, S)
  BY <1>1, <1>2, StageMoves
<1>6. ASSUME NEW j \in Iterations
      PROVE  /\ Emplaced(j)' <=> Emplaced(j)
             /\ Dropped(j)' <=> Dropped(j)
             /\ Left(j)' <=> Left(j)
             /\ Locked(j)' <=> Locked(j)
             /\ Awaiting(j)' <=> Awaiting(j)
  <2>1. CASE j = i
    BY <1>2, <1>4, <1>5, <2>1 DEF Emplaced, Dropped, Left, Locked, Awaiting
  <2>2. CASE j # i
    BY <1>2, <1>5, <2>2, OtherTask
  <2> QED BY <2>1, <2>2
<1>7. TokenStates' /\ GroupState' /\ CountedTokens' = CountedTokens
  BY <1>2, <1>6, HiddenStep
<1>8. BodiesRun'
  BY <1>2, <1>3, <1>5, <1>6 DEF BodiesRun
<1>9. WorkerStages'
  BY <1>1, <1>2, <1>3, <1>4 DEF WorkerStages, TypeOK
<1>10. token' \in [AsyncTokens -> TokenRecord] /\ bodies' \subseteq Iterations
  BY <1>2, <1>3, <1>4 DEF TypeOK, TokenRecord
<1> QED BY <1>2, <1>7, <1>8, <1>9, <1>10, WorkerFrame, GroupFields

\* The task is over: its token becomes ready, and nobody has counted it yet.
LEMMA EmplaceKeeps ==
    ASSUME ForallIInv, SchedulerIInv', NEW w \in Workers, TaskEmplace(w)
    PROVE  ForallIInv'
<1>1. PICK i : i = running[w]
  OBVIOUS
<1>2. PICK to : to = (IF token[i].awaiter THEN "awaiter" ELSE "leave")
  OBVIOUS
<1>3. PICK state \in {"available", "error"} :
         /\ token[i].mu = NoThread /\ group' = group
         /\ token' = [token EXCEPT ![i].mu = w, ![i].state = state]
  BY <1>1 DEF TaskEmplace, SetState
<1>4. /\ task[w] = "emplace" /\ task' = [task EXCEPT ![w] = to]
      /\ running' = running /\ finished' = finished /\ submitted' = submitted
      /\ iv' = iv /\ sawError' = sawError /\ dropsRefs' = dropsRefs
      /\ main' = main /\ bodies' = bodies
  BY <1>1, <1>2 DEF TaskEmplace, TaskAt, poolVars
<1>5. TypeOK /\ WorkerStages /\ BodiesRun /\ TokenStates /\ GroupState /\ Joined
  BY DEF ForallIInv
<1>6. /\ i \in Iterations /\ i # None /\ i \notin finished /\ Created(i)
      /\ \A S : RunsIn(i, S) <=> "emplace" \in S
  BY <1>1, <1>4, StageOf
<1>7. i \in AsyncTokens /\ TokenOK(i)
  BY <1>5, <1>6, IterationFacts DEF TokenStates
<1>8. /\ \A S : RunsIn(i, S)' <=> to \in S
      /\ \A j \in Iterations : j # i => \A S : RunsIn(j, S)' <=> RunsIn(j, S)
  BY <1>1, <1>4, StageMoves
<1>9. /\ ~Emplaced(i) /\ ~Dropped(i) /\ ~Left(i) /\ i \in bodies
      /\ Emplaced(i)' /\ ~Dropped(i)' /\ ~Left(i)' /\ Locked(i)'
      /\ Awaiting(i)' <=> token[i].awaiter
  BY <1>2, <1>4, <1>5, <1>6, <1>8
     DEF Emplaced, Dropped, Left, Locked, Awaiting, BodiesRun
<1>10. /\ token'[i].state = state /\ token'[i].mu = w
       /\ token'[i].refCount = token[i].refCount /\ token'[i].awaiter = token[i].awaiter
       /\ \A j \in AsyncTokens : j # i => token'[j] = token[j]
       /\ token' \in [AsyncTokens -> TokenRecord]
  <2>1. token \in [AsyncTokens -> TokenRecord] /\ token[i] \in TokenRecord
    BY <1>7, TokenFields
  <2>2. token' = [token EXCEPT ![i] = [token[i] EXCEPT !.mu = w, !.state = state]]
    BY <1>3, <1>7, <2>1
  <2>3. /\ [token[i] EXCEPT !.mu = w, !.state = state] \in TokenRecord
        /\ [token[i] EXCEPT !.mu = w, !.state = state].state = state
        /\ [token[i] EXCEPT !.mu = w, !.state = state].mu = w
        /\ [token[i] EXCEPT !.mu = w, !.state = state].refCount = token[i].refCount
        /\ [token[i] EXCEPT !.mu = w, !.state = state].awaiter = token[i].awaiter
    BY <2>1 DEF TokenRecord
  <2> QED BY <1>7, <2>1, <2>2, <2>3
<1>11. \A j : /\ Created(j)' <=> Created(j)
              /\ Added(j)' <=> Added(j)
              /\ CallerRef(j)' = CallerRef(j)
  BY <1>4, LoopStays
<1>12. ~isAvailableOrError(i) /\ (Added(i) => token[i].awaiter)
  BY <1>6, <1>7, <1>9 DEF TokenOK
<1>13. TokenStates'
  <2> SUFFICES ASSUME NEW j \in Iterations PROVE TokenOK(j)'
    BY DEF TokenStates
  <2>1. CASE j = i
    <3>1. TaskRef(i)' = TaskRef(i)
      BY <1>9 DEF TaskRef
    <3>2. w # NoThread
      BY ForallAssumption DEF Threads
    <3> QED BY <1>6, <1>7, <1>9, <1>10, <1>11, <2>1, <3>1, <3>2
            DEF TokenOK, isAvailableOrError
  <2>2. CASE j # i
    <3>1. TokenOK(j) /\ token'[j] = token[j]
      BY <1>5, <1>10, <2>2, IterationFacts DEF TokenStates
    <3> QED BY <1>4, <1>8, <1>11, <2>2, <3>1, OtherTask, TokenFrame
  <2> QED BY <2>1, <2>2
<1>14. CountedTokens' = CountedTokens /\ AwaiterRefs' = AwaiterRefs
  <2>1. ASSUME NEW j \in Iterations
        PROVE  (IsCounted(j)' <=> IsCounted(j)) /\ (HoldsGroup(j)' <=> HoldsGroup(j))
    <3>1. CASE j = i
      BY <1>9, <1>10, <1>11, <1>12, <3>1 DEF IsCounted, HoldsGroup
    <3>2. CASE j # i
      BY <1>4, <1>8, <1>10, <1>11, <3>2, IterationFacts, OtherTask
         DEF IsCounted, HoldsGroup, isAvailableOrError
    <3> QED BY <3>1, <3>2
  <2> QED BY <2>1 DEF CountedTokens, AwaiterRefs
<1>15. i \notin CountedTokens
  BY <1>12 DEF CountedTokens, IsCounted
<1>16. GroupState'
  <2>1. \A j \in CountedTokens : token'[j] = token[j]
    BY <1>10, <1>15, FiniteTokens, IterationFacts
  <2>2. GroupRef' = GroupRef
    BY <1>4, LoopStays
  <2> QED BY <1>3, <1>4, <1>5, <1>14, <2>1, <2>2 DEF GroupState
<1>17. ~PastJoin
  BY <1>5, <1>6, <1>15 DEF Joined
<1>18. BodiesRun'
  <2> SUFFICES ASSUME NEW j \in Iterations, RunsIn(j, {"emplace"})' \/ Emplaced(j)'
               PROVE  j \in bodies
    BY <1>4 DEF BodiesRun
  <2>1. CASE j = i
    BY <1>9, <2>1
  <2>2. CASE j # i
    BY <1>4, <1>5, <1>8, <2>2, OtherTask DEF BodiesRun
  <2> QED BY <2>1, <2>2
<1>19. WorkerStages'
  BY <1>1, <1>2, <1>4, <1>5, <1>6 DEF WorkerStages, TypeOK
<1>20. to \in {"none", "body", "emplace", "awaiter", "leave", "dropToken", "end"}
       /\ bodies' \subseteq Iterations
  BY <1>2, <1>4, <1>5 DEF TypeOK
<1> QED BY <1>3, <1>4, <1>10, <1>13, <1>14, <1>16, <1>17, <1>18, <1>19, <1>20,
           WorkerFrame, GroupFields

\* The awaiter: the group counts the token, and wakes the main thread after
\* the last one.
LEMMA AwaiterKeeps ==
    ASSUME ForallIInv, SchedulerIInv', NEW w \in Workers, TaskAwaiter(w)
    PROVE  ForallIInv'
<1>1. PICK i : i = running[w]
  OBVIOUS
<1>2. /\ token' = token
      /\ group' = [group EXCEPT !.numErrors = @ + (IF token[i].state = "error" THEN 1 ELSE 0),
                                !.pendingTokens = @ - 1]
  BY <1>1 DEF TaskAwaiter, RunAwaiter, onTokenReady
<1>3. /\ task[w] = "awaiter" /\ task' = [task EXCEPT ![w] = "leave"]
      /\ running' = running /\ finished' = finished /\ submitted' = submitted
      /\ iv' = iv /\ sawError' = sawError /\ dropsRefs' = dropsRefs
      /\ main' = main \/ (main = "asleep" /\ main' = "loop")
      /\ bodies' = bodies
  BY <1>1 DEF TaskAwaiter, TaskAt, WakeMain, poolVars
<1>4. TypeOK /\ WorkerStages /\ BodiesRun /\ TokenStates /\ GroupState /\ Joined
  BY DEF ForallIInv
<1>5. /\ i \in Iterations /\ i # None /\ i \notin finished /\ Created(i)
      /\ \A S : RunsIn(i, S) <=> "awaiter" \in S
  BY <1>1, <1>3, StageOf
<1>6. i \in AsyncTokens /\ TokenOK(i)
  BY <1>4, <1>5, IterationFacts DEF TokenStates
<1>7. /\ \A S : RunsIn(i, S)' <=> "leave" \in S
      /\ \A j \in Iterations : j # i => \A S : RunsIn(j, S)' <=> RunsIn(j, S)
  BY <1>1, <1>3, StageMoves
<1>8. /\ Emplaced(i) /\ ~Dropped(i) /\ ~Left(i) /\ Locked(i) /\ Awaiting(i)
      /\ Emplaced(i)' /\ ~Dropped(i)' /\ ~Left(i)' /\ Locked(i)' /\ ~Awaiting(i)'
  BY <1>3, <1>5, <1>7 DEF Emplaced, Dropped, Left, Locked, Awaiting
<1>9. isAvailableOrError(i) /\ Added(i)
  BY <1>5, <1>6, <1>8 DEF TokenOK
<1>10. /\ \A j : /\ Created(j)' <=> Created(j)
                 /\ Added(j)' <=> Added(j)
                 /\ CallerRef(j)' = CallerRef(j)
       /\ GroupRef' = GroupRef
  BY <1>3, LoopStays
<1>11. TokenStates'
  <2> SUFFICES ASSUME NEW j \in Iterations PROVE TokenOK(j)'
    BY DEF TokenStates
  <2>1. CASE j = i
    <3>1. TaskRef(i)' = TaskRef(i)
      BY <1>8 DEF TaskRef
    <3> QED BY <1>2, <1>5, <1>6, <1>8, <1>10, <2>1, <3>1 DEF TokenOK, isAvailableOrError
  <2>2. CASE j # i
    <3>1. TokenOK(j)
      BY <1>4 DEF TokenStates
    <3> QED BY <1>2, <1>3, <1>7, <1>10, <2>2, <3>1, OtherTask, TokenFrame
  <2> QED BY <2>1, <2>2
<1>12. ASSUME NEW j \in Iterations
       PROVE  /\ IsCounted(j)' <=> IsCounted(j) \/ j = i
              /\ HoldsGroup(j)' <=> HoldsGroup(j)
  <2>1. CASE j = i
    BY <1>2, <1>8, <1>9, <1>10, <2>1 DEF IsCounted, HoldsGroup, isAvailableOrError
  <2>2. CASE j # i
    BY <1>2, <1>3, <1>7, <1>10, <2>2, OtherTask DEF IsCounted, HoldsGroup, isAvailableOrError
  <2> QED BY <2>1, <2>2
<1>13. /\ CountedTokens' = CountedTokens \cup {i} /\ i \notin CountedTokens
       /\ AwaiterRefs' = AwaiterRefs
  BY <1>5, <1>8, <1>12 DEF CountedTokens, AwaiterRefs, IsCounted
<1>14. Cardinality(CountedTokens') = Cardinality(CountedTokens) + 1
  BY <1>13, FiniteTokens, FS_AddElement
<1>15. /\ group' \in [pendingTokens : Int, numErrors : Nat, refCount : Nat]
       /\ group'.pendingTokens = group.pendingTokens - 1
       /\ group'.numErrors = group.numErrors + (IF token[i].state = "error" THEN 1 ELSE 0)
       /\ group'.refCount = group.refCount
  <2>1. PICK e \in Nat : e = (IF token[i].state = "error" THEN 1 ELSE 0)
    OBVIOUS
  <2>2. group' = [group EXCEPT !.numErrors = @ + e, !.pendingTokens = @ - 1]
    BY <1>2, <2>1
  <2>3. /\ group \in [pendingTokens : Int, numErrors : Nat, refCount : Nat]
        /\ group.pendingTokens - 1 \in Int /\ group.numErrors + e \in Nat
    BY GroupFields
  <2>4. /\ group' \in [pendingTokens : Int, numErrors : Nat, refCount : Nat]
        /\ group'.pendingTokens = group.pendingTokens - 1
        /\ group'.numErrors = group.numErrors + e
        /\ group'.refCount = group.refCount
    BY <2>2, <2>3
  <2> QED BY <2>1, <2>4
<1>16. GroupState'
  <2>1. group'.numErrors > 0 <=> \E j \in CountedTokens' : token'[j].state = "error"
    BY <1>2, <1>4, <1>13, <1>15, GroupFields DEF GroupState
  <2>2. main' # "createGroup" => main # "createGroup"
    BY <1>3
  <2> QED BY <1>4, <1>10, <1>13, <1>14, <1>15, <2>1, <2>2, FiniteTokens, GroupSizeInt
          DEF GroupState
<1>17. BodiesRun'
  <2> SUFFICES ASSUME NEW j \in Iterations, RunsIn(j, {"emplace"})' \/ Emplaced(j)'
               PROVE  j \in bodies
    BY <1>3 DEF BodiesRun
  <2>1. CASE j = i
    BY <1>4, <1>5, <1>8, <2>1 DEF BodiesRun
  <2>2. CASE j # i
    BY <1>3, <1>4, <1>7, <2>2, OtherTask DEF BodiesRun
  <2> QED BY <2>1, <2>2
<1>18. WorkerStages'
  BY <1>1, <1>3, <1>4, <1>5 DEF WorkerStages, TypeOK
<1>19. token' \in [AsyncTokens -> TokenRecord] /\ bodies' \subseteq Iterations
  BY <1>2, <1>3, <1>4 DEF TypeOK, TokenRecord
<1> QED BY <1>2, <1>3, <1>11, <1>13, <1>15, <1>16, <1>17, <1>18, <1>19, WorkerFrame

\* The end of setTokenState: the awaiter lets go of the group, the worker of
\* the token's mutex.
LEMMA LeaveKeeps ==
    ASSUME ForallIInv, SchedulerIInv', NEW w \in Workers, TaskLeave(w)
    PROVE  ForallIInv'
<1>1. PICK i : i = running[w]
  OBVIOUS
<1>2. /\ token' = [token EXCEPT ![i].mu = NoThread]
      /\ group' = IF token[i].awaiter THEN [group EXCEPT !.refCount = @ - 1] ELSE group
  BY <1>1 DEF TaskLeave, LeaveAwaiters
<1>3. /\ task[w] = "leave" /\ task' = [task EXCEPT ![w] = "dropToken"]
      /\ running' = running /\ finished' = finished /\ submitted' = submitted
      /\ iv' = iv /\ sawError' = sawError /\ dropsRefs' = dropsRefs
      /\ main' = main /\ bodies' = bodies
  BY <1>1 DEF TaskLeave, TaskAt, poolVars
<1>4. TypeOK /\ WorkerStages /\ BodiesRun /\ TokenStates /\ GroupState /\ Joined
  BY DEF ForallIInv
<1>5. /\ i \in Iterations /\ i # None /\ i \notin finished /\ Created(i)
      /\ \A S : RunsIn(i, S) <=> "leave" \in S
  BY <1>1, <1>3, StageOf
<1>6. i \in AsyncTokens /\ TokenOK(i)
  BY <1>4, <1>5, IterationFacts DEF TokenStates
<1>7. /\ \A S : RunsIn(i, S)' <=> "dropToken" \in S
      /\ \A j \in Iterations : j # i => \A S : RunsIn(j, S)' <=> RunsIn(j, S)
  BY <1>1, <1>3, StageMoves
<1>8. /\ Emplaced(i) /\ ~Dropped(i) /\ ~Left(i) /\ Locked(i) /\ ~Awaiting(i)
      /\ Emplaced(i)' /\ ~Dropped(i)' /\ Left(i)' /\ ~Locked(i)' /\ ~Awaiting(i)'
  BY <1>3, <1>5, <1>7 DEF Emplaced, Dropped, Left, Locked, Awaiting
<1>9. /\ \A j : /\ Created(j)' <=> Created(j)
                /\ Added(j)' <=> Added(j)
                /\ CallerRef(j)' = CallerRef(j)
      /\ GroupRef' = GroupRef
  BY <1>3, LoopStays
<1>10. /\ token'[i].state = token[i].state /\ token'[i].mu = NoThread
       /\ token'[i].refCount = token[i].refCount /\ token'[i].awaiter = token[i].awaiter
       /\ \A j \in AsyncTokens : j # i => token'[j] = token[j]
       /\ token' \in [AsyncTokens -> TokenRecord]
  <2>1. token \in [AsyncTokens -> TokenRecord] /\ token[i] \in TokenRecord
    BY <1>6, TokenFields
  <2>2. token' = [token EXCEPT ![i] = [token[i] EXCEPT !.mu = NoThread]]
    BY <1>2, <1>6, <2>1
  <2>3. /\ [token[i] EXCEPT !.mu = NoThread] \in TokenRecord
        /\ [token[i] EXCEPT !.mu = NoThread].state = token[i].state
        /\ [token[i] EXCEPT !.mu = NoThread].mu = NoThread
        /\ [token[i] EXCEPT !.mu = NoThread].refCount = token[i].refCount
        /\ [token[i] EXCEPT !.mu = NoThread].awaiter = token[i].awaiter
    BY <2>1 DEF TokenRecord
  <2> QED BY <1>6, <2>1, <2>2, <2>3
<1>11. TokenStates'
  <2> SUFFICES ASSUME NEW j \in Iterations PROVE TokenOK(j)'
    BY DEF TokenStates
  <2>1. CASE j = i
    <3>1. TaskRef(i)' = TaskRef(i)
      BY <1>8 DEF TaskRef
    <3> QED BY <1>5, <1>6, <1>8, <1>9, <1>10, <2>1, <3>1 DEF TokenOK, isAvailableOrError
  <2>2. CASE j # i
    <3>1. TokenOK(j) /\ token'[j] = token[j]
      BY <1>4, <1>10, <2>2, IterationFacts DEF TokenStates
    <3> QED BY <1>3, <1>7, <1>9, <2>2, <3>1, OtherTask, TokenFrame
  <2> QED BY <2>1, <2>2
<1>12. ASSUME NEW j \in Iterations
       PROVE  /\ IsCounted(j)' <=> IsCounted(j)
              /\ HoldsGroup(j)' <=> HoldsGroup(j) /\ j # i
  <2>1. CASE j = i
    BY <1>8, <1>9, <1>10, <2>1 DEF IsCounted, HoldsGroup, isAvailableOrError
  <2>2. CASE j # i
    BY <1>3, <1>7, <1>9, <1>10, <2>2, IterationFacts, OtherTask
       DEF IsCounted, HoldsGroup, isAvailableOrError
  <2> QED BY <2>1, <2>2
<1>13. /\ CountedTokens' = CountedTokens /\ AwaiterRefs' = AwaiterRefs \ {i}
       /\ i \in AwaiterRefs <=> token[i].awaiter
  BY <1>5, <1>8, <1>12 DEF CountedTokens, AwaiterRefs, HoldsGroup
<1>14. Cardinality(AwaiterRefs') =
          IF token[i].awaiter THEN Cardinality(AwaiterRefs) - 1 ELSE Cardinality(AwaiterRefs)
  BY <1>13, FiniteTokens, FS_RemoveElement
<1>15. GroupRef \in Nat
  BY DEF GroupRef
<1>16. Cardinality(AwaiterRefs') \in Nat
  BY <1>13, FiniteTokens, FS_RemoveElement, FS_CardinalityType
<1>17. /\ group' \in [pendingTokens : Int, numErrors : Nat, refCount : Nat]
       /\ group'.pendingTokens = group.pendingTokens
       /\ group'.numErrors = group.numErrors
       /\ group'.refCount = GroupRef + Cardinality(AwaiterRefs')
  <2>1. group.refCount = GroupRef + Cardinality(AwaiterRefs)
    BY <1>4 DEF GroupState
  <2>2. CASE token[i].awaiter
    <3>1. group' = [group EXCEPT !.refCount = @ - 1]
      BY <1>2, <2>2
    <3>2. group.refCount - 1 = GroupRef + Cardinality(AwaiterRefs')
      BY <1>14, <1>15, <2>1, <2>2, FiniteTokens
    <3>3. PICK r \in Nat : r = group.refCount - 1
      BY <1>15, <1>16, <3>2
    <3>4. group' = [group EXCEPT !.refCount = r]
      BY <3>1, <3>3, GroupFields
    <3>5. /\ group' \in [pendingTokens : Int, numErrors : Nat, refCount : Nat]
          /\ group'.pendingTokens = group.pendingTokens
          /\ group'.numErrors = group.numErrors
          /\ group'.refCount = r
      BY <3>4, GroupFields
    <3> QED BY <3>2, <3>3, <3>5
  <2>3. CASE ~token[i].awaiter
    <3>1. group' = group
      BY <1>2, <2>3
    <3> QED BY <1>14, <2>1, <2>3, <3>1, GroupFields
  <2> QED BY <2>2, <2>3
<1>18. GroupState'
  <2>1. \A j \in CountedTokens : token'[j].state = token[j].state
    BY <1>10, FiniteTokens, IterationFacts
  <2> QED BY <1>3, <1>4, <1>9, <1>13, <1>17, <2>1 DEF GroupState
<1>19. BodiesRun'
  <2> SUFFICES ASSUME NEW j \in Iterations, RunsIn(j, {"emplace"})' \/ Emplaced(j)'
               PROVE  j \in bodies
    BY <1>3 DEF BodiesRun
  <2>1. CASE j = i
    BY <1>4, <1>5, <1>8, <2>1 DEF BodiesRun
  <2>2. CASE j # i
    BY <1>3, <1>4, <1>7, <2>2, OtherTask DEF BodiesRun
  <2> QED BY <2>1, <2>2
<1>20. WorkerStages'
  BY <1>1, <1>3, <1>4, <1>5 DEF WorkerStages, TypeOK
<1>21. \A t \in AsyncTokens : token'[t].state = token[t].state
  BY <1>10
<1>22. bodies' \subseteq Iterations
  BY <1>3, <1>4 DEF TypeOK
<1> QED BY <1>3, <1>10, <1>11, <1>13, <1>17, <1>18, <1>19, <1>20, <1>21, <1>22, WorkerFrame

\* The task's reference to its token.
LEMMA DropTaskRefKeeps ==
    ASSUME ForallIInv, SchedulerIInv', NEW w \in Workers, TaskDropToken(w)
    PROVE  ForallIInv'
<1>1. PICK i : i = running[w]
  OBVIOUS
<1>2. token' = [token EXCEPT ![i].refCount = @ - 1] /\ group' = group
  BY <1>1 DEF TaskDropToken, dropTokenRef
<1>3. /\ task[w] = "dropToken" /\ task' = [task EXCEPT ![w] = "end"]
      /\ running' = running /\ finished' = finished /\ submitted' = submitted
      /\ iv' = iv /\ sawError' = sawError /\ dropsRefs' = dropsRefs
      /\ main' = main /\ bodies' = bodies
  BY <1>1 DEF TaskDropToken, TaskAt, poolVars
<1>4. TypeOK /\ WorkerStages /\ BodiesRun /\ TokenStates /\ GroupState /\ Joined
  BY DEF ForallIInv
<1>5. /\ i \in Iterations /\ i # None /\ i \notin finished /\ Created(i)
      /\ \A S : RunsIn(i, S) <=> "dropToken" \in S
  BY <1>1, <1>3, StageOf
<1>6. i \in AsyncTokens /\ TokenOK(i)
  BY <1>4, <1>5, IterationFacts DEF TokenStates
<1>7. /\ \A S : RunsIn(i, S)' <=> "end" \in S
      /\ \A j \in Iterations : j # i => \A S : RunsIn(j, S)' <=> RunsIn(j, S)
  BY <1>1, <1>3, StageMoves
<1>8. /\ Emplaced(i) /\ ~Dropped(i) /\ Left(i) /\ ~Locked(i) /\ ~Awaiting(i)
      /\ Emplaced(i)' /\ Dropped(i)' /\ Left(i)' /\ ~Locked(i)' /\ ~Awaiting(i)'
  BY <1>3, <1>5, <1>7 DEF Emplaced, Dropped, Left, Locked, Awaiting
<1>9. /\ \A j : /\ Created(j)' <=> Created(j)
                /\ Added(j)' <=> Added(j)
                /\ CallerRef(j)' = CallerRef(j)
      /\ GroupRef' = GroupRef
  BY <1>3, LoopStays
<1>10. CallerRef(i) \in Nat /\ TaskRef(i) = 1 /\ TaskRef(i)' = 0
  BY <1>8 DEF CallerRef, TaskRef
<1>11. /\ token'[i].state = token[i].state /\ token'[i].mu = token[i].mu
       /\ token'[i].refCount = CallerRef(i) /\ token'[i].awaiter = token[i].awaiter
       /\ \A j \in AsyncTokens : j # i => token'[j] = token[j]
       /\ token' \in [AsyncTokens -> TokenRecord]
  <2>1. token \in [AsyncTokens -> TokenRecord] /\ token[i] \in TokenRecord
    BY <1>6, TokenFields
  <2>2. token[i].refCount = CallerRef(i) + 1
    BY <1>5, <1>6, <1>10 DEF TokenOK
  <2>3. PICK r \in Nat : r = CallerRef(i)
    BY <1>10
  <2>4. token[i].refCount - 1 = r
    BY <2>2, <2>3
  <2>5. token'[i] = [token[i] EXCEPT !.refCount = r]
    BY <1>2, <1>6, <2>1, <2>4
  <2>6. /\ token'[i] \in TokenRecord
        /\ token'[i].state = token[i].state /\ token'[i].refCount = r
        /\ token'[i].mu = token[i].mu /\ token'[i].awaiter = token[i].awaiter
    BY <2>1, <2>5 DEF TokenRecord
  <2> QED BY <1>2, <1>6, <2>1, <2>3, <2>6
<1>12. TokenStates'
  <2> SUFFICES ASSUME NEW j \in Iterations PROVE TokenOK(j)'
    BY DEF TokenStates
  <2>1. CASE j = i
    BY <1>5, <1>6, <1>8, <1>9, <1>10, <1>11, <2>1 DEF TokenOK, isAvailableOrError
  <2>2. CASE j # i
    <3>1. TokenOK(j) /\ token'[j] = token[j]
      BY <1>4, <1>11, <2>2, IterationFacts DEF TokenStates
    <3> QED BY <1>3, <1>7, <1>9, <2>2, <3>1, OtherTask, TokenFrame
  <2> QED BY <2>1, <2>2
<1>13. ASSUME NEW j \in Iterations
       PROVE  (IsCounted(j)' <=> IsCounted(j)) /\ (HoldsGroup(j)' <=> HoldsGroup(j))
  <2>1. CASE j = i
    BY <1>8, <1>9, <1>11, <2>1 DEF IsCounted, HoldsGroup, isAvailableOrError
  <2>2. CASE j # i
    BY <1>3, <1>7, <1>9, <1>11, <2>2, IterationFacts, OtherTask
       DEF IsCounted, HoldsGroup, isAvailableOrError
  <2> QED BY <2>1, <2>2
<1>14. CountedTokens' = CountedTokens /\ AwaiterRefs' = AwaiterRefs
  BY <1>13 DEF CountedTokens, AwaiterRefs
<1>15. \A t \in AsyncTokens : token'[t].state = token[t].state
  BY <1>11
<1>16. GroupState'
  <2>1. \A j \in CountedTokens : token'[j].state = token[j].state
    BY <1>15, FiniteTokens, IterationFacts
  <2> QED BY <1>2, <1>3, <1>4, <1>9, <1>14, <2>1 DEF GroupState
<1>17. BodiesRun'
  <2> SUFFICES ASSUME NEW j \in Iterations, RunsIn(j, {"emplace"})' \/ Emplaced(j)'
               PROVE  j \in bodies
    BY <1>3 DEF BodiesRun
  <2>1. CASE j = i
    BY <1>4, <1>5, <1>8, <2>1 DEF BodiesRun
  <2>2. CASE j # i
    BY <1>3, <1>4, <1>7, <2>2, OtherTask DEF BodiesRun
  <2> QED BY <2>1, <2>2
<1>18. WorkerStages'
  BY <1>1, <1>3, <1>4, <1>5 DEF WorkerStages, TypeOK
<1>19. bodies' \subseteq Iterations
  BY <1>3, <1>4 DEF TypeOK
<1> QED BY <1>2, <1>3, <1>11, <1>12, <1>14, <1>15, <1>16, <1>17, <1>18, <1>19,
           WorkerFrame, GroupFields

\* The worker is done with the task.
LEMMA FinishKeeps ==
    ASSUME ForallIInv, SchedulerIInv', NEW w \in Workers, WorkerFinish(w)
    PROVE  ForallIInv'
<1>1. PICK i : i = running[w]
  OBVIOUS
<1>2. /\ running' = [running EXCEPT ![w] = None] /\ finished' = finished \cup {i}
      /\ task[w] = "end" /\ task' = [task EXCEPT ![w] = "none"]
      /\ submitted' = submitted
      /\ iv' = iv /\ sawError' = sawError /\ dropsRefs' = dropsRefs
      /\ token' = token /\ group' = group /\ main' = main /\ bodies' = bodies
  BY <1>1 DEF WorkerFinish, Finish, TaskAt, asyncVars
<1>3. TypeOK /\ PoolTypeOK /\ WorkerStages /\ BodiesRun
  BY DEF ForallIInv, SchedulerIInv
<1>4. /\ i \in Iterations /\ i # None /\ i \notin finished
      /\ \A S : RunsIn(i, S) <=> "end" \in S
  BY <1>1, <1>2, StageOf
<1>5. /\ \A v \in Workers : running'[v] = IF v = w THEN None ELSE running[v]
      /\ \A v \in Workers : task'[v] = IF v = w THEN "none" ELSE task[v]
      /\ \A v \in Workers : running[v] = i => v = w
  BY <1>1, <1>2, <1>3, <1>4 DEF PoolTypeOK, TypeOK, ForallIInv, SchedulerIInv, Apart
<1>6. /\ \A S : ~RunsIn(i, S)'
      /\ \A j \in Iterations : j # i => \A S : RunsIn(j, S)' <=> RunsIn(j, S)
  BY <1>1, <1>4, <1>5, IterationFacts DEF RunsIn
<1>7. ASSUME NEW j \in Iterations
      PROVE  /\ Emplaced(j)' <=> Emplaced(j)
             /\ Dropped(j)' <=> Dropped(j)
             /\ Left(j)' <=> Left(j)
             /\ Locked(j)' <=> Locked(j)
             /\ Awaiting(j)' <=> Awaiting(j)
  <2>1. CASE j = i
    BY <1>2, <1>4, <1>6, <2>1 DEF Emplaced, Dropped, Left, Locked, Awaiting
  <2>2. CASE j # i
    <3>1. j \in finished' <=> j \in finished
      BY <1>2, <2>2
    <3> QED BY <1>6, <2>2, <3>1, OtherTask
  <2> QED BY <2>1, <2>2
<1>8. TokenStates' /\ GroupState' /\ CountedTokens' = CountedTokens
  BY <1>2, <1>7, HiddenStep
<1>9. BodiesRun'
  BY <1>2, <1>3, <1>6, <1>7 DEF BodiesRun
<1>10. WorkerStages'
  BY <1>3, <1>5 DEF WorkerStages
<1>11. token' \in [AsyncTokens -> TokenRecord] /\ bodies' \subseteq Iterations
  BY <1>2, <1>3 DEF TypeOK, TokenRecord
<1> QED BY <1>2, <1>8, <1>9, <1>10, <1>11, WorkerFrame, GroupFields

-----------------------------------------------------------------------------
\* Every step of the program keeps the invariant, provided the group is large
\* enough: otherwise the wait may end before all tokens are counted.
LEMMA NextKeepsForall ==
    ASSUME EnoughPending
    PROVE  ForallIInv /\ [Next]_vars => ForallIInv'
<1> SUFFICES ASSUME ForallIInv, [Next]_vars PROVE ForallIInv'
  OBVIOUS
<1>1. SchedulerIInv'
  BY PoolStepOfForall, NextKeepsScheduler DEF ForallIInv
<1>2. CASE MainCreateGroup \/ MainAwait \/ MainWake \/ MainCheckError \/ MainDropGroup
  <2>1. Quiet
    BY <1>2 DEF MainCreateGroup, MainAwait, MainWake, MainCheckError, MainDropGroup, MainAt,
                CreateGroup, dropGroupRef, asyncVars, poolVars, Quiet
  <2> QED BY <1>1, <1>2, <2>1, MainOnlyStep
<1>3. CASE MainShutdown
  <2>1. Quiet /\ main = "exit" /\ main' = "exitWait" /\ UNCHANGED <<group, sawError>>
    BY <1>3 DEF MainShutdown, WaitCall, OwnerStep, queue, asyncVars, Quiet
  <2> QED BY <1>1, <2>1, MainOnlyStep
<1>4. CASE MainWait
  <2>1. Quiet /\ UNCHANGED <<group, sawError>> /\ main = "exitWait"
    BY <1>4 DEF MainWait, WaitSleep, WaitSpurious, WaitReturn, OwnerStep, queue, asyncVars,
           Quiet
  <2>2. CASE main' = main
    BY <1>1, <2>1, <2>2, PoolOnlyStep
  <2>3. CASE main' # main
    <3>1. activeTasks = 0 /\ main' = "assert"
      BY <1>4, <2>3 DEF MainWait, WaitReturn
    <3>2. submitted \subseteq finished
      BY <3>1, IdleHasFinished DEF ForallIInv
    <3> QED BY <1>1, <2>1, <3>1, <3>2, MainOnlyStep
  <2> QED BY <2>2, <2>3
<1>5. CASE MainDestroyPool \/ MainNotify
  <2>1. Quiet /\ UNCHANGED <<main, group, sawError>>
    BY <1>5 DEF MainDestroyPool, MainNotify, DestroyStop, DestroyNotify, DestroyJoined,
                OwnerStep, NotifyOne, queue, asyncVars, program, Quiet
  <2> QED BY <1>1, <2>1, PoolOnlyStep
<1>6. ASSUME NEW w \in Workers, WorkerIdle(w) \/ WorkerSpurious(w) PROVE ForallIInv'
  <2>1. Quiet /\ UNCHANGED <<main, group, sawError>>
    BY <1>6 DEF WorkerIdle, WorkerSpurious, Sleep, Exit, WakeSpuriously, queue, asyncVars,
                program, Quiet
  <2> QED BY <1>1, <2>1, PoolOnlyStep
<1>7. CASE Ended \/ UNCHANGED vars
  <2>1. Quiet /\ UNCHANGED <<main, group, sawError>>
    BY <1>7 DEF Ended, vars, asyncVars, program, poolVars, Quiet
  <2> QED BY <1>1, <2>1, PoolOnlyStep
<1>8. CASE MainCreateToken
  BY <1>1, <1>8, CreateTokenKeeps
<1>9. CASE MainExecute
  BY <1>1, <1>9, ExecuteKeeps
<1>10. CASE MainAddToGroup
  BY <1>1, <1>10, AddKeeps
<1>11. CASE MainDropToken
  BY <1>1, <1>11, DropTokenKeeps
<1>12. ASSUME NEW w \in Workers,
              WorkerTake(w) \/ TaskBody(w) \/ TaskEmplace(w) \/ TaskAwaiter(w)
       PROVE  ForallIInv'
  BY <1>1, <1>12, TakeKeeps, BodyKeeps, EmplaceKeeps, AwaiterKeeps
<1>13. ASSUME NEW w \in Workers, TaskLeave(w) \/ TaskDropToken(w) \/ WorkerFinish(w)
       PROVE  ForallIInv'
  BY <1>1, <1>13, LeaveKeeps, DropTaskRefKeeps, FinishKeeps
<1> QED BY <1>2, <1>3, <1>4, <1>5, <1>6, <1>7, <1>8, <1>9, <1>10, <1>11, <1>12, <1>13
        DEF Next, MainStep, WorkStep

-----------------------------------------------------------------------------
\* A token that is not counted keeps the group waiting.
LEMMA UncountedIsPending ==
    ASSUME ForallIInv, EnoughPending, NEW i \in Iterations, i \notin CountedTokens,
           main # "createGroup"
    PROVE  group.pendingTokens > 0
<1>1. Cardinality(CountedTokens) < Cardinality(Iterations)
  <2>1. /\ Cardinality(CountedTokens) <= Cardinality(Iterations)
        /\ Cardinality(CountedTokens) # Cardinality(Iterations)
    BY IterationFacts, FiniteTokens, FS_Subset
  <2> QED BY <2>1, IterationFacts, FiniteTokens, FS_CardinalityType
<1>2. group.pendingTokens = nThreads - Cardinality(CountedTokens)
  BY DEF ForallIInv, GroupState
<1>3. Cardinality(Iterations) \in Nat
  BY IterationFacts, FS_CardinalityType
<1> QED BY <1>1, <1>2, <1>3, FiniteTokens, GroupSizeInt DEF EnoughPending

\* An awaiter that has not let go keeps the group alive.
LEMMA AwaiterHoldsGroup ==
    ASSUME ForallIInv, NEW i \in AwaiterRefs
    PROVE  group.refCount > 0
<1>1. Cardinality(AwaiterRefs) > 0
  BY FiniteTokens, FS_EmptySet
<1>2. group.refCount = GroupRef + Cardinality(AwaiterRefs) /\ GroupRef \in {0, 1}
  BY DEF ForallIInv, GroupState, GroupRef
<1> QED BY <1>1, <1>2, FiniteTokens

\* Whoever uses a token or the group holds a reference to it, or is the main
\* thread before it gives its own up.
LEMMA NothingUsedAfterFree == ForallIInv => NoUseAfterFree
<1> SUFFICES ASSUME ForallIInv PROVE NoUseAfterFree
  OBVIOUS
<1>1. ASSUME NEW i \in Iterations, Created(i), CallerRef(i) = 1 \/ TaskRef(i) = 1
      PROVE  token[i].refCount > 0
  <2>1. token[i].refCount = CallerRef(i) + TaskRef(i)
    BY <1>1 DEF ForallIInv, TokenStates, TokenOK
  <2>2. CallerRef(i) \in {0, 1} /\ TaskRef(i) \in {0, 1}
    BY DEF CallerRef, TaskRef
  <2> QED BY <1>1, <2>1, <2>2
<1>2. ASSUME NEW w \in Workers, UsesToken(w) PROVE token[running[w]].refCount > 0
  <2>1. PICK i : i = running[w]
    OBVIOUS
  <2>2. task[w] # "none" /\ task[w] # "end"
    BY <1>2 DEF UsesToken
  <2>3. i \in Iterations /\ i \notin finished /\ Created(i) /\ ~RunsIn(i, {"end"})
    BY <2>1, <2>2, StageOf
  <2>4. TaskRef(i) = 1
    BY <2>3 DEF TaskRef, Dropped
  <2> QED BY <1>1, <2>1, <2>3, <2>4
<1>3. ASSUME main \in {"execute", "add", "dropToken"} PROVE token[iv].refCount > 0
  <2>1. iv \in Iterations /\ Created(iv)
    BY <1>3, IterationFacts DEF ForallIInv, LoopCounter, TypeOK, Created
  <2>2. CallerRef(iv) = 1
    BY <2>1, IterationFacts DEF CallerRef
  <2> QED BY <1>1, <2>1, <2>2
<1>4. ASSUME NEW w \in Workers,
             task[w] = "awaiter" \/ (task[w] = "leave" /\ token[running[w]].awaiter)
      PROVE  group.refCount > 0
  <2>1. PICK i : i = running[w]
    OBVIOUS
  <2>2. /\ i \in Iterations /\ i \notin finished /\ Created(i)
        /\ ~RunsIn(i, {"dropToken", "end"})
        /\ task[w] = "awaiter" => RunsIn(i, {"awaiter"})
    BY <1>4, <2>1, StageOf
  <2>3. token[i].awaiter
    BY <1>4, <2>1, <2>2 DEF ForallIInv, TokenStates, TokenOK, Awaiting
  <2>4. i \in AwaiterRefs
    BY <2>2, <2>3 DEF AwaiterRefs, HoldsGroup, Left
  <2> QED BY <2>4, AwaiterHoldsGroup
<1>5. ASSUME main \in {"loop", "execute", "add", "dropToken", "asleep", "joined", "dropGroup"}
      PROVE  group.refCount > 0
  <2>1. group.refCount = 1 + Cardinality(AwaiterRefs)
    BY <1>5 DEF ForallIInv, GroupState, GroupRef
  <2> QED BY <2>1, FiniteTokens
<1> QED BY <1>2, <1>3, <1>4, <1>5 DEF NoUseAfterFree

\* The assert of onTokenReady holds wherever it is evaluated.
LEMMA GroupLargeEnough ==
    ASSUME EnoughPending
    PROVE  ForallIInv => GroupSizeAssertion
<1> SUFFICES ASSUME ForallIInv PROVE GroupSizeAssertion
  OBVIOUS
<1>1. ASSUME main = "add" PROVE group.pendingTokens > 0
  <2>1. iv \in Iterations
    BY <1>1, IterationFacts DEF ForallIInv, LoopCounter, TypeOK
  <2>2. ~Added(iv)
    BY <1>1, <2>1, IterationFacts DEF Added
  <2>3. iv \notin CountedTokens
    BY <2>2 DEF CountedTokens, IsCounted
  <2> QED BY <1>1, <2>1, <2>3, UncountedIsPending
<1>2. ASSUME NEW w \in Workers, task[w] = "awaiter" PROVE group.pendingTokens > 0
  <2>1. PICK i : i = running[w]
    OBVIOUS
  <2>2. i \in Iterations /\ Created(i) /\ RunsIn(i, {"awaiter"})
    BY <1>2, <2>1, StageOf
  <2>3. i \notin CountedTokens
    BY <2>2 DEF CountedTokens, IsCounted, Awaiting
  <2>4. main # "createGroup"
    BY <2>2, IterationFacts DEF ForallIInv, LoopCounter, Created
  <2> QED BY <2>2, <2>3, <2>4, UncountedIsPending
<1> QED BY <1>1, <1>2 DEF GroupSizeAssertion

\* A counted token's task has run its body.
LEMMA CountedHasRun == ForallIInv => JoinMeansDone
<1> SUFFICES ASSUME ForallIInv, PastJoin PROVE bodies = Iterations
  BY DEF JoinMeansDone
<1>1. CountedTokens = Iterations
  BY DEF ForallIInv, Joined
<1>2. ASSUME NEW i \in Iterations PROVE i \in bodies
  <2>1. isAvailableOrError(i) /\ Added(i)
    BY <1>1 DEF CountedTokens, IsCounted
  <2>2. Created(i)
    BY <2>1 DEF Added, Created
  <2>3. Emplaced(i)
    BY <2>1, <2>2 DEF ForallIInv, TokenStates, TokenOK
  <2> QED BY <2>3 DEF ForallIInv, BodiesRun
<1>3. bodies \subseteq Iterations
  BY DEF ForallIInv, TypeOK
<1> QED BY <1>2, <1>3

\* Once the pool is idle no task and no awaiter holds anything.
LEMMA NothingHeldAtAssert == ForallIInv => AllReleased
<1> SUFFICES ASSUME ForallIInv, main = "assert", dropsRefs
             PROVE  getNumRefCountedObjects = <<{}, FALSE>>
  BY DEF AllReleased
<1>1. ASSUME NEW i \in Iterations
      PROVE  Created(i) /\ i \in finished /\ CallerRef(i) = 0 /\ i < iv
  <2>1. iv >= ub /\ iv \in Nat
    BY DEF ForallIInv, LoopCounter, TypeOK, PastJoin
  <2>2. i < iv
    BY <2>1, IterationFacts
  <2>3. i \in submitted
    BY <2>2 DEF ForallIInv, TasksOfLoop, Enqueued
  <2>4. i \in finished
    BY <2>3 DEF ForallIInv, IdleAtAssert
  <2> QED BY <2>2, <2>4 DEF Created, CallerRef
<1>2. ASSUME NEW i \in Iterations PROVE ~(token[i].refCount > 0) /\ i \notin AwaiterRefs
  <2>1. Created(i) /\ i \in finished /\ CallerRef(i) = 0
    BY <1>1
  <2>2. TaskRef(i) = 0 /\ Left(i)
    BY <2>1 DEF TaskRef, Dropped, Left
  <2>3. token[i].refCount = CallerRef(i) + TaskRef(i)
    BY <2>1 DEF ForallIInv, TokenStates, TokenOK
  <2>4. token[i].refCount = 0
    BY <2>1, <2>2, <2>3
  <2> QED BY <2>2, <2>4 DEF AwaiterRefs, HoldsGroup
<1>3. {t \in AsyncTokens : token[t].refCount > 0} = {}
  BY <1>2, ForallAssumption
<1>4. AwaiterRefs = {}
  BY <1>2, FiniteTokens
<1>5. Cardinality(AwaiterRefs) = 0
  BY <1>4, FS_EmptySet
<1>6. group.refCount = 0
  BY <1>5 DEF ForallIInv, GroupState, GroupRef
<1>7. (group.refCount > 0) = FALSE
  BY <1>6
<1> QED BY <1>3, <1>7 DEF getNumRefCountedObjects

\* A loop from zero by a step that divides its bound has ub / step iterations,
\* as many as the group is created for.
LEMMA EvenLoop ==
    ASSUME lb = 0, ub % step = 0
    PROVE  EnoughPending
<1>1. ub \in Nat /\ step \in Nat \ {0}
  BY IterationFacts
<1>2. PICK q \in Nat : q = ub \div step /\ ub = step * q
  <2>1. ub \div step \in Nat /\ ub = step * (ub \div step) + (ub % step)
    BY <1>1, DivMod
  <2>2. PICK q \in Nat : q = ub \div step
    BY <2>1
  <2>3. ub = step * q + 0 /\ step * q \in Nat
    BY <1>1, <2>1, <2>2
  <2> QED BY <2>2, <2>3
<1>3. ASSUME NEW i \in Iterations
      PROVE  \E k \in 0 .. q - 1 : k = i \div step /\ i = step * k
  <2>1. i \in Nat /\ i < ub /\ i % step = 0
    BY IterationFacts
  <2>2. i \div step \in Nat /\ i = step * (i \div step) + (i % step)
    BY <1>1, <2>1, DivMod
  <2>3. PICK k \in Nat : k = i \div step
    BY <2>2
  <2>4. i = step * k + 0 /\ step * k \in Nat
    BY <1>1, <2>1, <2>2, <2>3
  <2>5. k < q
    <3>1. SUFFICES ASSUME k >= q PROVE FALSE
      BY <1>2, <2>3
    <3>2. step * k >= step * q
      BY <1>1, <1>2, <2>3, <3>1
    <3> QED BY <1>1, <1>2, <2>1, <2>4, <3>2
  <2> QED BY <2>3, <2>4, <2>5
<1> DEFINE f == [i \in Iterations |-> i \div step]
<1>4. f \in Injection(Iterations, 0 .. q - 1)
  <2>1. f \in [Iterations -> 0 .. q - 1]
    BY <1>3
  <2>2. ASSUME NEW i \in Iterations, NEW j \in Iterations, f[i] = f[j] PROVE i = j
    BY <1>3, <2>2
  <2> QED BY <2>1, <2>2 DEF Injection, IsInjective
<1>5. IsFiniteSet(0 .. q - 1) /\ Cardinality(0 .. q - 1) = q
  <2>1. 0 \in Int /\ q - 1 \in Int
    OBVIOUS
  <2> QED BY <2>1, FS_Interval
<1>6. Cardinality(Iterations) <= Cardinality(0 .. q - 1)
  BY <1>4, <1>5, FS_Injection
<1> QED BY <1>2, <1>5, <1>6 DEF EnoughPending, nThreads

-----------------------------------------------------------------------------
\* The inductive invariant holds of every state of the program.
LEMMA ForallInvariant ==
    ASSUME EnoughPending
    PROVE  Spec => []ForallIInv
  BY InitEstablishesForall, NextKeepsForall, PTL DEF Spec

\* When the group is created for at least as many tokens as the forall has
\* iterations, no thread touches a token or the group after it was destroyed,
\* no token is counted that is not waited for, and the group knows every
\* error by the time it is asked.
LEMMA SafeWhenEnough ==
    ASSUME EnoughPending
    PROVE  Spec => []RuntimeInv
<1>1. ForallIInv => RuntimeInv
  BY NothingUsedAfterFree, GroupLargeEnough DEF ForallIInv, RuntimeInv
<1> QED BY <1>1, ForallInvariant, PTL

\* Under the same condition the code after the forall runs only when the body
\* of every iteration has.
LEMMA JoinWhenEnough ==
    ASSUME EnoughPending
    PROVE  Spec => []JoinMeansDone
  BY CountedHasRun, ForallInvariant, PTL

\* Under the same condition a program that releases what it was given leaves
\* nothing behind for the assert of ~AsyncRuntime to find.
LEMMA ReleasedWhenEnough ==
    ASSUME EnoughPending
    PROVE  Spec => []AllReleased
  BY NothingHeldAtAssert, ForallInvariant, PTL

\* A forall that counts from zero to a multiple of its step: no thread touches a
\* token or the group after it was destroyed, no token is counted that is not
\* waited for, and the group knows every error by the time it is asked.
THEOREM EvenRuntimeIsSafe ==
    ASSUME lb = 0, ub % step = 0
    PROVE  Spec => []RuntimeInv
  BY EvenLoop, SafeWhenEnough

\* The code after such a forall runs only when the body of every iteration has.
THEOREM EvenJoinIsComplete ==
    ASSUME lb = 0, ub % step = 0
    PROVE  Spec => []JoinMeansDone
  BY EvenLoop, JoinWhenEnough

\* When the process exits after such a forall, and the program released what it
\* was given, the assert of ~AsyncRuntime finds nothing.
THEOREM EvenNothingLeaks ==
    ASSUME lb = 0, ub % step = 0
    PROVE  Spec => []AllReleased
  BY EvenLoop, ReleasedWhenEnough
=============================================================================
