-------------------------- MODULE HexagonThreadPool --------------------------
(***************************************************************************)
(* The thread pool of the async runtime (multithreading/HexagonThreadPool): *)
(* a queue of tasks, worker threads that sleep on a condition variable, and  *)
(* a second condition variable for the thread that waits for all tasks.      *)
(*                                                                         *)
(* A section under queueMutex or allTasksDoneMutex is one step; what the     *)
(* code does after unlocking (notify_one, notify_all) is a step of its own.  *)
(* Any thread may enqueue: Main, or a worker from inside a task.            *)
(***************************************************************************)
EXTENDS Integers, Sequences, FiniteSets, FiniteSetsExt

CONSTANTS
    Workers,    \* the pool's threads
    Main,       \* the thread that owns the pool
    Tasks,      \* the tasks that may be submitted, each at most once
    None

ASSUME PoolThreads ==
    /\ Workers # {} /\ IsFiniteSet(Workers)
    /\ Main \notin Workers
    /\ None \notin Tasks

VARIABLES
    tasks,          \* the queue
    stop,
    activeTasks,    \* enqueued and not yet finished
    worker,         \* where each worker is in workerThread
    running,        \* the task each worker executes
    toNotify,       \* threads between the unlock and the notify of enqueueTask
    owner,          \* where Main is in wait or in the destructor
    submitted,      \* history: tasks ever enqueued
    finished        \* history: tasks whose wrapper has returned

queue == <<tasks, activeTasks, submitted>>
poolVars == <<tasks, stop, activeTasks, worker, running, toNotify, owner,
              submitted, finished>>

Threads == Workers \cup {Main}

In(where) == {w \in Workers : worker[w] = where}

PoolInit ==
    /\ tasks = <<>> /\ stop = FALSE /\ activeTasks = 0
    /\ worker = [w \in Workers |-> "test"]
    /\ running = [w \in Workers |-> None]
    /\ toNotify = {} /\ owner = "run"
    /\ submitted = {} /\ finished = {}

-----------------------------------------------------------------------------
\* Thread a may call into the pool: a worker from inside a task, Main when it
\* is not itself in wait or in the destructor.
MayEnqueue(a) ==
    /\ a \notin toNotify
    /\ IF a = Main THEN owner = "run" ELSE worker[a] = "run"

Push(a, t) ==
    /\ MayEnqueue(a)
    /\ t \notin submitted
    /\ tasks' = Append(tasks, t)
    /\ activeTasks' = activeTasks + 1
    /\ submitted' = submitted \cup {t}
    /\ UNCHANGED <<stop, worker, running, owner, finished>>

\* Mutant: only a push to an empty queue is announced.
enqueueTaskWhenEmpty(a, t) ==
    /\ Push(a, t)
    /\ toNotify' = IF tasks = <<>> THEN toNotify \cup {a} ELSE toNotify

\* enqueueTask, the part under queueMutex.
enqueueTask(a, t) ==
    /\ Push(a, t)
    /\ toNotify' = toNotify \cup {a}

\* Its notify_one, with the mutex released: one sleeper, if there is one.
NotifyOne(a) ==
    /\ a \in toNotify
    /\ toNotify' = toNotify \ {a}
    /\ \/ In("asleep") = {} /\ UNCHANGED worker
       \/ \E w \in In("asleep") : worker' = [worker EXCEPT ![w] = "test"]
    /\ UNCHANGED <<queue, stop, running, owner, finished>>

\* workerThread, the predicate of condition.wait under queueMutex is false.
Sleep(w) ==
    /\ worker[w] = "test" /\ ~stop /\ tasks = <<>>
    /\ worker' = [worker EXCEPT ![w] = "asleep"]
    /\ UNCHANGED <<queue, stop, running, toNotify, owner, finished>>

\* A condition variable may wake without a notification.
WakeSpuriously(w) ==
    /\ worker[w] = "asleep"
    /\ worker' = [worker EXCEPT ![w] = "test"]
    /\ UNCHANGED <<queue, stop, running, toNotify, owner, finished>>

\* Mutant: a stopped worker leaves the queue as it is.
ExitAtOnce(w) ==
    /\ worker[w] = "test" /\ stop
    /\ worker' = [worker EXCEPT ![w] = "exited"]
    /\ UNCHANGED <<queue, stop, running, toNotify, owner, finished>>

Exit(w) ==
    /\ worker[w] = "test" /\ stop /\ tasks = <<>>
    /\ worker' = [worker EXCEPT ![w] = "exited"]
    /\ UNCHANGED <<queue, stop, running, toNotify, owner, finished>>

Take(w) ==
    /\ worker[w] = "test" /\ tasks # <<>>
    /\ running' = [running EXCEPT ![w] = Head(tasks)]
    /\ tasks' = Tail(tasks)
    /\ worker' = [worker EXCEPT ![w] = "run"]
    /\ UNCHANGED <<activeTasks, submitted, stop, toNotify, owner, finished>>

\* The task has returned: the rest of the wrapper, under allTasksDoneMutex.
Finish(w) ==
    /\ worker[w] = "run" /\ w \notin toNotify
    /\ activeTasks' = activeTasks - 1
    /\ owner' = IF activeTasks' = 0 /\ owner = "waitAsleep" THEN "waitTest" ELSE owner
    /\ worker' = [worker EXCEPT ![w] = "test"]
    /\ running' = [running EXCEPT ![w] = None]
    /\ finished' = finished \cup {running[w]}
    /\ UNCHANGED <<tasks, submitted, stop, toNotify>>

OwnerStep(from, to) ==
    /\ owner = from /\ Main \notin toNotify
    /\ owner' = to
    /\ UNCHANGED <<queue, running, toNotify, finished>>

\* wait: its loop on allTasksDone.
WaitCall == OwnerStep("run", "waitTest") /\ UNCHANGED <<stop, worker>>

WaitSleep ==
    OwnerStep("waitTest", "waitAsleep") /\ activeTasks # 0 /\ UNCHANGED <<stop, worker>>

WaitSpurious == OwnerStep("waitAsleep", "waitTest") /\ UNCHANGED <<stop, worker>>

\* Mutant: an empty queue is taken for an idle pool.
WaitReturnQueueEmpty ==
    OwnerStep("waitTest", "run") /\ tasks = <<>> /\ UNCHANGED <<stop, worker>>

WaitReturn ==
    OwnerStep("waitTest", "run") /\ activeTasks = 0 /\ UNCHANGED <<stop, worker>>

\* ~HexagonThreadPool: set stop under the lock, notify all, join.
DestroyStop == OwnerStep("run", "notifyAll") /\ stop' = TRUE /\ UNCHANGED worker

\* Mutant: notify_one in the destructor.
DestroyNotifyOne ==
    /\ OwnerStep("notifyAll", "join")
    /\ \/ In("asleep") = {} /\ UNCHANGED worker
       \/ \E w \in In("asleep") : worker' = [worker EXCEPT ![w] = "test"]
    /\ UNCHANGED stop

DestroyNotify ==
    /\ OwnerStep("notifyAll", "join")
    /\ worker' = [w \in Workers |-> IF worker[w] = "asleep" THEN "test" ELSE worker[w]]
    /\ UNCHANGED stop

DestroyJoined ==
    OwnerStep("join", "gone") /\ In("exited") = Workers /\ UNCHANGED <<stop, worker>>

WorkerStep(w) == Sleep(w) \/ Exit(w) \/ Take(w)

OwnerProgress == WaitSleep \/ WaitReturn \/ DestroyNotify \/ DestroyJoined

PoolNext ==
    \/ \E a \in Threads : NotifyOne(a) \/ \E t \in Tasks : enqueueTask(a, t)
    \/ \E w \in Workers : WorkerStep(w) \/ WakeSpuriously(w) \/ Finish(w)
    \/ WaitCall \/ WaitSpurious \/ DestroyStop \/ OwnerProgress

PoolSpec == PoolInit /\ [][PoolNext]_poolVars

\* Threads are scheduled and tasks return; nobody has to call wait or the
\* destructor.
PoolFairness ==
    /\ \A w \in Workers : WF_poolVars(WorkerStep(w)) /\ WF_poolVars(Finish(w))
    /\ \A a \in Threads : WF_poolVars(NotifyOne(a))
    /\ WF_poolVars(OwnerProgress)

FairPoolSpec == PoolSpec /\ PoolFairness

-----------------------------------------------------------------------------
\* Every variable of the pool has its type.
PoolTypeOK ==
    /\ tasks \in Seq(Tasks)
    /\ stop \in BOOLEAN
    /\ activeTasks \in Nat
    /\ worker \in [Workers -> {"test", "asleep", "run", "exited"}]
    /\ running \in [Workers -> Tasks \cup {None}]
    /\ toNotify \subseteq Threads
    /\ owner \in {"run", "waitTest", "waitAsleep", "notifyAll", "join", "gone"}
    /\ submitted \subseteq Tasks /\ finished \subseteq Tasks

\* Each enqueued task is run by one worker, once: it is in one place of the
\* queue, with one worker, or finished, and nowhere else.
RunsOnce ==
    \A t \in submitted :
        Cardinality({i \in DOMAIN tasks : tasks[i] = t})
          + Cardinality({w \in Workers : running[w] = t})
          + (IF t \in finished THEN 1 ELSE 0) = 1

\* No wake-up is lost: for every queued task there is a worker about to look
\* at the queue or a notification on its way, unless no worker is asleep.
\* Tasks that block rely on it: one awake worker would not be enough.
EnoughAwake ==
    Min({Len(tasks), Cardinality(In("asleep"))})
      <= Cardinality(toNotify) + Cardinality(In("test"))

\* wait returns only when every task enqueued so far has run to its end,
\* tasks enqueued by other tasks included.
WaitMeansIdle ==
    [][(owner = "waitTest" /\ owner' = "run") => submitted \subseteq finished]_poolVars

\* The destructor drops no task: workers drain the queue before they exit.
DrainedAtExit == owner = "gone" => submitted = finished

\* The invariant of the pool: each task is run once, no wake-up is lost and the
\* destructor leaves no task behind.
SchedulerInv ==
    /\ PoolTypeOK
    /\ RunsOnce
    /\ EnoughAwake
    /\ DrainedAtExit

\* Every enqueued task is eventually run.
AllTasksRun == \A t \in Tasks : t \in submitted ~> t \in finished

\* wait and the destructor return.
OwnerReturns == owner \notin {"run", "gone"} ~> owner \in {"run", "gone"}
=============================================================================
