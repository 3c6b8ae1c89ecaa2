----------------------------- MODULE AsyncForall -----------------------------
(***************************************************************************)
(* The program formAsyncThreads makes of a one-dimensional scf.forall, on    *)
(* the async runtime and the thread pool: the main thread creates a group of *)
(* ub / step tokens, starts one task per iteration, adds its token to the    *)
(* group and waits for the group; each task runs its body and emplaces its   *)
(* token.  At process exit ~AsyncRuntime waits for the pool, asserts that    *)
(* every object was released, and destroys the pool.                        *)
(*                                                                         *)
(* A task is its iteration: Tasks = AsyncTokens = the induction values.      *)
(***************************************************************************)
EXTENDS HexagonThreadPool, AsyncRuntime

CONSTANTS
    lb, ub, step    \* bounds and step of the scf.forall

\* The iterations of scf.for with these bounds.
Iterations == {iv \in lb .. ub - 1 : (iv - lb) % step = 0}

ASSUME ForallAssumption ==
    /\ lb \in Nat /\ ub \in Nat /\ step \in Nat \ {0}
    /\ Tasks = Iterations /\ AsyncTokens = Iterations
    /\ NoThread \notin Threads

VARIABLES
    main,       \* where the main thread is
    iv,         \* its induction variable
    task,       \* where each worker is in the coroutine it runs
    bodies,     \* history: iterations whose body has run
    sawError,   \* what IsGroupError returned after the wait
    dropsRefs   \* does this program release the references it was given (the
                \* pipeline runs no reference-counting pass, other clients do)

program == <<main, iv, task, bodies, sawError, dropsRefs>>
vars == <<poolVars, asyncVars, program>>

\* Mutant: the last iteration is not counted.
nThreadsLow == (ub - 1) \div step

\* arith.divui of the upper bound by the step.
nThreads == ub \div step

Init ==
    /\ PoolInit /\ AsyncInit
    /\ main = "createGroup" /\ iv = lb
    /\ task = [w \in Workers |-> "none"]
    /\ bodies = {} /\ sawError = FALSE
    /\ dropsRefs \in BOOLEAN

-----------------------------------------------------------------------------
MainAt(from, to) ==
    /\ main = from /\ owner = "run" /\ Main \notin toNotify
    /\ main' = to
    /\ UNCHANGED <<task, bodies, dropsRefs>>

MainCreateGroup ==
    /\ MainAt("createGroup", "loop")
    /\ CreateGroup(nThreads)
    /\ UNCHANGED <<poolVars, iv, sawError>>

\* The call of the outlined coroutine: its token.
MainCreateToken ==
    /\ MainAt("loop", "execute") /\ iv < ub
    /\ CreateToken(iv)
    /\ UNCHANGED <<poolVars, iv, sawError>>

\* mlirAsyncRuntimeExecute.
MainExecute ==
    /\ MainAt("execute", "add")
    /\ enqueueTask(Main, iv)
    /\ UNCHANGED <<asyncVars, iv, sawError>>

MainAddToGroup ==
    /\ MainAt("add", IF dropsRefs THEN "dropToken" ELSE "loop")
    /\ AddTokenToGroup(iv)
    /\ iv' = IF dropsRefs THEN iv ELSE iv + step
    /\ UNCHANGED <<poolVars, sawError>>

MainDropToken ==
    /\ MainAt("dropToken", "loop")
    /\ dropTokenRef(iv)
    /\ iv' = iv + step
    /\ UNCHANGED <<poolVars, sawError>>

\* AwaitAllInGroup.
MainAwait ==
    /\ MainAt("loop", IF AwaitAllDone THEN "joined" ELSE "asleep") /\ iv >= ub
    /\ UNCHANGED <<poolVars, asyncVars, iv, sawError>>

\* Woken by group->cv, or spuriously: test again.
MainWake ==
    /\ MainAt("asleep", "loop")
    /\ UNCHANGED <<poolVars, asyncVars, iv, sawError>>

MainCheckError ==
    /\ MainAt("joined", IF dropsRefs THEN "dropGroup" ELSE "exit")
    /\ sawError' = IsGroupError
    /\ UNCHANGED <<poolVars, asyncVars, iv>>

MainDropGroup ==
    /\ MainAt("dropGroup", "exit")
    /\ dropGroupRef
    /\ UNCHANGED <<poolVars, iv, sawError>>

\* ~AsyncRuntime: threadPool.wait(), the assert, the pool's destructor.
MainShutdown ==
    /\ main = "exit"
    /\ WaitCall /\ main' = "exitWait"
    /\ UNCHANGED <<asyncVars, iv, task, bodies, sawError, dropsRefs>>

MainWait ==
    /\ main = "exitWait"
    /\ \/ (WaitSleep \/ WaitSpurious) /\ UNCHANGED main
       \/ WaitReturn /\ main' = "assert"
    /\ UNCHANGED <<asyncVars, iv, task, bodies, sawError, dropsRefs>>

MainDestroyPool ==
    /\ main = "assert"
    /\ DestroyStop \/ DestroyNotify \/ DestroyJoined
    /\ UNCHANGED <<asyncVars, program>>

MainNotify ==
    /\ NotifyOne(Main)
    /\ UNCHANGED <<asyncVars, program>>

-----------------------------------------------------------------------------
TaskAt(w, from, to) ==
    /\ task[w] = from
    /\ task' = [task EXCEPT ![w] = to]
    /\ UNCHANGED <<iv, sawError, dropsRefs>>

\* group->cv.notify_all: the main thread, if it sleeps there, wakes.
WakeMain == main' = IF main = "asleep" /\ NotifiesGroup THEN "loop" ELSE main

WorkerTake(w) ==
    /\ Take(w) /\ TaskAt(w, "none", "body")
    /\ UNCHANGED <<asyncVars, main, bodies>>

TaskBody(w) ==
    /\ TaskAt(w, "body", "emplace")
    /\ bodies' = bodies \cup {running[w]}
    /\ UNCHANGED <<poolVars, asyncVars, main>>

\* The coroutine ends with EmplaceToken, or SetTokenError when its body failed.
TaskEmplace(w) ==
    /\ TaskAt(w, "emplace", IF token[running[w]].awaiter THEN "awaiter" ELSE "leave")
    /\ \E state \in {"available", "error"} : SetState(w, running[w], state)
    /\ UNCHANGED <<poolVars, main, bodies>>

TaskAwaiter(w) ==
    /\ TaskAt(w, "awaiter", "leave")
    /\ RunAwaiter(running[w])
    /\ WakeMain
    /\ UNCHANGED <<poolVars, bodies>>

TaskLeave(w) ==
    /\ TaskAt(w, "leave", "dropToken")
    /\ LeaveAwaiters(running[w])
    /\ UNCHANGED <<poolVars, main, bodies>>

TaskDropToken(w) ==
    /\ TaskAt(w, "dropToken", "end")
    /\ dropTokenRef(running[w])
    /\ UNCHANGED <<poolVars, main, bodies>>

WorkerFinish(w) ==
    /\ Finish(w) /\ TaskAt(w, "end", "none")
    /\ UNCHANGED <<asyncVars, main, bodies>>

WorkerIdle(w) ==
    /\ Sleep(w) \/ Exit(w)
    /\ UNCHANGED <<asyncVars, program>>

WorkerSpurious(w) ==
    /\ WakeSpuriously(w)
    /\ UNCHANGED <<asyncVars, program>>

-----------------------------------------------------------------------------
MainStep ==
    \/ MainCreateGroup \/ MainCreateToken \/ MainExecute \/ MainNotify
    \/ MainAddToGroup \/ MainDropToken \/ MainAwait \/ MainCheckError
    \/ MainDropGroup \/ MainShutdown \/ MainDestroyPool

WorkStep(w) ==
    \/ WorkerTake(w) \/ TaskBody(w) \/ TaskEmplace(w) \/ TaskAwaiter(w)
    \/ TaskLeave(w) \/ TaskDropToken(w) \/ WorkerFinish(w) \/ WorkerIdle(w)

Ended == owner = "gone" /\ UNCHANGED vars

Next ==
    \/ MainStep \/ MainWait \/ MainWake \/ Ended
    \/ \E w \in Workers : WorkStep(w) \/ WorkerSpurious(w)

Spec == Init /\ [][Next]_vars

\* Every thread that can run is scheduled, bodies end, and condition
\* variables need not wake spuriously.
Fairness ==
    /\ WF_vars(MainStep)
    /\ WF_vars(MainWait)
    /\ \A w \in Workers : WF_vars(WorkStep(w))

FairSpec == Spec /\ Fairness

-----------------------------------------------------------------------------
\* Every variable of the program has its type, the pool's too.
TypeOK ==
    /\ PoolTypeOK
    /\ token \in [AsyncTokens -> [state : {"none", "unavailable", "available", "error"},
                                  refCount : Nat, mu : Workers \cup {NoThread},
                                  awaiter : BOOLEAN]]
    /\ group \in [pendingTokens : Int, numErrors : Nat, refCount : Nat]
    /\ main \in {"createGroup", "loop", "execute", "add", "dropToken", "asleep", "joined",
                 "dropGroup", "exit", "exitWait", "assert"}
    /\ iv \in Nat
    /\ task \in [Workers -> {"none", "body", "emplace", "awaiter", "leave", "dropToken", "end"}]
    /\ bodies \subseteq Iterations /\ sawError \in BOOLEAN /\ dropsRefs \in BOOLEAN

PastJoin == main \in {"joined", "dropGroup", "exit", "exitWait", "assert"}

\* AsyncRuntime.cpp on groups: "wait for the completion of all tokens or
\* values added to the group".  The code after the forall runs only when the
\* body of every iteration has run.
JoinMeansDone == PastJoin => bodies = Iterations

\* After the wait IsGroupError tells whether any task failed: the error is
\* counted before the token is, however late the token is added.
ErrorsReported ==
    main \in {"dropGroup", "exit", "exitWait", "assert"} =>
        (sawError <=> \E t \in AsyncTokens : token[t].state = "error")

UsesToken(w) == task[w] \in {"body", "emplace", "awaiter", "leave", "dropToken"}

\* No thread touches a token or the group after it was destroyed, and none
\* is destroyed while its mutex is held.
NoUseAfterFree ==
    /\ \A w \in Workers : UsesToken(w) => token[running[w]].refCount > 0
    /\ main \in {"execute", "add", "dropToken"} => token[iv].refCount > 0
    /\ \A w \in Workers : task[w] = "awaiter" => group.refCount > 0
    /\ \A w \in Workers : (task[w] = "leave" /\ token[running[w]].awaiter) => group.refCount > 0
    /\ main \in {"loop", "execute", "add", "dropToken", "asleep", "joined", "dropGroup"} =>
           group.refCount > 0

\* The assert of onTokenReady, "wrong group size": whoever is about to count
\* a token finds one pending.
GroupSizeAssertion ==
    /\ (main = "add" /\ Main \notin toNotify /\ isAvailableOrError(iv)) =>
           group.pendingTokens > 0
    /\ \A w \in Workers : task[w] = "awaiter" => group.pendingTokens > 0

\* The invariant of the runtime under a forall: nothing is used after it was
\* destroyed, no token is counted twice and no error is lost.
RuntimeInv ==
    /\ TypeOK
    /\ ErrorsReported
    /\ NoUseAfterFree
    /\ GroupSizeAssertion

\* The assert of ~AsyncRuntime, "all ref counted objects must be destroyed",
\* for a program that releases what it was given: the runtime itself keeps no
\* reference.
AllReleased == (main = "assert" /\ dropsRefs) => getNumRefCountedObjects = <<{}, FALSE>>

\* The forall ends and the process can shut down.
Terminates == <>(owner = "gone")
=============================================================================
