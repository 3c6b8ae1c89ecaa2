---------------------------- MODULE AsyncRuntime ----------------------------
(***************************************************************************)
(* The async runtime (multithreading/AsyncRuntime.cpp): reference-counted    *)
(* tokens and one group.  A token becomes available or an error when its     *)
(* task ends; a group counts the tokens it still waits for.  A token that is *)
(* added to the group before it is ready registers an awaiter, which the     *)
(* thread that emplaces the token runs with token->mu held.                  *)
(*                                                                         *)
(* The operations are actions of the thread that calls them; a program       *)
(* composes them (AsyncForall).  Everything in the group is touched under    *)
(* group->mu, which no thread holds while it waits for anything, so a        *)
(* section under it is part of one step.  token->mu is held across the steps *)
(* of setTokenState and is a field.  A failed assert does not stop the       *)
(* model, as in a build with NDEBUG.                                        *)
(***************************************************************************)
EXTENDS Integers

CONSTANTS AsyncTokens, NoThread

VARIABLES
    token,      \* state, refCount, mu, awaiter of each token
    group       \* pendingTokens, numErrors, refCount

asyncVars == <<token, group>>

Unborn == [state |-> "none", refCount |-> 0, mu |-> NoThread, awaiter |-> FALSE]

AsyncInit ==
    /\ token = [t \in AsyncTokens |-> Unborn]
    /\ group = [pendingTokens |-> 0, numErrors |-> 0, refCount |-> 0]

isAvailableOrError(t) == token[t].state \in {"available", "error"}

-----------------------------------------------------------------------------
\* Two references: the caller's and that of the task that will emplace it.
CreateToken(t) ==
    /\ token' = [token EXCEPT ![t] = [Unborn EXCEPT !.state = "unavailable", !.refCount = 2]]
    /\ UNCHANGED group

CreateGroup(size) ==
    /\ group' = [group EXCEPT !.pendingTokens = size, !.refCount = 1]
    /\ UNCHANGED token

dropTokenRef(t) ==
    /\ token' = [token EXCEPT ![t].refCount = @ - 1]
    /\ UNCHANGED group

dropGroupRef ==
    /\ group' = [group EXCEPT !.refCount = @ - 1]
    /\ UNCHANGED token

\* onTokenReady: the group once token t is counted.
onTokenReady(t) ==
    [group EXCEPT !.numErrors = @ + (IF token[t].state = "error" THEN 1 ELSE 0),
                  !.pendingTokens = @ - 1]

\* It calls cv.notify_all for the last pending token.
NotifiesGroup == group.pendingTokens = 1 /\ group'.pendingTokens = 0

\* Mutant: the awaiter does not keep the group alive.
AddTokenToGroupNoRef(t) ==
    /\ token[t].mu = NoThread
    /\ IF isAvailableOrError(t)
       THEN group' = onTokenReady(t) /\ UNCHANGED token
       ELSE /\ token' = [token EXCEPT ![t].awaiter = TRUE]
            /\ UNCHANGED group

\* Mutant: a token that is ready already is not counted.
AddTokenToGroupOnlyPending(t) ==
    /\ token[t].mu = NoThread
    /\ IF isAvailableOrError(t)
       THEN UNCHANGED asyncVars
       ELSE /\ group' = [group EXCEPT !.refCount = @ + 1]
            /\ token' = [token EXCEPT ![t].awaiter = TRUE]

\* Count the token now, or register an awaiter that holds a reference to the
\* group.
AddTokenToGroup(t) ==
    /\ token[t].mu = NoThread
    /\ IF isAvailableOrError(t)
       THEN group' = onTokenReady(t) /\ UNCHANGED token
       ELSE /\ group' = [group EXCEPT !.refCount = @ + 1]
            /\ token' = [token EXCEPT ![t].awaiter = TRUE]

\* setTokenState: take token->mu and set the state.
SetState(th, t, state) ==
    /\ token[t].mu = NoThread
    /\ token' = [token EXCEPT ![t].mu = th, ![t].state = state]
    /\ UNCHANGED group

\* Its awaiter, which locks the group, counts and unlocks it.
RunAwaiter(t) ==
    /\ group' = onTokenReady(t)
    /\ UNCHANGED token

\* Mutant: the awaiter keeps its reference.
LeaveAwaitersKeepsRef(t) ==
    /\ token' = [token EXCEPT ![t].mu = NoThread]
    /\ UNCHANGED group

\* The awaiter's dropRef, and the end of the scope that holds token->mu.
LeaveAwaiters(t) ==
    /\ token' = [token EXCEPT ![t].mu = NoThread]
    /\ group' = IF token[t].awaiter THEN [group EXCEPT !.refCount = @ - 1] ELSE group

\* AwaitAllInGroup: its test under group->mu.
AwaitAllDone == group.pendingTokens = 0

IsGroupError == group.numErrors > 0

\* numRefCountedObjects: what was created and not destroyed.
getNumRefCountedObjects ==
    <<{t \in AsyncTokens : token[t].refCount > 0}, group.refCount > 0>>
=============================================================================
