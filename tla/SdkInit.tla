-------------------------------- MODULE SdkInit --------------------------------
(***************************************************************************)
(* The start of the SDK: InitVbhSdk, called by any number of threads of    *)
(* the application, starts one detached thread (ThreadFunction) that       *)
(* initialises the framework with its services and then runs its loop;     *)
(* the caller waits on an event that lives, with the parameters of the new *)
(* thread, on the caller's stack. FnitVbhSdk ends the loop.                *)
(***************************************************************************)
EXTENDS Integers

CONSTANTS
  Threads,  \* application threads, each calling InitVbhSdk once
  AppID,    \* the nAppID they pass, a 16-bit integer
  NULL

\* A failure is told to the caller by setting the id to -1: with -1 as the id
\* of the application, every failure would look like a success.
ASSUME AppIDAssumption == AppID \in -32768 .. 32767 /\ AppID # -1

ASSUME NullAssumption == NULL \notin {"ok", "failed"}

VARIABLES
  m_lock,     \* the spin lock
  m_bInited,  \* "InitVbhSdk has been called"
  pc,         \* where each caller is
  ret,        \* what InitVbhSdk returned to it: 0 ("ok"), -1 ("failed") or NULL
  param,      \* param.m_nAppID on each caller's stack: AppID or -1
  event,      \* the callers whose param.m_event, on their stack, is signalled
  worker,     \* where the thread that each caller spawned is
  inited,     \* CSdkAppManager::Init has succeeded
  exited      \* SetAppExited has been called

vars == <<m_lock, m_bInited, pc, ret, param, event, worker, inited, exited>>

callerVars == <<m_lock, m_bInited, pc, ret>>
workerVars == <<param, event, worker, inited, exited>>

Init ==
  /\ m_lock = FALSE /\ m_bInited = FALSE
  /\ pc = [t \in Threads |-> "spin"]
  /\ ret = [t \in Threads |-> NULL]
  /\ param = [t \in Threads |-> AppID]
  /\ event = {}
  /\ worker = [t \in Threads |-> "none"]
  /\ inited = FALSE /\ exited = FALSE

Goto(t, from, to) == pc[t] = from /\ pc' = [pc EXCEPT ![t] = to]

Return(t, from, value) == Goto(t, from, "done") /\ ret' = [ret EXCEPT ![t] = value]
-----------------------------------------------------------------------------
(* InitVbhSdk. *)

MutantTestAndSet(t) ==
  /\ Goto(t, "spin", "check")
  /\ m_lock' = TRUE
  /\ UNCHANGED <<m_bInited, ret, workerVars>>

TestAndSet(t) ==
  /\ ~m_lock
  /\ Goto(t, "spin", "check")
  /\ m_lock' = TRUE
  /\ UNCHANGED <<m_bInited, ret, workerVars>>

CheckInited(t) ==
  /\ Goto(t, "check", IF m_bInited THEN "repeated" ELSE "first")
  /\ UNCHANGED <<m_lock, m_bInited, ret, workerVars>>

\* A repeated call is done, whatever became of the first one.
MutantRepeatedCall(t) ==
  /\ Return(t, "repeated", "ok")
  /\ UNCHANGED <<m_lock, m_bInited, workerVars>>

RepeatedCall(t) ==
  /\ Return(t, "repeated", "ok")
  /\ m_lock' = FALSE
  /\ UNCHANGED <<m_bInited, workerVars>>

SetInited(t) ==
  /\ Goto(t, "first", "clear")
  /\ m_bInited' = TRUE
  /\ UNCHANGED <<m_lock, ret, workerVars>>

ClearLock(t) ==
  /\ Goto(t, "clear", "spawn")
  /\ m_lock' = FALSE
  /\ UNCHANGED <<m_bInited, ret, workerVars>>

Spawn(t) ==
  /\ Goto(t, "spawn", "wait")
  /\ worker' = [worker EXCEPT ![t] = "init"]
  /\ UNCHANGED <<m_lock, m_bInited, ret, param, event, inited, exited>>

MutantSpawnFails(t) ==
  /\ Goto(t, "spawn", "done")
  /\ UNCHANGED <<m_lock, m_bInited, ret, workerVars>>

SpawnFails(t) ==
  /\ Return(t, "spawn", "failed")
  /\ UNCHANGED <<m_lock, m_bInited, workerVars>>

\* The application id tells the outcome once the event is signalled.
Outcome(t) == IF param[t] = AppID THEN "ok" ELSE "failed"

MutantAwait(t) ==
  /\ Return(t, "wait", Outcome(t))
  /\ UNCHANGED <<m_lock, m_bInited, workerVars>>

Await(t) ==
  /\ t \in event
  /\ Return(t, "wait", Outcome(t))
  /\ UNCHANGED <<m_lock, m_bInited, workerVars>>
-----------------------------------------------------------------------------
(* ThreadFunction, spawned by t. *)

Work(t, from, to) == worker[t] = from /\ worker' = [worker EXCEPT ![t] = to]

InitApp(t) ==
  /\ Work(t, "init", "ready")
  /\ inited' = TRUE
  /\ UNCHANGED <<callerVars, param, event, exited>>

\* WORK_ROOT is not set, or CSdkAppManager::Init fails.
InitAppFails(t) ==
  /\ Work(t, "init", "failing")
  /\ UNCHANGED <<callerVars, param, event, inited, exited>>

\* The order of the two last steps of a failure, swapped.
MutantFail(t) ==
  /\ Work(t, "failing", "failed")
  /\ event' = event \cup {t}
  /\ UNCHANGED <<callerVars, param, inited, exited>>

Fail(t) ==
  /\ Work(t, "failing", "failed")
  /\ param' = [param EXCEPT ![t] = -1]
  /\ UNCHANGED <<callerVars, event, inited, exited>>

Signal(t) ==
  /\ Work(t, "ready", "loop") \/ Work(t, "failed", "done")
  /\ event' = event \cup {t}
  /\ UNCHANGED <<callerVars, param, inited, exited>>

Run_Loop_Ends(t) ==
  /\ exited
  /\ Work(t, "loop", "done")
  /\ UNCHANGED <<callerVars, param, event, inited, exited>>

FnitVbhSdk(t) ==
  /\ pc[t] = "done" /\ ret[t] = "ok" /\ ~exited
  /\ exited' = TRUE
  /\ UNCHANGED <<callerVars, param, event, worker, inited>>
-----------------------------------------------------------------------------
InitVbhSdk(t) ==
  \/ TestAndSet(t) \/ CheckInited(t) \/ RepeatedCall(t) \/ SetInited(t)
  \/ ClearLock(t) \/ Spawn(t) \/ SpawnFails(t) \/ Await(t)

ThreadFunction(t) ==
  InitApp(t) \/ InitAppFails(t) \/ Fail(t) \/ Signal(t) \/ Run_Loop_Ends(t)

Next == \E t \in Threads : InitVbhSdk(t) \/ ThreadFunction(t) \/ FnitVbhSdk(t)

Spec == Init /\ [][Next]_vars

\* The operating system runs every thread that can take a step.
FairSpec ==
  Spec /\ \A t \in Threads : WF_vars(InitVbhSdk(t)) /\ WF_vars(ThreadFunction(t))
-----------------------------------------------------------------------------
\* The types of the variables; a caller has a result once it is done.
PCs == {"spin", "check", "repeated", "first", "clear", "spawn", "wait", "done"}

WorkerPCs == {"none", "init", "ready", "failing", "failed", "loop", "done"}

TypeOK ==
  /\ m_lock \in BOOLEAN /\ m_bInited \in BOOLEAN
  /\ inited \in BOOLEAN /\ exited \in BOOLEAN
  /\ pc \in [Threads -> PCs]
  /\ ret \in [Threads -> {"ok", "failed", NULL}]
  /\ param \in [Threads -> {AppID, -1}]
  /\ event \in SUBSET Threads
  /\ worker \in [Threads -> WorkerPCs]
  /\ \A t \in Threads : pc[t] = "done" <=> ret[t] # NULL

\* However many threads call InitVbhSdk at once, one of them at most starts
\* the framework: the test of m_bInited and its setting are one step to the
\* others.
OneService ==
  \A t, u \in Threads : worker[t] # "none" /\ worker[u] # "none" => t = u

\* As long as the new thread still has to read, write or signal what lies on
\* its creator's stack, the creator is waiting and its stack frame is there.
ParamAlive ==
  \A t \in Threads :
    worker[t] \in {"init", "ready", "failing", "failed"} => pc[t] = "wait"

\* The caller that started the framework is told what became of it.
CreatorToldTheOutcome ==
  \A t \in Threads :
    (pc[t] = "done" /\ worker[t] # "none") => (ret[t] = "ok" <=> inited)

\* The inductive invariant behind the three: the lock is held exactly while
\* a caller is in the critical section; the flag tells whether a caller has
\* set it; one caller at most sets it; and the state of a caller and of the
\* thread it has created fit.
InLock(t) == pc[t] \in {"check", "repeated", "first", "clear"}

MutualExclusion ==
  /\ \A t \in Threads : InLock(t) => m_lock
  /\ \A t, u \in Threads : InLock(t) /\ InLock(u) => t = u

Started(t) == pc[t] \in {"clear", "spawn", "wait"} \/ worker[t] # "none"

FlagTold ==
  \A t \in Threads :
    /\ (Started(t) \/ pc[t] = "repeated") => m_bInited
    /\ pc[t] = "first" => ~m_bInited

Creators == \A t, u \in Threads : Started(t) /\ Started(u) => t = u

\* At most one caller starts a thread, and only that thread initialises.
InitedByWorker == inited => \E t \in Threads : worker[t] # "none"

Fits(t) ==
  /\ worker[t] = "none" => t \notin event /\ param[t] = AppID
  /\ worker[t] # "none" => pc[t] \in {"wait", "done"}
  /\ pc[t] = "wait" => worker[t] # "none"
  /\ (worker[t] # "none" /\ t \notin event) => pc[t] = "wait"
  /\ t \in event <=> worker[t] \in {"loop", "done"}
  /\ worker[t] \in {"init", "failing", "failed"} => ~inited
  /\ worker[t] \in {"ready", "loop"} => inited
  /\ (worker[t] \in {"failed", "done"} /\ ~inited) <=> param[t] = -1
  /\ (worker[t] # "none" /\ pc[t] = "done") => (ret[t] = "ok" <=> inited)

Handshake == \A t \in Threads : Fits(t)

IInv ==
  TypeOK /\ MutualExclusion /\ FlagTold /\ Creators /\ InitedByWorker /\ Handshake

\* Every call returns: no caller spins or waits for ever.
EveryCallReturns == \A t \in Threads : <>(pc[t] = "done")

\* "Initialise the SDK": a caller that is told so finds it initialised.
OkMeansInitialised == \A t \in Threads : ret[t] = "ok" => inited
=============================================================================
