----------------------------- MODULE WorkerPool -----------------------------
(***************************************************************************)
(* WorkerPoolManager and its WorkerThreads (mtfoundation/ThreadPools.cpp,  *)
(* WPMStatHandler.cpp, the running state of Threads.cpp): callers hand     *)
(* requests to ready workers with Enter, a controlling thread blocks the   *)
(* pool, waits until it is empty, terminates and re-creates it.            *)
(*                                                                         *)
(* SetRunningState tells the observing manager with fStateMutex held, so a *)
(* change of the running state and of the request counter is one step.     *)
(***************************************************************************)
EXTENDS ThreadStates, FiniteSets

CONSTANTS N,             \* GetPoolSize()
          Callers,       \* the threads that call Enter
          MaxRequests,   \* bound: how many requests come in
          Nobody         \* fMutex is free

Workers  == 1..N
Requests == 1..MaxRequests
NoReq    == 0

ASSUME WorkerPoolAssumption ==
  N \in Nat \ {0} /\ MaxRequests \in Nat /\ Nobody \notin Callers

VARIABLES fState,          \* of each worker: Thread::fState
          fRunningState,   \* of each worker: "eReady" or "eWorking"
          run,             \* of each worker: where it is in Run
          fClientSocket,   \* of each worker: the request it was given
          fCurrentParallelRequests,
          fBlockRequestHandling,
          fMutex,          \* the caller that holds WorkerPoolManager::fMutex
          enter,           \* of each caller: where it is in Enter
          workload, hr,    \* of each caller: its request, the worker it found
          done,            \* requests whose processing has ended
          aborted          \* requests whose stream was given the bad bit

workerVars == <<fState, fRunningState, run, fClientSocket, fCurrentParallelRequests, done, aborted>>
enterVars  == <<fMutex, enter, workload, hr>>
poolVars   == <<workerVars, fBlockRequestHandling, enterVars>>

PoolTypeOK ==
  /\ fState \in [Workers -> EThreadState]
  /\ fRunningState \in [Workers -> {"eReady", "eWorking"}]
  /\ run \in [Workers -> {"check", "process", "setready", "over"}]
  /\ fClientSocket \in [Workers -> Requests \cup {NoReq}]
  /\ fCurrentParallelRequests \in 0..N
  /\ fBlockRequestHandling \in BOOLEAN
  /\ fMutex \in Callers \cup {Nobody}
  /\ enter \in [Callers -> {"out", "check", "find", "set"}]
  /\ workload \in [Callers -> Requests \cup {NoReq}]
  /\ hr \in [Callers -> Workers]
  /\ done \subseteq Requests /\ aborted \subseteq Requests

\* A pool whose workers have been allocated and started.
PoolInit ==
  /\ fState = [w \in Workers |-> eRunning]
  /\ fRunningState = [w \in Workers |-> "eReady"]
  /\ run = [w \in Workers |-> "check"]
  /\ fClientSocket = [w \in Workers |-> NoReq]
  /\ fCurrentParallelRequests = 0
  /\ fBlockRequestHandling = FALSE
  /\ fMutex = Nobody
  /\ enter = [c \in Callers |-> "out"]
  /\ workload = [c \in Callers |-> NoReq]
  /\ hr = [c \in Callers |-> 1]
  /\ done = {} /\ aborted = {}

----------------------------------------------------------------------------
(* The running state.                                                      *)

\* Whether SetRunningState(state) changes anything.
SetRunningStateOk(w, state) == fState[w] = eRunning /\ fRunningState[w] # state

\* Update and DoHandleStatEvt: eEnter or eLeave.
HandleStatEvt(state) ==
  fCurrentParallelRequests' = fCurrentParallelRequests + (IF state = "eWorking" THEN 1 ELSE -1)

\* SetRunningState with its broadcast to the manager.
SetRunningState(w, state) ==
  IF SetRunningStateOk(w, state)
    THEN /\ fRunningState' = [fRunningState EXCEPT ![w] = state]
         /\ HandleStatEvt(state)
    ELSE UNCHANGED <<fRunningState, fCurrentParallelRequests>>

----------------------------------------------------------------------------
(* WorkerThread::Run.                                                      *)

RunGoto(w, pc) == run' = [run EXCEPT ![w] = pc]

\* CheckRunningState(eWorking) returns true ...
CheckRunningState(w) ==
  /\ run[w] = "check" /\ fState[w] = eRunning /\ fRunningState[w] = "eWorking"
  /\ RunGoto(w, "process")
  /\ UNCHANGED <<fState, fRunningState, fClientSocket, fCurrentParallelRequests, done, aborted,
                 fBlockRequestHandling, enterVars>>

\* ... or false: the thread leaves Run, IntRun and Exit.
LeaveRun(w) ==
  /\ run[w] = "check" /\ fState[w] = eTerminationRequested
  /\ RunGoto(w, "over")
  /\ fState' = [fState EXCEPT ![w] = eTerminated]
  /\ UNCHANGED <<fRunningState, fClientSocket, fCurrentParallelRequests, done, aborted,
                 fBlockRequestHandling, enterVars>>

\* DoProcessWorkload: the request is processed, up to a bad bit on its stream,
\* and its socket deleted.
DoProcessWorkload(w) ==
  /\ run[w] = "process"
  /\ done' = done \cup {fClientSocket[w]}
  /\ fClientSocket' = [fClientSocket EXCEPT ![w] = NoReq]
  /\ RunGoto(w, "setready")
  /\ UNCHANGED <<fState, fRunningState, fCurrentParallelRequests, aborted,
                 fBlockRequestHandling, enterVars>>

\* SetReady()
SetReady(w) ==
  /\ run[w] = "setready"
  /\ SetRunningState(w, "eReady")
  /\ RunGoto(w, "check")
  /\ UNCHANGED <<fState, fClientSocket, done, aborted, fBlockRequestHandling, enterVars>>

WorkerStep(w) == CheckRunningState(w) \/ LeaveRun(w) \/ DoProcessWorkload(w) \/ SetReady(w)

----------------------------------------------------------------------------
(* Enter and FindNextRunnable.                                             *)

\* Enter(workload): the caller goes for fMutex.
Enter(c, r) ==
  /\ enter[c] = "out"
  /\ enter' = [enter EXCEPT ![c] = "check"]
  /\ workload' = [workload EXCEPT ![c] = r]
  /\ UNCHANGED <<workerVars, fBlockRequestHandling, fMutex, hr>>

\* Mutant: a blocked pool takes requests.
MayPassUnblocked == fCurrentParallelRequests < N

\* The loop of FindNextRunnable is left.
MayPass == fCurrentParallelRequests < N /\ ~fBlockRequestHandling

\* Until then fMutex is free: the caller is in TimedWait or waits for it.
EnterPasses(c) ==
  /\ enter[c] = "check" /\ fMutex = Nobody /\ MayPass
  /\ fMutex' = c
  /\ enter' = [enter EXCEPT ![c] = "find"]
  /\ UNCHANGED <<workerVars, fBlockRequestHandling, workload, hr>>

\* Mutant: the worker at the hint is taken as it is.
FindNextRunnableAny(c) ==
  /\ enter[c] = "find"
  /\ \E w \in Workers : hr' = [hr EXCEPT ![c] = w]
  /\ enter' = [enter EXCEPT ![c] = "set"]
  /\ UNCHANGED <<workerVars, fBlockRequestHandling, fMutex, workload>>

\* The search, from the hint on, round and round until a worker is ready.
FindNextRunnable(c) ==
  /\ enter[c] = "find"
  /\ \E w \in Workers :
       /\ fState[w] = eRunning /\ fRunningState[w] = "eReady"
       /\ hr' = [hr EXCEPT ![c] = w]
  /\ enter' = [enter EXCEPT ![c] = "set"]
  /\ UNCHANGED <<workerVars, fBlockRequestHandling, fMutex, workload>>

\* hr->SetWorking(workload), with DoWorkingHook; fMutex is released.
EnterWorking(c) ==
  /\ enter[c] = "set"
  /\ SetRunningState(hr[c], "eWorking")
  /\ fClientSocket' = IF SetRunningStateOk(hr[c], "eWorking")
                        THEN [fClientSocket EXCEPT ![hr[c]] = workload[c]] ELSE fClientSocket
  /\ fMutex' = Nobody
  /\ enter' = [enter EXCEPT ![c] = "out"]
  /\ workload' = [workload EXCEPT ![c] = NoReq]
  /\ UNCHANGED <<fState, run, done, aborted, fBlockRequestHandling, hr>>

EnterStep(c) == EnterPasses(c) \/ FindNextRunnable(c) \/ EnterWorking(c)

----------------------------------------------------------------------------
(* Control of the pool.                                                    *)

\* BlockRequests and UnblockRequests hold fMutex for the assignment.
SetBlock(b) ==
  /\ fMutex = Nobody
  /\ fBlockRequestHandling' = b
  /\ UNCHANGED <<workerVars, enterVars>>

\* AwaitEmpty sees no request.
Empty == fCurrentParallelRequests <= 0

\* AwaitEmpty gives up.  It waits for seconds: by then every worker that was
\* given a request has woken up, and what is left are requests that take long.
AwaitGivesUp ==
  /\ ~Empty
  /\ \A w \in Workers : ~(run[w] = "check" /\ fClientSocket[w] # NoReq)

\* Thread::Terminate of one worker: the request.  DoTerminationRequestHook sets
\* the bad bit on the stream of a request that is still with the worker.
TerminateWorker(w) ==
  /\ fState' = [fState EXCEPT ![w] = AfterSetState(@, eTerminationRequested, FALSE)]
  /\ aborted' = aborted \cup ({fClientSocket[w]} \ {NoReq})
  /\ UNCHANGED <<fRunningState, run, fClientSocket, fCurrentParallelRequests, done,
                 fBlockRequestHandling, enterVars>>

\* The end of Terminate's wait for eTerminated.
Terminated(w) == fState[w] = eTerminated

\* DoDeletePool: the destructor of each thread waits until it is terminated.
MayDelete == \A w \in Workers : Terminated(w)

\* DoDeletePool and DoAllocPool: new workers that are not started yet.
AllocPool ==
  /\ fState' = [w \in Workers |-> eCreated]
  /\ fRunningState' = [w \in Workers |-> "eReady"]
  /\ run' = [w \in Workers |-> "over"]
  /\ fClientSocket' = [w \in Workers |-> NoReq]
  /\ UNCHANGED <<fCurrentParallelRequests, done, aborted, fBlockRequestHandling, enterVars>>

\* Start of the workers, whose result InitPool does not look at: without an
\* allocator the thread is terminated at once and CheckState(eRunning) returns.
StartAll(states) ==
  /\ fState' = states
  /\ run' = [w \in Workers |-> IF states[w] = eRunning THEN "check" ELSE "over"]
  /\ UNCHANGED <<fRunningState, fClientSocket, done, aborted, fBlockRequestHandling, enterVars>>

\* InitPool: the workers are started, and a new WPMStatHandler counts from 0.
InitPool ==
  /\ \E states \in [Workers -> {eRunning, eTerminated}] : StartAll(states)
  /\ fCurrentParallelRequests' = 0

\* InitPool with a worker i whose system thread cannot be created: its state
\* stays eStartRequested and CheckState(eRunning) has no timeout.
InitPoolHangs ==
  /\ \E i \in Workers, states \in [Workers -> {eRunning, eTerminated}] :
       StartAll([w \in Workers |-> IF w < i THEN states[w]
                                   ELSE IF w = i THEN eStartRequested ELSE eCreated])
  /\ UNCHANGED fCurrentParallelRequests
=============================================================================
