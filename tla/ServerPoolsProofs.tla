------------------------- MODULE ServerPoolsProofs -------------------------
(***************************************************************************)
(* Proofs about ServerPools for every number of listeners, workers,        *)
(* requests and SIGHUPs: a reinit meets no pending request and no accepted *)
(* request is lost or given to two workers.                                *)
(***************************************************************************)
EXTENDS ServerPools, FiniteSetTheorems, TLAPS

----------------------------------------------------------------------------
(* The inductive invariant.                                                *)

\* A caller past the loop of FindNextRunnable holds fMutex: there is one.
MutexHeld == \A c \in Callers : enter[c] \in {"find", "set"} => fMutex = c

\* A blocked pool has nobody past that loop.
BlockedNoEntry == fBlockRequestHandling => \A c \in Callers : enter[c] \notin {"find", "set"}

\* The worker that was found is still running and ready when it is given the
\* request, although the worker threads do not take fMutex.
FoundReady == \A c \in Callers :
  enter[c] = "set" => fState[hr[c]] = eRunning /\ fRunningState[hr[c]] = "eReady"

\* A listener has a request in hand as long as it is inside Enter.
InCallback == \A l \in Callers :
  (enter[l] # "out" <=> listen[l] = "callback") /\ (enter[l] # "out" <=> workload[l] # NoReq)

\* Where a worker with a request is, and what it is doing without one.
WorkersConsistent == \A w \in Workers :
  /\ fClientSocket[w] # NoReq => fRunningState[w] = "eWorking" /\ run[w] \in {"check", "process"}
  /\ run[w] = "check" /\ fClientSocket[w] # NoReq => fState[w] = eRunning
  /\ run[w] = "check" /\ fState[w] = eRunning /\ fRunningState[w] = "eWorking"
       => fClientSocket[w] # NoReq
  /\ run[w] = "process" => fClientSocket[w] # NoReq
  /\ run[w] = "setready" => fRunningState[w] = "eWorking"
  /\ run[w] = "over" => fState[w] # eRunning

Working == {w \in Workers : fRunningState[w] = "eWorking"}

\* What AwaitEmpty and FindNextRunnable look at is the number of working
\* workers, in every phase of a reinit.
RequestsCounted == fCurrentParallelRequests = Cardinality(Working)

\* Every accepted request is done, with one listener or with one worker.
HeldKnown ==
  /\ done \subseteq 1..accepted /\ aborted \subseteq 1..accepted
  /\ \A l \in Callers : workload[l] # NoReq => workload[l] \in (1..accepted) \ done
  /\ \A w \in Workers : fClientSocket[w] # NoReq => fClientSocket[w] \in (1..accepted) \ done

HeldApart ==
  /\ \A l, m \in Callers : workload[l] # NoReq /\ workload[l] = workload[m] => l = m
  /\ \A v, w \in Workers : fClientSocket[v] # NoReq /\ fClientSocket[v] = fClientSocket[w] => v = w
  /\ \A l \in Callers, w \in Workers : workload[l] # NoReq => workload[l] # fClientSocket[w]

NoneMissing == \A r \in 1..accepted :
  \/ r \in done
  \/ \E l \in Callers : workload[l] = r
  \/ \E w \in Workers : fClientSocket[w] = r

\* The pool is blocked from BlockPool until it is unblocked again ...
ResetBlocked == Renewing \/ ctl = "awaiting" => fBlockRequestHandling

\* ... and while it is taken down and built again no worker works.
ResetQuiet == Renewing => \A w \in Workers : fRunningState[w] = "eReady"

\* The main thread takes the pool down when no listener is left.
ListenersOver == ctl \in {"empty", "finis", "finishing", "down"} => \A l \in Callers : listen[l] = "over"

\* Then every worker with a request is processing it.
FinishClear == ctl \in {"finis", "finishing", "down"} =>
  \A w \in Workers : run[w] = "check" => fClientSocket[w] = NoReq

\* Where the interrupt handler and the main thread are when there is no
\* processor for the workers.
NoProcessor == ~processor => ctl \in {"stop", "stopping", "terminate", "terminating", "alloc"} \cup MainPCs

PoolPart  == /\ MutexHeld /\ BlockedNoEntry /\ FoundReady /\ InCallback
             /\ WorkersConsistent /\ RequestsCounted
HeldPart  == HeldKnown /\ HeldApart /\ NoneMissing
PhasePart == ResetBlocked /\ ResetQuiet /\ ListenersOver /\ FinishClear /\ NoProcessor

IInv == TypeOK /\ PoolPart /\ HeldPart /\ PhasePart

\* A worker that leaves Run leaves no request behind.
NothingAbandoned == \A w \in Workers : run[w] = "over" => fClientSocket[w] = NoReq

----------------------------------------------------------------------------
(* Steps of the interrupt handler and the main thread.                     *)

\* Workers can be counted.
LEMMA WorkersFinite ==
  ASSUME NEW S, S \subseteq Workers
  PROVE  IsFiniteSet(S) /\ Cardinality(S) \in 0..N
<1>1. N \in Nat
  BY WorkerPoolAssumption
<1>2. IsFiniteSet(Workers) /\ Cardinality(Workers) = N
  BY <1>1, FS_Interval DEF Workers
<1>3. IsFiniteSet(S) /\ Cardinality(S) <= N /\ Cardinality(S) \in Nat
  BY <1>2, FS_Subset, FS_CardinalityType
<1> QED
  BY <1>1, <1>3

\* So can those at work.
LEMMA WorkingFinite == IsFiniteSet(Working) /\ Cardinality(Working) \in 0..N
BY WorkersFinite DEF Working

\* An empty pool: AwaitEmpty is right when it sees no request.
LEMMA EmptyIsReady ==
  ASSUME IInv, Empty
  PROVE  \A w \in Workers : fRunningState[w] = "eReady" /\ fClientSocket[w] = NoReq
<1>1. Cardinality(Working) = 0
  BY WorkingFinite DEF IInv, PoolPart, RequestsCounted, Empty
<1>2. Working = {}
  BY <1>1, WorkingFinite, FS_EmptySet
<1>3. \A w \in Workers : fRunningState[w] = "eReady"
  BY <1>2 DEF Working, IInv, TypeOK, PoolTypeOK
<1> QED
  BY <1>3 DEF IInv, PoolPart, WorkersConsistent

\* What depends only on the pool and the listeners stays with them.
LEMMA PoolUntouched ==
  ASSUME IInv, UNCHANGED <<poolVars, listen, accepted>>
  PROVE  PoolTypeOK' /\ PoolPart' /\ HeldPart'
<1>1. PoolTypeOK'
  BY DEF IInv, TypeOK, PoolTypeOK, poolVars, workerVars, enterVars
<1>2. MutexHeld' /\ BlockedNoEntry' /\ FoundReady' /\ InCallback'
  BY DEF IInv, PoolPart, MutexHeld, BlockedNoEntry, FoundReady, InCallback,
     poolVars, workerVars, enterVars
<1>3. WorkersConsistent'
  BY DEF IInv, PoolPart, WorkersConsistent, poolVars, workerVars
<1>4. RequestsCounted'
  BY DEF IInv, PoolPart, RequestsCounted, Working, poolVars, workerVars
<1>5. HeldPart'
  BY DEF IInv, HeldPart, HeldKnown, HeldApart, NoneMissing, poolVars, workerVars, enterVars
<1> QED
  BY <1>1, <1>2, <1>3, <1>4, <1>5 DEF PoolPart

\* PreparePool returns -1.
NoPool ==
  /\ ctl = "alloc" /\ ~processor /\ Goto("join")
  /\ UNCHANGED <<poolVars, fBlocked, processor, hups, listenVars>>

\* The steps that move ctl and leave the pool alone.
CtlOnly ==
  \/ SigHup \/ AwaitResetEmpty \/ GiveUpUnBlock \/ DoGlobalReinit \/ MakeProcessorFails
  \/ TerminateReturns \/ NoPool \/ UnBlock
  \/ SigTerm \/ PrepareShutdown \/ StopAcceptLoop \/ StopAcceptLoopReturns \/ HandlerOver
  \/ JoinReturns \/ AwaitLastEmpty \/ FinishReturns \/ Down

\* These steps keep the invariant: what AwaitEmpty saw holds in the phase that
\* begins with it.
LEMMA CtlOnlyKeeps == ASSUME IInv, CtlOnly PROVE IInv'
<1> USE DEF Goto
<1>1. UNCHANGED <<poolVars, listen, accepted>>
  BY DEF CtlOnly, SigHup, AwaitResetEmpty, GiveUpUnBlock, DoGlobalReinit, MakeProcessorFails, TerminateReturns,
     NoPool, UnBlock, SigTerm, PrepareShutdown, StopAcceptLoop, StopAcceptLoopReturns,
     HandlerOver, JoinReturns, AwaitLastEmpty, FinishReturns, Down, listenVars
<1>2. PoolTypeOK' /\ PoolPart' /\ HeldPart'
  BY <1>1, PoolUntouched
<1>3. TypeOK'
  <2>0. TypeOK /\ MaxHups \in Nat
    BY MaxHupsAssumption DEF IInv
  <2>1. hups' \in 0..MaxHups
    BY <2>0 DEF TypeOK, CtlOnly, SigHup, AwaitResetEmpty, GiveUpUnBlock, DoGlobalReinit, MakeProcessorFails,
       TerminateReturns, NoPool, UnBlock, SigTerm, PrepareShutdown, StopAcceptLoop,
       StopAcceptLoopReturns, HandlerOver, JoinReturns, AwaitLastEmpty, FinishReturns, Down
  <2>2. k' \in Nat \ {0} /\ ctl' \in {"sigwait"} \cup HupPCs \cup StopPCs \cup MainPCs
    BY <2>0 DEF TypeOK, CtlOnly, SigHup, AwaitResetEmpty, GiveUpUnBlock, DoGlobalReinit, MakeProcessorFails,
       TerminateReturns, NoPool, UnBlock, SigTerm, PrepareShutdown, StopAcceptLoop,
       StopAcceptLoopReturns, HandlerOver, JoinReturns, AwaitLastEmpty, FinishReturns, Down,
       HupPCs, StopPCs, MainPCs
  <2>3. fBlocked' \in BOOLEAN /\ processor' \in BOOLEAN
    BY <2>0 DEF TypeOK, CtlOnly, SigHup, AwaitResetEmpty, GiveUpUnBlock, DoGlobalReinit, MakeProcessorFails,
       TerminateReturns, NoPool, UnBlock, SigTerm, PrepareShutdown, StopAcceptLoop,
       StopAcceptLoopReturns, HandlerOver, JoinReturns, AwaitLastEmpty, FinishReturns, Down
  <2>4. fAlive' \in [Callers -> BOOLEAN]
    <3>1. CASE StopAcceptLoop
      BY <2>0, <3>1 DEF TypeOK, StopAcceptLoop
    <3>2. CASE ~StopAcceptLoop
      BY <2>0, <3>2 DEF TypeOK, CtlOnly, SigHup, AwaitResetEmpty, GiveUpUnBlock, DoGlobalReinit, MakeProcessorFails,
         TerminateReturns, NoPool, UnBlock, SigTerm, PrepareShutdown, StopAcceptLoopReturns,
         HandlerOver, JoinReturns, AwaitLastEmpty, FinishReturns, Down, listenVars
    <3> QED
      BY <3>1, <3>2
  <2> QED
    BY <1>1, <1>2, <2>0, <2>1, <2>2, <2>3, <2>4 DEF TypeOK
<1>4. ResetBlocked' /\ ResetQuiet'
  <2>1. CASE AwaitResetEmpty
    <3>1. fBlockRequestHandling' = fBlockRequestHandling /\ fRunningState' = fRunningState
      BY <1>1 DEF poolVars, workerVars
    <3>2. CASE Empty /\ ctl' = "reset"
      BY <2>1, <3>1, <3>2, EmptyIsReady
         DEF AwaitResetEmpty, IInv, PhasePart, ResetBlocked, ResetQuiet, Renewing
    <3>3. CASE ctl' = "giveup"
      BY <3>3 DEF ResetBlocked, ResetQuiet, Renewing
    <3> QED
      BY <2>1, <3>2, <3>3 DEF AwaitResetEmpty
  <2>2. CASE ~AwaitResetEmpty
    <3>1. (Renewing \/ ctl = "awaiting")' => Renewing
      BY <2>2 DEF CtlOnly, SigHup, GiveUpUnBlock, DoGlobalReinit, MakeProcessorFails, TerminateReturns,
         NoPool, UnBlock, SigTerm, PrepareShutdown, StopAcceptLoop, StopAcceptLoopReturns,
         HandlerOver, JoinReturns, AwaitLastEmpty, FinishReturns, Down, Renewing, IInv, PhasePart,
         NoProcessor, MainPCs
    <3> QED
      BY <1>1, <3>1 DEF IInv, PhasePart, ResetBlocked, ResetQuiet, poolVars, workerVars
  <2> QED
    BY <2>1, <2>2
<1>5. ListenersOver'
  <2>1. \/ ctl' \notin {"empty", "finis", "finishing", "down"}
        \/ ctl \in {"empty", "finis", "finishing", "down"}
        \/ \A l \in Callers : listen[l] = "over"
    BY DEF CtlOnly, SigHup, AwaitResetEmpty, GiveUpUnBlock, DoGlobalReinit, MakeProcessorFails, TerminateReturns,
       NoPool, UnBlock, SigTerm, PrepareShutdown, StopAcceptLoop, StopAcceptLoopReturns,
       HandlerOver, JoinReturns, AwaitLastEmpty, FinishReturns, Down
  <2> QED
    BY <1>1, <2>1 DEF IInv, PhasePart, ListenersOver
<1>6. FinishClear'
  <2>0. run' = run /\ fClientSocket' = fClientSocket
    BY <1>1 DEF poolVars, workerVars
  <2>1. CASE AwaitLastEmpty
    <3>1. \A w \in Workers : run[w] = "check" => fClientSocket[w] = NoReq
      BY <2>1, EmptyIsReady DEF AwaitLastEmpty, AwaitGivesUp
    <3> QED
      BY <2>0, <3>1 DEF FinishClear
  <2>2. CASE ~AwaitLastEmpty
    <3>1. \/ ctl' \notin {"finis", "finishing", "down"}
          \/ ctl \in {"finis", "finishing", "down"}
      BY <2>2 DEF CtlOnly, SigHup, AwaitResetEmpty, GiveUpUnBlock, DoGlobalReinit, MakeProcessorFails,
         TerminateReturns, NoPool, UnBlock, SigTerm, PrepareShutdown, StopAcceptLoop,
         StopAcceptLoopReturns, HandlerOver, JoinReturns, FinishReturns, Down
    <3> QED
      BY <2>0, <3>1 DEF IInv, PhasePart, FinishClear
  <2> QED
    BY <2>1, <2>2
<1>7. NoProcessor'
  BY DEF IInv, PhasePart, NoProcessor, CtlOnly, SigHup, AwaitResetEmpty, GiveUpUnBlock, DoGlobalReinit,
     MakeProcessorFails, TerminateReturns, NoPool, UnBlock, SigTerm, PrepareShutdown, StopAcceptLoop,
     StopAcceptLoopReturns, HandlerOver, JoinReturns, AwaitLastEmpty, FinishReturns, Down, MainPCs
<1> QED
  BY <1>2, <1>3, <1>4, <1>5, <1>6, <1>7 DEF IInv, PhasePart

\* Block and unblock of the pool: fMutex is free, so nobody is past the loop
\* of FindNextRunnable.
LEMMA BlockKeeps == ASSUME IInv, BlockPool \/ GiveUpUnblockPool \/ UnblockPool PROVE IInv'
<1> USE DEF Goto
<1>1. UNCHANGED <<workerVars, enterVars, listenVars, k, fBlocked, processor, hups>> /\ fMutex = Nobody
  BY DEF BlockPool, GiveUpUnblockPool, UnblockPool, SetBlock
<1>2. \/ ctl' = "awaiting" /\ fBlockRequestHandling' = TRUE
      \/ ctl' \in {"shutdown", "sigwait"} /\ fBlockRequestHandling' = FALSE
  BY DEF BlockPool, GiveUpUnblockPool, UnblockPool, SetBlock
<1>3. TypeOK'
  <2>1. fBlockRequestHandling' \in BOOLEAN
    BY <1>2
  <2>2. ctl' \in {"sigwait"} \cup HupPCs \cup StopPCs \cup MainPCs
    BY <1>2 DEF HupPCs, StopPCs, MainPCs
  <2> QED
    BY <1>1, <2>1, <2>2 DEF IInv, TypeOK, PoolTypeOK, workerVars, enterVars, listenVars
<1>4. \A c \in Callers : enter[c] \notin {"find", "set"}
  BY <1>1, WorkerPoolAssumption DEF IInv, PoolPart, MutexHeld
<1>5. PoolPart'
  <2>1. MutexHeld' /\ BlockedNoEntry' /\ FoundReady' /\ InCallback'
    BY <1>1, <1>4 DEF IInv, PoolPart, MutexHeld, BlockedNoEntry, FoundReady, InCallback,
       workerVars, enterVars, listenVars
  <2>2. WorkersConsistent' /\ RequestsCounted'
    BY <1>1 DEF IInv, PoolPart, WorkersConsistent, RequestsCounted, Working, workerVars
  <2> QED
    BY <2>1, <2>2 DEF PoolPart
<1>6. HeldPart'
  BY <1>1 DEF IInv, HeldPart, HeldKnown, HeldApart, NoneMissing, workerVars, enterVars, listenVars
<1>7. PhasePart'
  <2>1. ctl \in {"blocking", "gaveup", "unblock"}
    BY DEF BlockPool, GiveUpUnblockPool, UnblockPool
  <2>2. processor' = TRUE
    BY <1>1, <2>1 DEF IInv, TypeOK, PhasePart, NoProcessor, MainPCs
  <2> QED
    BY <1>2, <2>2 DEF PhasePart, ResetBlocked, ResetQuiet, ListenersOver, FinishClear, NoProcessor, Renewing
<1> QED
  BY <1>3, <1>5, <1>6, <1>7 DEF IInv

\* When the pool is taken down no listener is past the loop of
\* FindNextRunnable.
LEMMA TakenDownNoEntry ==
  ASSUME IInv, Renewing \/ ctl \in {"finis", "finishing"}
  PROVE  \A c \in Callers : enter[c] \notin {"find", "set"}
<1>1. CASE Renewing
  BY <1>1 DEF IInv, PoolPart, BlockedNoEntry, PhasePart, ResetBlocked
<1>2. CASE ctl \in {"finis", "finishing"}
  BY <1>2 DEF IInv, PoolPart, InCallback, PhasePart, ListenersOver
<1> QED
  BY <1>1, <1>2

\* Termination of a worker loses nothing: it has no request, or it is
\* processing it.
LEMMA TerminateKeeps == ASSUME IInv, TerminateOne \/ FinishOne PROVE IInv'
<1> USE DEF Goto
<1>1. /\ TerminateWorker(k) /\ UNCHANGED <<k, fBlocked, processor, hups, listenVars>> /\ k <= N
      /\ \/ ctl = "terminate" /\ ctl' = "terminating"
         \/ ctl = "finis" /\ ctl' = "finishing"
  BY DEF TerminateOne, FinishOne
<1>2. /\ UNCHANGED <<fRunningState, run, fClientSocket, fCurrentParallelRequests, done,
                     fBlockRequestHandling, enterVars>>
      /\ k \in Workers /\ aborted' = aborted \cup ({fClientSocket[k]} \ {NoReq})
  BY <1>1, WorkerPoolAssumption DEF TerminateWorker, IInv, TypeOK, Workers
<1>3. /\ fState' \in [Workers -> EThreadState]
      /\ \A w \in Workers : fState'[w] = fState[w] \/ fState'[w] # eRunning
  <2>1. fState' = [fState EXCEPT ![k] = AfterSetState(@, eTerminationRequested, FALSE)]
    BY <1>1 DEF TerminateWorker
  <2>2. \A s \in EThreadState : LET t == AfterSetState(s, eTerminationRequested, FALSE) IN
          t \in EThreadState /\ (t = s \/ t # eRunning)
    BY DEF AfterSetState, SetStateOk, SetStateTarget, EThreadState, eCreated, eStartRequested,
       eRunning, eTerminationRequested, eTerminatedRunMethod, eTerminated
  <2>3. fState \in [Workers -> EThreadState]
    BY DEF IInv, TypeOK, PoolTypeOK
  <2> QED
    BY <2>1, <2>2, <2>3
<1>4. TypeOK'
  <2>1. ctl' \in {"sigwait"} \cup HupPCs \cup StopPCs \cup MainPCs
    BY <1>1 DEF HupPCs, StopPCs, MainPCs
  <2>2. aborted' \subseteq Requests
    BY <1>2 DEF IInv, TypeOK, PoolTypeOK
  <2> QED
    BY <1>1, <1>2, <1>3, <2>1, <2>2 DEF IInv, TypeOK, PoolTypeOK, enterVars, listenVars
<1>5. \A w \in Workers : run[w] = "check" => fClientSocket[w] = NoReq
  <2>1. CASE ctl = "terminate"
    BY <2>1 DEF IInv, PhasePart, ResetQuiet, Renewing, PoolPart, WorkersConsistent
  <2>2. CASE ctl = "finis"
    BY <2>2 DEF IInv, PhasePart, FinishClear
  <2> QED
    BY <1>1, <2>1, <2>2
<1>6. PoolPart'
  <2>1. WorkersConsistent'
    BY <1>2, <1>3, <1>5 DEF IInv, PoolPart, WorkersConsistent
  <2>2. \A c \in Callers : enter[c] \notin {"find", "set"}
    BY <1>1, TakenDownNoEntry DEF Renewing
  <2>3. MutexHeld' /\ BlockedNoEntry' /\ FoundReady' /\ InCallback'
    BY <1>1, <1>2, <2>2 DEF IInv, PoolPart, MutexHeld, BlockedNoEntry, FoundReady, InCallback,
       enterVars, listenVars
  <2>4. RequestsCounted'
    BY <1>2 DEF IInv, PoolPart, RequestsCounted, Working
  <2> QED
    BY <2>1, <2>3, <2>4 DEF PoolPart
<1>7. HeldPart'
  <2>1. aborted' \subseteq 1..accepted
    BY <1>2 DEF IInv, HeldPart, HeldKnown
  <2> QED
    BY <1>1, <1>2, <2>1 DEF IInv, HeldPart, HeldKnown, HeldApart, NoneMissing, enterVars, listenVars
<1>8. PhasePart'
  BY <1>1, <1>2 DEF IInv, PhasePart, ResetBlocked, ResetQuiet, ListenersOver, FinishClear,
     NoProcessor, MainPCs, Renewing, listenVars
<1> QED
  BY <1>4, <1>6, <1>7, <1>8 DEF IInv

\* In a reset no worker holds a request.
LEMMA ResetHoldsNothing ==
  ASSUME IInv, Renewing
  PROVE  /\ \A w \in Workers : fClientSocket[w] = NoReq /\ run[w] \notin {"process", "setready"}
         /\ \A w \in Workers : fRunningState[w] = "eReady"
         /\ fClientSocket = [w \in Workers |-> NoReq]
         /\ fCurrentParallelRequests = 0 /\ Working = {}
<1>1. \A w \in Workers : fRunningState[w] = "eReady"
  BY DEF IInv, PhasePart, ResetQuiet
<1>2. \A w \in Workers : fClientSocket[w] = NoReq /\ run[w] \notin {"process", "setready"}
  BY <1>1 DEF IInv, PoolPart, WorkersConsistent
<1>3. fClientSocket = [w \in Workers |-> NoReq]
  BY <1>2 DEF IInv, TypeOK, PoolTypeOK
<1>4. Working = {}
  BY <1>1 DEF Working
<1>5. fCurrentParallelRequests = 0
  BY <1>4, FS_EmptySet DEF IInv, PoolPart, RequestsCounted
<1> QED
  BY <1>1, <1>2, <1>3, <1>4, <1>5

\* Whatever becomes of the starts, each worker has a state of a thread.
LEMMA StartStates ==
  /\ [Workers -> {eRunning, eTerminated}] \subseteq [Workers -> EThreadState]
  /\ \A i \in Workers : \A states \in [Workers -> {eRunning, eTerminated}] :
       [w \in Workers |-> IF w < i THEN states[w] ELSE IF w = i THEN eStartRequested ELSE eCreated]
         \in [Workers -> EThreadState]
BY DEF EThreadState, eRunning, eTerminated, eStartRequested, eCreated

\* The new pool: no request is in the workers that are deleted.
LEMMA RebuildKeeps ==
  ASSUME IInv, ReAlloc \/ (PreparePool /\ ~NoPool)
  PROVE  IInv'
<1> USE DEF Goto
<1>1. /\ UNCHANGED <<k, fBlocked, processor, hups, listenVars, done, aborted, fBlockRequestHandling, enterVars>>
      /\ \/ ctl = "terminate" /\ ctl' = "alloc" /\ AllocPool
         \/ ctl = "alloc" /\ ctl' = "reinited" /\ InitPool /\ processor
         \/ ctl = "alloc" /\ ctl' = "startwait" /\ InitPoolHangs /\ processor
  BY DEF ReAlloc, PreparePool, NoPool, AllocPool, InitPool, InitPoolHangs, StartAll
<1>2. /\ \A w \in Workers : fClientSocket[w] = NoReq /\ fRunningState[w] = "eReady"
      /\ fClientSocket = [w \in Workers |-> NoReq] /\ fCurrentParallelRequests = 0
      /\ \A c \in Callers : enter[c] \notin {"find", "set"}
  BY <1>1, ResetHoldsNothing, TakenDownNoEntry DEF Renewing
<1>3. /\ fClientSocket' = fClientSocket /\ fCurrentParallelRequests' = 0
      /\ \A w \in Workers : fRunningState'[w] = "eReady"
      /\ fRunningState' \in [Workers -> {"eReady", "eWorking"}]
      /\ fState' \in [Workers -> EThreadState] /\ run' \in [Workers -> {"check", "over"}]
      /\ \A w \in Workers : run'[w] = "over" => fState'[w] # eRunning
  <2>1. CASE AllocPool
    BY <1>2, <2>1 DEF AllocPool, EThreadState, eCreated, eRunning
  <2>2. CASE InitPool \/ InitPoolHangs
    <3>1. PICK states \in [Workers -> EThreadState] : StartAll(states)
      BY <2>2, StartStates DEF InitPool, InitPoolHangs
    <3>2. fState' = states /\ run' = [w \in Workers |-> IF states[w] = eRunning THEN "check" ELSE "over"]
          /\ UNCHANGED <<fRunningState, fClientSocket>>
      BY <3>1 DEF StartAll
    <3>3. fCurrentParallelRequests' = 0
      BY <1>2, <2>2 DEF InitPool, InitPoolHangs
    <3> QED
      BY <1>2, <3>2, <3>3 DEF IInv, TypeOK, PoolTypeOK
  <2> QED
    BY <1>1, <2>1, <2>2
<1>4. TypeOK'
  <2>1. ctl' \in {"sigwait"} \cup HupPCs \cup StopPCs \cup MainPCs
    BY <1>1 DEF HupPCs, StopPCs, MainPCs
  <2>2. run' \in [Workers -> {"check", "process", "setready", "over"}]
    BY <1>3
  <2>3. fCurrentParallelRequests' \in 0..N
    BY <1>3, WorkerPoolAssumption
  <2> QED
    BY <1>1, <1>3, <2>1, <2>2, <2>3 DEF IInv, TypeOK, PoolTypeOK, enterVars, listenVars
<1>5. PoolPart'
  <2>1. WorkersConsistent'
    BY <1>2, <1>3 DEF WorkersConsistent
  <2>2. MutexHeld' /\ BlockedNoEntry' /\ FoundReady' /\ InCallback'
    BY <1>1, <1>2 DEF IInv, PoolPart, MutexHeld, BlockedNoEntry, FoundReady, InCallback,
       enterVars, listenVars
  <2>3. Working' = {}
    BY <1>3 DEF Working
  <2>4. RequestsCounted'
    BY <1>3, <2>3, FS_EmptySet DEF RequestsCounted
  <2> QED
    BY <2>1, <2>2, <2>4 DEF PoolPart
<1>6. HeldPart'
  BY <1>1, <1>3 DEF IInv, HeldPart, HeldKnown, HeldApart, NoneMissing, enterVars, listenVars
<1>7. PhasePart'
  BY <1>1, <1>3 DEF IInv, PhasePart, ResetBlocked, ResetQuiet, ListenersOver, FinishClear,
     NoProcessor, Renewing
<1> QED
  BY <1>4, <1>5, <1>6, <1>7 DEF IInv

----------------------------------------------------------------------------
(* Steps of the listeners.                                                 *)

\* An accepted request is a new one, and its listener has it in hand.
LEMMA AcceptKeeps == ASSUME IInv, NEW l \in Callers, DoAccept(l) PROVE IInv'
<1> DEFINE r == accepted + 1
<1>1. /\ listen[l] = "accept" /\ enter[l] = "out" /\ accepted' = r
      /\ enter' = [enter EXCEPT ![l] = "check"]
      /\ workload' = [workload EXCEPT ![l] = r]
      /\ listen' = [listen EXCEPT ![l] = "callback"]
      /\ UNCHANGED <<workerVars, fBlockRequestHandling, fMutex, hr, fAlive, ctlVars>>
  BY DEF DoAccept, Enter
<1>2. accepted \in Nat /\ r \in Requests /\ r # NoReq /\ r <= MaxRequests /\ r \notin 1..accepted
  BY WorkerPoolAssumption DEF DoAccept, IInv, TypeOK, Requests, NoReq
<1>3. 1..r = (1..accepted) \cup {r}
  BY <1>2
<1>4. TypeOK'
  <2>1. accepted' \in 0..MaxRequests
    BY <1>1, <1>2, WorkerPoolAssumption
  <2>2. workload' \in [Callers -> Requests \cup {NoReq}]
    BY <1>1, <1>2 DEF IInv, TypeOK, PoolTypeOK
  <2>3. enter' \in [Callers -> {"out", "check", "find", "set"}]
        /\ listen' \in [Callers -> {"accept", "callback", "leave", "over"}]
    BY <1>1 DEF IInv, TypeOK, PoolTypeOK
  <2> QED
    BY <1>1, <2>1, <2>2, <2>3 DEF IInv, TypeOK, PoolTypeOK, workerVars, ctlVars
<1>5. PoolPart'
  <2>1. MutexHeld' /\ BlockedNoEntry' /\ FoundReady'
    BY <1>1 DEF IInv, TypeOK, PoolTypeOK, PoolPart, MutexHeld, BlockedNoEntry, FoundReady, workerVars
  <2>2. InCallback'
    BY <1>1, <1>2 DEF IInv, TypeOK, PoolTypeOK, PoolPart, InCallback
  <2>3. WorkersConsistent' /\ RequestsCounted'
    BY <1>1 DEF IInv, PoolPart, WorkersConsistent, RequestsCounted, Working, workerVars
  <2> QED
    BY <2>1, <2>2, <2>3 DEF PoolPart
<1>6. HeldPart'
  <2>0. /\ workload[l] = NoReq /\ workload \in [Callers -> Requests \cup {NoReq}]
        /\ UNCHANGED <<fClientSocket, done, aborted>>
    BY <1>1 DEF IInv, TypeOK, PoolTypeOK, PoolPart, InCallback, workerVars
  <2>1. HeldKnown'
    BY <1>1, <1>2, <1>3, <2>0 DEF IInv, HeldPart, HeldKnown
  <2>2. HeldApart'
    <3>1. \A m \in Callers : workload[m] # r
      BY <1>2 DEF IInv, HeldPart, HeldKnown
    <3>2. \A w \in Workers : fClientSocket[w] # r
      BY <1>2 DEF IInv, HeldPart, HeldKnown
    <3> QED
      BY <1>1, <2>0, <3>1, <3>2 DEF IInv, HeldPart, HeldApart
  <2>3. NoneMissing'
    <3> SUFFICES ASSUME NEW q \in (1..accepted) \cup {r}, q \notin done
                 PROVE  (\E m \in Callers : workload'[m] = q) \/ (\E v \in Workers : fClientSocket[v] = q)
      BY <1>1, <1>3, <2>0 DEF NoneMissing
    <3>1. CASE q = r
      BY <1>1, <2>0, <3>1
    <3>2. CASE q \in 1..accepted
      <4>1. q # NoReq
        BY <1>2, <3>2 DEF NoReq
      <4>2. (\E m \in Callers : workload[m] = q) \/ (\E v \in Workers : fClientSocket[v] = q)
        BY <3>2 DEF IInv, HeldPart, NoneMissing
      <4> QED
        BY <1>1, <2>0, <4>1, <4>2
    <3> QED
      BY <3>1, <3>2
  <2> QED
    BY <2>1, <2>2, <2>3 DEF HeldPart
<1>7. PhasePart'
  <2>1. ctl \notin {"empty", "finis", "finishing", "down"}
    BY <1>1 DEF IInv, PhasePart, ListenersOver
  <2> QED
    BY <1>1, <2>1 DEF IInv, PhasePart, ResetBlocked, ResetQuiet, ListenersOver, FinishClear,
       NoProcessor, Renewing, workerVars, ctlVars
<1> QED
  BY <1>4, <1>5, <1>6, <1>7 DEF IInv

\* A listener that is in accept() or on its way out holds no request.
LEMMA LeavingKeeps ==
  ASSUME IInv, NEW l \in Callers, LeaveAcceptLoop(l) \/ ListenerOver(l)
  PROVE  IInv'
<1>1. /\ listen[l] \in {"accept", "leave"}
      /\ \/ listen' = [listen EXCEPT ![l] = "leave"] /\ listen[l] = "accept"
         \/ listen' = [listen EXCEPT ![l] = "over"]
      /\ UNCHANGED <<poolVars, fAlive, accepted, ctlVars>>
  BY DEF LeaveAcceptLoop, ListenerOver
<1>2. listen \in [Callers -> {"accept", "callback", "leave", "over"}]
  BY DEF IInv, TypeOK
<1>3. TypeOK'
  BY <1>1, <1>2 DEF IInv, TypeOK, PoolTypeOK, poolVars, workerVars, enterVars, ctlVars
<1>4. PoolPart'
  <2>1. MutexHeld' /\ BlockedNoEntry' /\ FoundReady'
    BY <1>1 DEF IInv, PoolPart, MutexHeld, BlockedNoEntry, FoundReady, poolVars, workerVars, enterVars
  <2>2. InCallback'
    BY <1>1, <1>2 DEF IInv, PoolPart, InCallback, poolVars, enterVars
  <2>3. WorkersConsistent' /\ RequestsCounted'
    BY <1>1 DEF IInv, PoolPart, WorkersConsistent, RequestsCounted, Working, poolVars, workerVars
  <2> QED
    BY <2>1, <2>2, <2>3 DEF PoolPart
<1>5. HeldPart'
  BY <1>1 DEF IInv, HeldPart, HeldKnown, HeldApart, NoneMissing, poolVars, workerVars, enterVars
<1>6. PhasePart'
  <2>1. ListenersOver'
    BY <1>1, <1>2 DEF IInv, PhasePart, ListenersOver, ctlVars
  <2> QED
    BY <1>1, <2>1 DEF IInv, PhasePart, ResetBlocked, ResetQuiet, FinishClear,
       NoProcessor, Renewing, poolVars, workerVars, ctlVars
<1> QED
  BY <1>3, <1>4, <1>5, <1>6 DEF IInv

\* The loop of FindNextRunnable is left with fMutex, and a ready worker found.
LEMMA FindKeeps ==
  ASSUME IInv, NEW l \in Callers, DoCallBack(l), EnterPasses(l) \/ FindNextRunnable(l)
  PROVE  IInv'
<1>1. /\ UNCHANGED <<workerVars, fBlockRequestHandling, workload, fAlive, accepted, ctlVars>>
      /\ enter \in [Callers -> {"out", "check", "find", "set"}]
      /\ listen \in [Callers -> {"accept", "callback", "leave", "over"}]
      /\ hr \in [Callers -> Workers] /\ fMutex \in Callers \cup {Nobody}
  BY DEF DoCallBack, EnterPasses, FindNextRunnable, IInv, TypeOK, PoolTypeOK
<1>2. /\ enter[l] \in {"check", "find"}
      /\ \/ enter' = [enter EXCEPT ![l] = "find"] /\ hr' = hr
         \/ enter' = [enter EXCEPT ![l] = "set"]
  BY DEF EnterPasses, FindNextRunnable
<1>3. listen' = listen
  BY <1>1, <1>2 DEF DoCallBack
<1>4. fMutex' = l /\ hr' \in [Callers -> Workers]
      /\ \A c \in Callers : c # l => hr'[c] = hr[c] /\ enter[c] \notin {"find", "set"}
  <2>1. CASE EnterPasses(l)
    BY <1>1, <2>1, WorkerPoolAssumption DEF EnterPasses, IInv, PoolPart, MutexHeld
  <2>2. CASE FindNextRunnable(l)
    BY <1>1, <2>2 DEF FindNextRunnable, IInv, PoolPart, MutexHeld
  <2> QED
    BY <2>1, <2>2
<1>5. TypeOK'
  BY <1>1, <1>2, <1>3, <1>4 DEF IInv, TypeOK, PoolTypeOK, workerVars, ctlVars
<1>6. PoolPart'
  <2>1. MutexHeld'
    BY <1>1, <1>2, <1>4 DEF MutexHeld
  <2>2. BlockedNoEntry'
    <3>1. ~fBlockRequestHandling
      BY DEF EnterPasses, MayPass, FindNextRunnable, IInv, PoolPart, BlockedNoEntry
    <3> QED
      BY <1>1, <3>1 DEF BlockedNoEntry
  <2>3. FoundReady'
    <3>1. CASE EnterPasses(l)
      BY <1>1, <1>4, <3>1 DEF EnterPasses, FoundReady
    <3>2. CASE FindNextRunnable(l)
      <4>1. fState[hr'[l]] = eRunning /\ fRunningState[hr'[l]] = "eReady"
        BY <1>1, <3>2 DEF FindNextRunnable
      <4> QED
        BY <1>1, <1>2, <1>4, <4>1 DEF FoundReady, workerVars
    <3> QED
      BY <3>1, <3>2
  <2>4. InCallback'
    BY <1>1, <1>2, <1>3 DEF IInv, PoolPart, InCallback
  <2>5. WorkersConsistent' /\ RequestsCounted'
    BY <1>1 DEF IInv, PoolPart, WorkersConsistent, RequestsCounted, Working, workerVars
  <2> QED
    BY <2>1, <2>2, <2>3, <2>4, <2>5 DEF PoolPart
<1>7. HeldPart'
  BY <1>1 DEF IInv, HeldPart, HeldKnown, HeldApart, NoneMissing, workerVars
<1>8. PhasePart'
  BY <1>1, <1>3 DEF IInv, PhasePart, ResetBlocked, ResetQuiet, ListenersOver, FinishClear,
     NoProcessor, Renewing, workerVars, ctlVars
<1> QED
  BY <1>5, <1>6, <1>7, <1>8 DEF IInv

\* The request goes from the listener to the worker that was found, which
\* takes it: SetRunningState does not refuse.
LEMMA HandOver ==
  ASSUME IInv, NEW l \in Callers, DoCallBack(l), EnterWorking(l)
  PROVE  /\ hr[l] \in Workers /\ hr[l] \notin Working /\ fState[hr[l]] = eRunning
         /\ enter[l] = "set" /\ workload[l] # NoReq /\ fClientSocket[hr[l]] = NoReq
         /\ run[hr[l]] = "check" /\ ~fBlockRequestHandling
         /\ fRunningState' = [fRunningState EXCEPT ![hr[l]] = "eWorking"]
         /\ fCurrentParallelRequests' = fCurrentParallelRequests + 1
         /\ fClientSocket' = [fClientSocket EXCEPT ![hr[l]] = workload[l]]
         /\ workload' = [workload EXCEPT ![l] = NoReq]
         /\ enter' = [enter EXCEPT ![l] = "out"] /\ fMutex' = Nobody
         /\ listen' = [listen EXCEPT ![l] = "accept"]
         /\ UNCHANGED <<fState, run, done, aborted, fBlockRequestHandling, hr, fAlive, accepted, ctlVars>>
<1>1. enter[l] = "set" /\ hr[l] \in Workers
  BY DEF EnterWorking, IInv, TypeOK, PoolTypeOK
<1>2. fState[hr[l]] = eRunning /\ fRunningState[hr[l]] = "eReady" /\ ~fBlockRequestHandling
      /\ workload[l] # NoReq
  BY <1>1 DEF IInv, PoolPart, FoundReady, BlockedNoEntry, InCallback
<1>3. fClientSocket[hr[l]] = NoReq /\ run[hr[l]] \notin {"process", "setready", "over"}
  BY <1>1, <1>2 DEF IInv, PoolPart, WorkersConsistent
<1>4. run[hr[l]] = "check" /\ hr[l] \notin Working
  BY <1>1, <1>2, <1>3 DEF IInv, TypeOK, PoolTypeOK, Working
<1>5. SetRunningStateOk(hr[l], "eWorking")
  BY <1>2 DEF SetRunningStateOk
<1>6. enter' = [enter EXCEPT ![l] = "out"] /\ enter \in [Callers -> {"out", "check", "find", "set"}]
  BY DEF EnterWorking, IInv, TypeOK, PoolTypeOK
<1>7. listen' = [listen EXCEPT ![l] = "accept"]
  BY <1>6 DEF DoCallBack
<1>8. fRunningState' = [fRunningState EXCEPT ![hr[l]] = "eWorking"]
      /\ fCurrentParallelRequests' = fCurrentParallelRequests + 1
  BY <1>5 DEF EnterWorking, SetRunningState, HandleStatEvt
<1> QED
  BY <1>1, <1>2, <1>3, <1>4, <1>5, <1>6, <1>7, <1>8 DEF EnterWorking, DoCallBack

\* The hand-over keeps the invariant: the request changes hands and the
\* worker is counted.
LEMMA HandOverKeeps == ASSUME IInv, NEW l \in Callers, DoCallBack(l), EnterWorking(l) PROVE IInv'
<1> DEFINE w == hr[l]
<1> DEFINE r == workload[l]
<1>0. /\ w \in Workers /\ w \notin Working /\ fState[w] = eRunning
      /\ enter[l] = "set" /\ r # NoReq /\ fClientSocket[w] = NoReq
      /\ run[w] = "check" /\ ~fBlockRequestHandling
      /\ fRunningState' = [fRunningState EXCEPT ![w] = "eWorking"]
      /\ fCurrentParallelRequests' = fCurrentParallelRequests + 1
      /\ fClientSocket' = [fClientSocket EXCEPT ![w] = r]
      /\ workload' = [workload EXCEPT ![l] = NoReq]
      /\ enter' = [enter EXCEPT ![l] = "out"] /\ fMutex' = Nobody
      /\ listen' = [listen EXCEPT ![l] = "accept"]
      /\ UNCHANGED <<fState, run, done, aborted, fBlockRequestHandling, hr, fAlive, accepted, ctlVars>>
  BY HandOver
<1>1. /\ fRunningState \in [Workers -> {"eReady", "eWorking"}]
      /\ fClientSocket \in [Workers -> Requests \cup {NoReq}]
      /\ workload \in [Callers -> Requests \cup {NoReq}]
      /\ enter \in [Callers -> {"out", "check", "find", "set"}]
      /\ listen \in [Callers -> {"accept", "callback", "leave", "over"}]
  BY DEF IInv, TypeOK, PoolTypeOK
<1> HIDE DEF w, r
<1>2. RequestsCounted'
  <2>1. Working' = Working \cup {w}
    BY <1>0, <1>1 DEF Working
  <2>2. Cardinality(Working') = Cardinality(Working) + 1
    BY <1>0, <2>1, WorkingFinite, FS_AddElement
  <2> QED
    BY <1>0, <2>2 DEF IInv, PoolPart, RequestsCounted
<1>3. TypeOK'
  <2>1. fCurrentParallelRequests' \in 0..N
    <3>1. Cardinality(Working') \in 0..N
      BY WorkersFinite DEF Working
    <3> QED
      BY <1>2, <3>1 DEF RequestsCounted
  <2>2. fClientSocket' \in [Workers -> Requests \cup {NoReq}]
    <3>1. r \in Requests \cup {NoReq}
      BY <1>1 DEF r
    <3> QED
      BY <1>0, <1>1, <3>1
  <2>3. /\ fRunningState' \in [Workers -> {"eReady", "eWorking"}]
        /\ workload' \in [Callers -> Requests \cup {NoReq}]
        /\ enter' \in [Callers -> {"out", "check", "find", "set"}]
        /\ listen' \in [Callers -> {"accept", "callback", "leave", "over"}]
    BY <1>0, <1>1
  <2> QED
    BY <1>0, <2>1, <2>2, <2>3 DEF IInv, TypeOK, PoolTypeOK, ctlVars
<1>4. PoolPart'
  <2>1. \A c \in Callers : enter'[c] \notin {"find", "set"}
    BY <1>0, <1>1 DEF IInv, PoolPart, MutexHeld
  <2>2. MutexHeld' /\ BlockedNoEntry' /\ FoundReady'
    BY <2>1 DEF MutexHeld, BlockedNoEntry, FoundReady
  <2>3. InCallback'
    BY <1>0, <1>1 DEF IInv, PoolPart, InCallback
  <2>4. WorkersConsistent'
    BY <1>0, <1>1 DEF IInv, PoolPart, WorkersConsistent
  <2> QED
    BY <1>2, <2>2, <2>3, <2>4 DEF PoolPart
<1>5. HeldPart'
  <2>1. r \in (1..accepted) \ done
    BY <1>0 DEF IInv, HeldPart, HeldKnown, r
  <2>2. HeldKnown'
    BY <1>0, <1>1, <2>1 DEF IInv, HeldPart, HeldKnown
  <2>3. HeldApart'
    <3>1. \A m \in Callers : workload'[m] # r
      BY <1>0, <1>1 DEF IInv, HeldPart, HeldApart, r
    <3>2. \A v \in Workers : fClientSocket[v] # r
      BY <1>0 DEF IInv, HeldPart, HeldApart, r
    <3>3. \A m, n \in Callers : workload'[m] # NoReq /\ workload'[m] = workload'[n] => m = n
      BY <1>0, <1>1 DEF IInv, HeldPart, HeldApart
    <3>4. \A u, v \in Workers :
            fClientSocket'[u] # NoReq /\ fClientSocket'[u] = fClientSocket'[v] => u = v
      BY <1>0, <1>1, <3>2 DEF IInv, HeldPart, HeldApart
    <3>5. \A m \in Callers, v \in Workers : workload'[m] # NoReq => workload'[m] # fClientSocket'[v]
      BY <1>0, <1>1, <3>1 DEF IInv, HeldPart, HeldApart
    <3> QED
      BY <3>3, <3>4, <3>5 DEF HeldApart
  <2>4. NoneMissing'
    <3> SUFFICES ASSUME NEW q \in 1..accepted, q \notin done
                 PROVE  (\E m \in Callers : workload'[m] = q) \/ (\E v \in Workers : fClientSocket'[v] = q)
      BY <1>0 DEF NoneMissing
    <3>0. q # NoReq
      BY DEF NoReq, IInv, TypeOK
    <3>1. CASE q = r
      BY <1>0, <1>1, <3>1
    <3>2. CASE q # r /\ \E m \in Callers : workload[m] = q
      BY <1>0, <1>1, <3>2 DEF r
    <3>3. CASE \E v \in Workers : fClientSocket[v] = q
      BY <1>0, <1>1, <3>0, <3>3
    <3> QED
      BY <3>1, <3>2, <3>3 DEF IInv, HeldPart, NoneMissing
  <2> QED
    BY <2>2, <2>3, <2>4 DEF HeldPart
<1>6. PhasePart'
  <2>1. ctl \notin {"empty", "finis", "finishing", "down", "awaiting"} /\ ~Renewing
    <3>1. listen[l] = "callback"
      BY <1>0 DEF IInv, PoolPart, InCallback
    <3> QED
      BY <1>0, <3>1 DEF IInv, PhasePart, ListenersOver, ResetBlocked
  <2> QED
    BY <1>0, <2>1 DEF IInv, PhasePart, ResetBlocked, ResetQuiet, ListenersOver, FinishClear, NoProcessor,
       Renewing, ctlVars
<1> QED
  BY <1>3, <1>4, <1>5, <1>6 DEF IInv

----------------------------------------------------------------------------
(* Steps of the workers.                                                   *)

\* A worker wakes up with its request or leaves Run without one.
LEMMA WakeUpKeeps ==
  ASSUME IInv, NEW w \in Workers, CheckRunningState(w) \/ LeaveRun(w),
         UNCHANGED <<listenVars, ctlVars>>
  PROVE  IInv'
<1>1. /\ UNCHANGED <<fRunningState, fClientSocket, fCurrentParallelRequests, done, aborted,
                     fBlockRequestHandling, enterVars>>
      /\ run[w] = "check"
  BY DEF CheckRunningState, LeaveRun
<1>2. /\ fState \in [Workers -> EThreadState]
      /\ run \in [Workers -> {"check", "process", "setready", "over"}]
  BY DEF IInv, TypeOK, PoolTypeOK
<1>3. \/ /\ fState' = fState /\ run' = [run EXCEPT ![w] = "process"]
         /\ fState[w] = eRunning /\ fRunningState[w] = "eWorking"
      \/ /\ fState' = [fState EXCEPT ![w] = eTerminated] /\ run' = [run EXCEPT ![w] = "over"]
         /\ fState[w] = eTerminationRequested
  BY DEF CheckRunningState, LeaveRun, RunGoto
<1>4. TypeOK'
  <2>1. eTerminated \in EThreadState
    BY DEF eTerminated, EThreadState
  <2>2. /\ fState' \in [Workers -> EThreadState]
        /\ run' \in [Workers -> {"check", "process", "setready", "over"}]
    BY <1>2, <1>3, <2>1
  <2> QED
    BY <1>1, <2>2 DEF IInv, TypeOK, PoolTypeOK, enterVars, listenVars, ctlVars
<1>5. PoolPart'
  <2>1. MutexHeld' /\ BlockedNoEntry' /\ InCallback'
    BY <1>1 DEF IInv, PoolPart, MutexHeld, BlockedNoEntry, InCallback, enterVars, listenVars
  <2>2. FoundReady'
    <3>1. hr \in [Callers -> Workers] /\ FoundReady
      BY DEF IInv, TypeOK, PoolTypeOK, PoolPart
    <3> QED
      BY <1>1, <1>2, <1>3, <3>1 DEF FoundReady, enterVars, eRunning, eTerminationRequested
  <2>3. WorkersConsistent'
    BY <1>1, <1>2, <1>3 DEF IInv, PoolPart, WorkersConsistent, eRunning, eTerminationRequested,
       eTerminated
  <2>4. RequestsCounted'
    BY <1>1 DEF IInv, PoolPart, RequestsCounted, Working
  <2> QED
    BY <2>1, <2>2, <2>3, <2>4 DEF PoolPart
<1>6. HeldPart'
  BY <1>1 DEF IInv, HeldPart, HeldKnown, HeldApart, NoneMissing, enterVars, listenVars
<1>7. PhasePart'
  <2>1. FinishClear'
    BY <1>1, <1>2, <1>3 DEF IInv, PhasePart, FinishClear, ctlVars
  <2> QED
    BY <1>1, <2>1 DEF IInv, PhasePart, ResetBlocked, ResetQuiet, ListenersOver, NoProcessor, Renewing,
       listenVars, ctlVars
<1> QED
  BY <1>4, <1>5, <1>6, <1>7 DEF IInv

\* The request is done and the worker has it no more.
LEMMA ProcessKeeps ==
  ASSUME IInv, NEW w \in Workers, DoProcessWorkload(w), UNCHANGED <<listenVars, ctlVars>>
  PROVE  IInv'
<1> DEFINE r == fClientSocket[w]
<1>1. /\ UNCHANGED <<fState, fRunningState, fCurrentParallelRequests, aborted,
                     fBlockRequestHandling, enterVars>>
      /\ run[w] = "process" /\ run' = [run EXCEPT ![w] = "setready"]
      /\ done' = done \cup {r} /\ fClientSocket' = [fClientSocket EXCEPT ![w] = NoReq]
  BY DEF DoProcessWorkload, RunGoto
<1>2. /\ fClientSocket \in [Workers -> Requests \cup {NoReq}]
      /\ run \in [Workers -> {"check", "process", "setready", "over"}]
  BY DEF IInv, TypeOK, PoolTypeOK
<1>3. r # NoReq /\ r \in Requests /\ fRunningState[w] = "eWorking" /\ r \in 1..accepted
  BY <1>1, <1>2 DEF IInv, PoolPart, WorkersConsistent, HeldPart, HeldKnown
<1>4. TypeOK'
  <2>1. done' \subseteq Requests
    BY <1>1, <1>3 DEF IInv, TypeOK, PoolTypeOK
  <2>2. /\ fClientSocket' \in [Workers -> Requests \cup {NoReq}]
        /\ run' \in [Workers -> {"check", "process", "setready", "over"}]
    BY <1>1, <1>2
  <2> QED
    BY <1>1, <2>1, <2>2 DEF IInv, TypeOK, PoolTypeOK, enterVars, listenVars, ctlVars
<1>5. PoolPart'
  <2>1. MutexHeld' /\ BlockedNoEntry' /\ FoundReady' /\ InCallback'
    BY <1>1 DEF IInv, PoolPart, MutexHeld, BlockedNoEntry, FoundReady, InCallback, enterVars,
       listenVars
  <2>2. WorkersConsistent'
    BY <1>1, <1>2, <1>3 DEF IInv, PoolPart, WorkersConsistent
  <2>3. RequestsCounted'
    BY <1>1 DEF IInv, PoolPart, RequestsCounted, Working
  <2> QED
    BY <2>1, <2>2, <2>3 DEF PoolPart
<1>6. HeldPart'
  <2>0. UNCHANGED <<workload, accepted>>
    BY <1>1 DEF enterVars, listenVars
  <2>1. HeldKnown'
    <3>1. \A l \in Callers : workload[l] # NoReq => workload[l] # r
      BY DEF IInv, HeldPart, HeldApart
    <3>2. \A v \in Workers : v # w => fClientSocket[v] # r
      BY <1>3 DEF IInv, HeldPart, HeldApart
    <3> QED
      BY <1>1, <1>2, <1>3, <2>0, <3>1, <3>2 DEF IInv, HeldPart, HeldKnown
  <2>2. HeldApart'
    BY <1>1, <1>2, <2>0 DEF IInv, HeldPart, HeldApart
  <2>3. NoneMissing'
    <3> SUFFICES ASSUME NEW q \in 1..accepted, q \notin done, q # r
                 PROVE  (\E m \in Callers : workload[m] = q) \/ (\E v \in Workers : fClientSocket'[v] = q)
      BY <1>1, <2>0 DEF NoneMissing
    <3>1. (\E m \in Callers : workload[m] = q) \/ (\E v \in Workers : fClientSocket[v] = q)
      BY DEF IInv, HeldPart, NoneMissing
    <3> QED
      BY <1>1, <1>2, <3>1
  <2> QED
    BY <2>1, <2>2, <2>3 DEF HeldPart
<1>7. PhasePart'
  <2>1. FinishClear'
    BY <1>1, <1>2 DEF IInv, PhasePart, FinishClear, ctlVars
  <2> QED
    BY <1>1, <2>1 DEF IInv, PhasePart, ResetBlocked, ResetQuiet, ListenersOver, NoProcessor, Renewing,
       listenVars, ctlVars
<1> QED
  BY <1>4, <1>5, <1>6, <1>7 DEF IInv

\* The worker is ready again and counted out, unless its termination was
\* requested meanwhile: then it stays counted.
LEMMA ReadyKeeps ==
  ASSUME IInv, NEW w \in Workers, SetReady(w), UNCHANGED <<listenVars, ctlVars>>
  PROVE  IInv'
<1>1. /\ UNCHANGED <<fState, fClientSocket, done, aborted, fBlockRequestHandling, enterVars>>
      /\ run[w] = "setready" /\ run' = [run EXCEPT ![w] = "check"]
  BY DEF SetReady, RunGoto
<1>2. /\ fRunningState \in [Workers -> {"eReady", "eWorking"}]
      /\ run \in [Workers -> {"check", "process", "setready", "over"}]
      /\ fRunningState[w] = "eWorking" /\ fClientSocket[w] = NoReq
  BY <1>1 DEF IInv, TypeOK, PoolTypeOK, PoolPart, WorkersConsistent
<1>3. \/ /\ fState[w] = eRunning /\ fRunningState' = [fRunningState EXCEPT ![w] = "eReady"]
         /\ fCurrentParallelRequests' = fCurrentParallelRequests - 1
      \/ fState[w] # eRunning /\ UNCHANGED <<fRunningState, fCurrentParallelRequests>>
  BY <1>2 DEF SetReady, SetRunningState, SetRunningStateOk, HandleStatEvt
<1>4. RequestsCounted'
  <2>1. CASE fState[w] = eRunning
    <3>1. Working' = Working \ {w} /\ w \in Working
      BY <1>2, <1>3, <2>1 DEF Working
    <3>2. Cardinality(Working') = Cardinality(Working) - 1
      BY <3>1, WorkingFinite, FS_RemoveElement
    <3> QED
      BY <1>3, <2>1, <3>2 DEF IInv, PoolPart, RequestsCounted
  <2>2. CASE fState[w] # eRunning
    BY <1>3, <2>2 DEF IInv, PoolPart, RequestsCounted, Working
  <2> QED
    BY <2>1, <2>2
<1>5. TypeOK'
  <2>1. fCurrentParallelRequests' \in 0..N
    <3>1. Cardinality(Working') \in 0..N
      BY WorkersFinite DEF Working
    <3> QED
      BY <1>4, <3>1 DEF RequestsCounted
  <2>2. /\ fRunningState' \in [Workers -> {"eReady", "eWorking"}]
        /\ run' \in [Workers -> {"check", "process", "setready", "over"}]
    BY <1>1, <1>2, <1>3
  <2> QED
    BY <1>1, <2>1, <2>2 DEF IInv, TypeOK, PoolTypeOK, enterVars, listenVars, ctlVars
<1>6. PoolPart'
  <2>1. MutexHeld' /\ BlockedNoEntry' /\ InCallback'
    BY <1>1 DEF IInv, PoolPart, MutexHeld, BlockedNoEntry, InCallback, enterVars, listenVars
  <2>2. FoundReady'
    <3>1. hr \in [Callers -> Workers] /\ FoundReady
      BY DEF IInv, TypeOK, PoolTypeOK, PoolPart
    <3> QED
      BY <1>1, <1>2, <1>3, <3>1 DEF FoundReady, enterVars
  <2>3. WorkersConsistent'
    BY <1>1, <1>2, <1>3 DEF IInv, PoolPart, WorkersConsistent
  <2> QED
    BY <1>4, <2>1, <2>2, <2>3 DEF PoolPart
<1>7. HeldPart'
  BY <1>1 DEF IInv, HeldPart, HeldKnown, HeldApart, NoneMissing, enterVars, listenVars
<1>8. PhasePart'
  <2>1. FinishClear'
    BY <1>1, <1>2 DEF IInv, PhasePart, FinishClear, ctlVars
  <2>2. ResetQuiet'
    BY <1>2, <1>3 DEF IInv, PhasePart, ResetQuiet, Renewing, ctlVars
  <2> QED
    BY <1>1, <2>1, <2>2 DEF IInv, PhasePart, ResetBlocked, ListenersOver, NoProcessor, Renewing,
       listenVars, ctlVars
<1> QED
  BY <1>5, <1>6, <1>7, <1>8 DEF IInv

----------------------------------------------------------------------------
(* The theorems.                                                           *)

\* A started server has no request.
LEMMA InitIInv == Init => IInv
<1> SUFFICES ASSUME Init PROVE IInv
  OBVIOUS
<1> USE DEF Init, PoolInit
<1>1. TypeOK
  <2>1. PoolTypeOK
    <3>1. eRunning \in EThreadState /\ 1 \in Workers /\ 0 \in 0..N
      BY WorkerPoolAssumption DEF EThreadState, eRunning, Workers
    <3>2. fState \in [Workers -> EThreadState] /\ hr \in [Callers -> Workers]
      BY <3>1
    <3> QED
      BY <3>1, <3>2 DEF PoolTypeOK
  <2>2. accepted \in 0..MaxRequests /\ hups \in 0..MaxHups
    BY WorkerPoolAssumption, MaxHupsAssumption
  <2>3. k \in Nat \ {0} /\ processor \in BOOLEAN
    OBVIOUS
  <2> QED
    BY <2>1, <2>2, <2>3 DEF TypeOK
<1>2. Working = {}
  BY DEF Working
<1>3. PoolPart
  BY <1>2, FS_EmptySet DEF PoolPart, MutexHeld, BlockedNoEntry, FoundReady, InCallback,
     WorkersConsistent, RequestsCounted
<1>4. HeldPart
  BY DEF HeldPart, HeldKnown, HeldApart, NoneMissing
<1>5. PhasePart
  BY DEF PhasePart, ResetBlocked, ResetQuiet, ListenersOver, FinishClear, NoProcessor, Renewing
<1> QED
  BY <1>1, <1>3, <1>4, <1>5 DEF IInv

\* Every step of the server keeps the invariant.
LEMMA NextIInv == IInv /\ [Next]_vars => IInv'
<1> SUFFICES ASSUME IInv, [Next]_vars PROVE IInv'
  OBVIOUS
<1>1. CASE UNCHANGED vars
  <2>1. UNCHANGED <<poolVars, listenVars, ctlVars>>
    BY <1>1 DEF vars
  <2>2. PoolTypeOK' /\ PoolPart' /\ HeldPart'
    BY <2>1, PoolUntouched DEF listenVars
  <2>3. TypeOK'
    BY <2>1, <2>2 DEF IInv, TypeOK, listenVars, ctlVars
  <2>4. PhasePart'
    BY <2>1 DEF IInv, PhasePart, ResetBlocked, ResetQuiet, ListenersOver, FinishClear, NoProcessor,
       Renewing, poolVars, workerVars, listenVars, ctlVars
  <2> QED
    BY <2>2, <2>3, <2>4 DEF IInv
<1>2. CASE SigHup \/ SigTerm \/ Reinit \/ Shutdown
  <2>1. CASE PreparePool
    BY <2>1, RebuildKeeps, CtlOnlyKeeps DEF CtlOnly
  <2>2. CASE ~PreparePool
    BY <1>2, <2>2, CtlOnlyKeeps, BlockKeeps, TerminateKeeps, RebuildKeeps
       DEF Reinit, Shutdown, CtlOnly
  <2> QED
    BY <2>1, <2>2
<1>3. ASSUME NEW l \in Callers,
             DoAccept(l) \/ DoCallBack(l) \/ LeaveAcceptLoop(l) \/ ListenerOver(l)
      PROVE  IInv'
  <2>1. CASE DoCallBack(l)
    BY <2>1, FindKeeps, HandOverKeeps DEF DoCallBack, EnterStep
  <2> QED
    BY <1>3, <2>1, AcceptKeeps, LeavingKeeps
<1>4. ASSUME NEW w \in Workers, WorkerStep(w), UNCHANGED <<listenVars, ctlVars>>
      PROVE  IInv'
  BY <1>4, WakeUpKeeps, ProcessKeeps, ReadyKeeps DEF WorkerStep
<1> QED
  BY <1>1, <1>2, <1>3, <1>4 DEF Next

\* The inductive invariant.
THEOREM Invariance == Spec => []IInv
<1> QED
  BY InitIInv, NextIInv, PTL DEF Spec

\* The variables keep their types; in particular the number of parallel
\* requests is never negative and never above the pool size.
THEOREM TypeCorrect == Spec => []TypeOK
<1>1. IInv => TypeOK
  BY DEF IInv
<1> QED
  BY <1>1, Invariance, PTL

\* While a reinit takes the worker pool down and builds it again no worker
\* has a request and no listener is past FindNextRunnable, for any number of
\* listeners and workers and any sequence of SIGHUPs.
THEOREM ReinitFindsNoRequest == Spec => []NoPendingRequests
<1>1. IInv => NoPendingRequests
  <2> SUFFICES ASSUME IInv, Renewing
               PROVE  /\ \A w \in Workers : fClientSocket[w] = NoReq /\ run[w] \notin {"process", "setready"}
                      /\ \A l \in Callers : enter[l] \notin {"find", "set"}
    BY DEF NoPendingRequests
  <2> QED
    BY ResetHoldsNothing, TakenDownNoEntry
<1> QED
  BY <1>1, Invariance, PTL

\* Every accepted request is processed or is with exactly one listener or
\* worker.
THEOREM NoRequestLost == Spec => []NothingLost
<1>1. IInv => NothingLost
  <2> SUFFICES ASSUME IInv, NEW r \in 1..accepted
               PROVE  Cardinality(Holders(r)) = (IF r \in done THEN 0 ELSE 1)
    BY DEF NothingLost
  <2>0. r # NoReq
    BY DEF NoReq, IInv, TypeOK
  <2>1. CASE r \in done
    <3>1. Holders(r) = {}
      BY <2>0, <2>1 DEF Holders, IInv, HeldPart, HeldKnown
    <3> QED
      BY <2>1, <3>1, FS_EmptySet
  <2>2. CASE r \notin done
    <3>1. \E x : Holders(r) = {x}
      <4>1. CASE \E l \in Callers : workload[l] = r
        <5> PICK l \in Callers : workload[l] = r
          BY <4>1
        <5>1. Holders(r) = {l}
          BY <2>0 DEF Holders, IInv, HeldPart, HeldApart
        <5> QED
          BY <5>1
      <4>2. CASE \E w \in Workers : fClientSocket[w] = r
        <5> PICK w \in Workers : fClientSocket[w] = r
          BY <4>2
        <5>1. Holders(r) = {w}
          BY <2>0 DEF Holders, IInv, HeldPart, HeldApart
        <5> QED
          BY <5>1
      <4> QED
        BY <2>2, <4>1, <4>2 DEF IInv, HeldPart, NoneMissing
    <3> QED
      BY <2>2, <3>1, FS_Singleton
  <2> QED
    BY <2>1, <2>2
<1> QED
  BY <1>1, Invariance, PTL

\* No worker thread ends with a request that it was given: neither a reinit
\* nor the shutdown drops one between the hand-over and its processing.
THEOREM WorkersFinishTheirRequest == Spec => []NothingAbandoned
<1>1. IInv => NothingAbandoned
  BY DEF IInv, PoolPart, WorkersConsistent, NothingAbandoned
<1> QED
  BY <1>1, Invariance, PTL

----------------------------------------------------------------------------
(* The server implements RequestService.                                   *)

\* A worker in Run is running or asked to terminate: a thread is terminated
\* only after Run, or when it was never started.
LiveInRun == \A w \in Workers : run[w] # "over" => fState[w] \in {eRunning, eTerminationRequested}

\* TerminateWorker asks for the termination of a worker in Run.
LEMMA TerminateLive ==
  ASSUME TypeOK, LiveInRun, NEW v, TerminateWorker(v)
  PROVE  LiveInRun'
<1>1. run' = run /\ fState' = [fState EXCEPT ![v] = AfterSetState(fState[v], eTerminationRequested, FALSE)]
  BY DEF TerminateWorker
<1>2. fState \in [Workers -> EThreadState]  BY DEF TypeOK, PoolTypeOK
<1>3. \A cur \in {eRunning, eTerminationRequested} :
        AfterSetState(cur, eTerminationRequested, FALSE) = eTerminationRequested
  BY DEF AfterSetState, SetStateOk, SetStateTarget, eRunning, eTerminationRequested, eCreated,
         eStartRequested, eTerminatedRunMethod, eTerminated
<1> SUFFICES ASSUME NEW w \in Workers, run[w] # "over"
             PROVE  fState'[w] \in {eRunning, eTerminationRequested}
  BY <1>1 DEF LiveInRun
<1>4. fState[w] \in {eRunning, eTerminationRequested}  BY DEF LiveInRun
<1>5. fState'[w] = IF w = v THEN AfterSetState(fState[w], eTerminationRequested, FALSE) ELSE fState[w]
  BY <1>1, <1>2
<1> QED  BY <1>3, <1>4, <1>5

\* No step takes a worker in Run to eTerminated.
LEMMA LiveKeeps ==
  ASSUME TypeOK, LiveInRun, [Next]_vars
  PROVE  LiveInRun'
<1>1. ASSUME UNCHANGED <<fState, run>>  PROVE LiveInRun'  BY <1>1 DEF LiveInRun
<1>2. CASE UNCHANGED vars  BY <1>1, <1>2 DEF vars, poolVars, workerVars
<1>3. CASE SigHup \/ SigTerm \/ Shutdown
  <2>1. CASE FinishOne  BY <2>1, TerminateLive DEF FinishOne
  <2>2. CASE ~FinishOne
    BY <1>1, <1>3, <2>2 DEF SigHup, SigTerm, Shutdown, PrepareShutdown, StopAcceptLoop,
       StopAcceptLoopReturns, HandlerOver, JoinReturns, AwaitLastEmpty, FinishReturns, Down,
       poolVars, workerVars
  <2> QED  BY <2>1, <2>2
<1>4. CASE Reinit
  <2>1. CASE TerminateOne  BY <2>1, TerminateLive DEF TerminateOne
  <2>2. CASE ReAlloc
    <3>1. \A w \in Workers : run'[w] = "over"  BY <2>2 DEF ReAlloc, AllocPool
    <3> QED  BY <3>1 DEF LiveInRun
  <2>3. CASE PreparePool
    <3>1. CASE InitPool \/ InitPoolHangs
      <4>1. PICK states : StartAll(states)  BY <3>1 DEF InitPool, InitPoolHangs
      <4> QED  BY <4>1 DEF StartAll, LiveInRun
    <3>2. CASE UNCHANGED poolVars  BY <1>1, <3>2 DEF poolVars, workerVars
    <3> QED  BY <2>3, <3>1, <3>2 DEF PreparePool
  <2>4. CASE ~TerminateOne /\ ~ReAlloc /\ ~PreparePool
    BY <1>1, <1>4, <2>4 DEF Reinit, BlockPool, AwaitResetEmpty, GiveUpUnBlock, GiveUpUnblockPool,
       DoGlobalReinit, MakeProcessorFails, TerminateReturns, UnBlock, UnblockPool, SetBlock,
       poolVars, workerVars
  <2> QED  BY <2>1, <2>2, <2>3, <2>4
<1>5. ASSUME NEW l \in Callers,
             DoAccept(l) \/ DoCallBack(l) \/ LeaveAcceptLoop(l) \/ ListenerOver(l)
      PROVE  LiveInRun'
  BY <1>1, <1>5 DEF DoAccept, DoCallBack, LeaveAcceptLoop, ListenerOver, Enter, EnterStep, EnterPasses,
     FindNextRunnable, EnterWorking, poolVars, workerVars
<1>6. ASSUME NEW w \in Workers, WorkerStep(w)  PROVE LiveInRun'
  <2>1. run \in [Workers -> {"check", "process", "setready", "over"}] /\ fState \in [Workers -> EThreadState]
    BY DEF TypeOK, PoolTypeOK
  <2>2. CASE LeaveRun(w)  BY <2>1, <2>2 DEF LeaveRun, RunGoto, LiveInRun
  <2>3. CASE CheckRunningState(w)  BY <2>1, <2>3 DEF CheckRunningState, RunGoto, LiveInRun
  <2>4. CASE DoProcessWorkload(w)  BY <2>1, <2>4 DEF DoProcessWorkload, RunGoto, LiveInRun
  <2>5. CASE SetReady(w)  BY <2>1, <2>5 DEF SetReady, RunGoto, LiveInRun
  <2> QED  BY <1>6, <2>2, <2>3, <2>4, <2>5 DEF WorkerStep
<1> QED  BY <1>2, <1>3, <1>4, <1>5, <1>6 DEF Next

\* The requests that listeners have in hand.
Waiting == {workload[l] : l \in Callers} \ {NoReq}

\* A step that moves no request and leaves the service as it is.
LEMMA ServiceStutters ==
  ASSUME UNCHANGED <<workload, fClientSocket, done, aborted>>, ServiceState' = ServiceState
  PROVE  UNCHANGED Service!vars
BY DEF Service!vars

\* Between reinits the server is open, while it is down nothing more comes.
LEMMA ServiceStates ==
  /\ ServiceState = "renewing" <=> Renewing
  /\ ServiceState = "closing" <=> ctl \in {"empty", "finis", "finishing"}
  /\ ServiceState = "down" <=> ctl = "down"
  /\ ServiceState = "open" <=> ~Renewing /\ ctl \notin {"empty", "finis", "finishing", "down"}
BY DEF ServiceState, Renewing

\* The service stays as it is with the places of the two threads.
LEMMA ServiceStays ==
  ASSUME UNCHANGED <<ctl, processor>>
  PROVE  ServiceState' = ServiceState
BY DEF ServiceState, Renewing

\* accept() is an acceptance of a request that is not known yet.
LEMMA AcceptRefines ==
  ASSUME IInv, NEW l \in Callers, DoAccept(l)
  PROVE  Service!Next
<1> PICK r : r = accepted + 1  OBVIOUS
<1>1. MaxRequests \in Nat /\ accepted \in 0..MaxRequests /\ accepted < MaxRequests
  BY WorkerPoolAssumption DEF DoAccept, IInv, TypeOK
<1>2. r \in Requests /\ r # NoReq /\ r \notin 1..accepted  BY <1>1 DEF Requests, NoReq
<1>3. ctl \notin {"empty", "finis", "finishing", "down"}  BY DEF DoAccept, IInv, PhasePart, ListenersOver
<1>4. r \notin done \cup aborted /\ \A w \in Workers : fClientSocket[w] # r  BY <1>2 DEF IInv, HeldPart, HeldKnown
<1>5. r \notin Waiting  BY <1>2 DEF Waiting, IInv, HeldPart, HeldKnown
<1>6. workload' = [workload EXCEPT ![l] = r] /\ workload \in [Callers -> Requests \cup {NoReq}]
  BY DEF DoAccept, Enter, IInv, TypeOK, PoolTypeOK
<1>7. workload[l] = NoReq  BY DEF DoAccept, Enter, IInv, PoolPart, InCallback
<1>8. Waiting' = Waiting \cup {r}  BY <1>2, <1>6, <1>7 DEF Waiting
<1>9. UNCHANGED <<fClientSocket, done, aborted, ctl, processor>>
  BY DEF DoAccept, Enter, workerVars, ctlVars
<1>10. ServiceState' = ServiceState /\ ServiceState \in {"open", "renewing"}
  BY <1>3, <1>9, ServiceStates, ServiceStays
<1>11. Service!Accept(r)  BY <1>4, <1>5, <1>8, <1>9, <1>10 DEF Service!Accept, Waiting
<1> QED  BY <1>2, <1>11 DEF Service!Next

\* SetWorking gives the request of a listener to a worker without one.
LEMMA HandOverRefines ==
  ASSUME IInv, NEW l \in Callers, DoCallBack(l), EnterWorking(l)
  PROVE  Service!Next
<1> PICK r : r = workload[l]  OBVIOUS
<1> PICK w : w = hr[l]  OBVIOUS
<1>1. /\ w \in Workers /\ enter[l] = "set" /\ r # NoReq /\ fClientSocket[w] = NoReq
      /\ ~fBlockRequestHandling
      /\ fClientSocket' = [fClientSocket EXCEPT ![w] = r]
      /\ workload' = [workload EXCEPT ![l] = NoReq]
      /\ UNCHANGED <<done, aborted, ctlVars>>
  BY HandOver
<1>2. ~Renewing  BY <1>1 DEF IInv, PhasePart, ResetBlocked
<1>3. ctl \notin {"empty", "finis", "finishing", "down"}
  <2>1. listen[l] = "callback"  BY <1>1 DEF IInv, PoolPart, InCallback
  <2> QED  BY <2>1 DEF IInv, PhasePart, ListenersOver
<1>4. ServiceState = "open" /\ ServiceState' = ServiceState
  BY <1>1, <1>2, <1>3, ServiceStates, ServiceStays DEF ctlVars
<1>5. workload \in [Callers -> Requests \cup {NoReq}]  BY DEF IInv, TypeOK, PoolTypeOK
<1>6. r \in Requests /\ r \in Waiting  BY <1>1, <1>5 DEF Waiting
<1>7. \A m \in Callers : m # l => workload[m] # r  BY <1>1 DEF IInv, HeldPart, HeldApart
<1>8. \A m \in Callers : workload'[m] = IF m = l THEN NoReq ELSE workload[m]  BY <1>1, <1>5
<1>9. Waiting' = Waiting \ {r}  BY <1>7, <1>8 DEF Waiting
<1>10. Service!Assign(r, w)  BY <1>1, <1>4, <1>6, <1>9 DEF Service!Assign, Waiting
<1> QED  BY <1>1, <1>6, <1>10 DEF Service!Next

\* DoProcessWorkload answers the request of its worker.
LEMMA ProcessRefines ==
  ASSUME IInv, NEW w \in Workers, DoProcessWorkload(w), UNCHANGED <<listenVars, ctlVars>>
  PROVE  Service!Next
<1>1. fClientSocket[w] # NoReq  BY DEF DoProcessWorkload, IInv, PoolPart, WorkersConsistent
<1>2. ServiceState' = ServiceState  BY ServiceStays DEF ctlVars
<1>3. /\ done' = done \cup {fClientSocket[w]}
      /\ fClientSocket' = [fClientSocket EXCEPT ![w] = NoReq] /\ workload' = workload
      /\ aborted' = aborted
  BY DEF DoProcessWorkload, enterVars
<1>4. (done \ aborted)' = (done \ aborted) \cup ({fClientSocket[w]} \ aborted)  BY <1>3
<1>5. Service!End(w)  BY <1>1, <1>2, <1>3, <1>4 DEF Service!End
<1> QED  BY <1>5 DEF Service!Next

\* A reset starts with an empty pool, and ends with one.
LEMMA RenewalRefines ==
  ASSUME IInv,
         \/ AwaitResetEmpty \/ DoGlobalReinit \/ MakeProcessorFails \/ PreparePool \/ UnBlock
         \/ (HandlerOver /\ ~processor)
  PROVE  [Service!Next]_(Service!vars)
<1>1. UNCHANGED <<workload, fClientSocket, done, aborted>>
  BY DEF AwaitResetEmpty, DoGlobalReinit, MakeProcessorFails, PreparePool, UnBlock, HandlerOver,
     InitPool, InitPoolHangs, StartAll, poolVars, workerVars, enterVars
<1>2. CASE ServiceState' = ServiceState  BY <1>1, <1>2, ServiceStutters
<1>3. CASE ctl = "awaiting" /\ ctl' = "reset" /\ Empty
  <2>1. \A w \in Workers : fClientSocket[w] = NoReq  BY <1>3, EmptyIsReady
  <2>2. ServiceState = "open" /\ ServiceState' = "renewing"  BY <1>3 DEF ServiceState, Renewing
  <2>3. Service!Renew  BY <1>1, <2>1, <2>2 DEF Service!Renew, Service!Idle
  <2> QED  BY <2>3 DEF Service!Next
<1>4. CASE Renewing /\ ctl' \in {"shutdown", "unblock", "join"}
  <2>1. \A w \in Workers : fClientSocket[w] = NoReq  BY <1>4, ResetHoldsNothing
  <2>2. ServiceState = "renewing" /\ ServiceState' = "open"  BY <1>4 DEF ServiceState, Renewing
  <2>3. Service!Reopen  BY <1>1, <2>1, <2>2 DEF Service!Reopen, Service!Idle
  <2> QED  BY <2>3 DEF Service!Next
<1>5. CASE AwaitResetEmpty
  <2>1. CASE ctl' = "giveup"  BY <1>2, <1>5, <2>1 DEF AwaitResetEmpty, ServiceState, Renewing
  <2> QED  BY <1>3, <1>5, <2>1 DEF AwaitResetEmpty, Goto
<1>6. CASE DoGlobalReinit
  <2>1. CASE ctl' = "terminate"  BY <1>2, <1>6, <2>1 DEF DoGlobalReinit, ServiceState, Renewing
  <2> QED  BY <1>4, <1>6, <2>1 DEF DoGlobalReinit, Renewing
<1>7. CASE PreparePool
  <2>1. CASE ctl' \in {"reinited", "startwait"}  BY <1>2, <1>7, <2>1 DEF PreparePool, ServiceState, Renewing
  <2> QED  BY <1>4, <1>7, <2>1 DEF PreparePool, Goto, Renewing
<1>8. CASE UnBlock  BY <1>4, <1>8 DEF UnBlock, Goto, Renewing
<1>9. CASE MakeProcessorFails  BY <1>2, <1>9 DEF MakeProcessorFails, ServiceState, Renewing
<1>10. CASE HandlerOver /\ ~processor  BY <1>2, <1>10 DEF HandlerOver, ServiceState, Renewing
<1> QED  BY <1>5, <1>6, <1>7, <1>8, <1>9, <1>10

\* The main thread comes back from Join when no listener has a request, and
\* the pools are deleted with nothing left to answer.
LEMMA DownRefines ==
  ASSUME IInv, LiveInRun, JoinReturns \/ Down
  PROVE  Service!Next
<1>1. UNCHANGED <<workload, fClientSocket, done, aborted>>
  BY DEF JoinReturns, Down, poolVars, workerVars, enterVars
<1>2. \A l \in Callers : workload[l] = NoReq
  BY DEF JoinReturns, Down, IInv, PhasePart, ListenersOver, PoolPart, InCallback
<1>3. Waiting = {}  BY <1>2 DEF Waiting
<1>4. CASE JoinReturns
  <2>1. ServiceState = "open" /\ ServiceState' = "closing"
    BY <1>4 DEF JoinReturns, Goto, ServiceState, Renewing
  <2>2. Service!Close  BY <1>1, <1>3, <2>1 DEF Service!Close, Waiting
  <2> QED  BY <2>2 DEF Service!Next
<1>5. CASE Down
  <2>1. \A w \in Workers : fState[w] = eTerminated  BY <1>5 DEF Down, MayDelete, Terminated
  <2>2. \A w \in Workers : run[w] = "over"
    BY <2>1 DEF LiveInRun, eTerminated, eRunning, eTerminationRequested
  <2>3. \A w \in Workers : fClientSocket[w] = NoReq
    BY <2>2 DEF IInv, PoolPart, WorkersConsistent
  <2>4. ServiceState = "closing" /\ ServiceState' = "down"
    BY <1>5 DEF Down, Goto, ServiceState, Renewing
  <2>5. Service!GoDown  BY <1>1, <2>3, <2>4 DEF Service!GoDown, Service!Idle
  <2> QED  BY <2>5 DEF Service!Next
<1> QED  BY <1>4, <1>5

\* The request to terminate aborts the request of a worker at shutdown, and
\* never in a reset: then no worker has one.
LEMMA TerminateRefines ==
  ASSUME IInv, TerminateOne \/ FinishOne
  PROVE  [Service!Next]_(Service!vars)
<1>1. /\ TerminateWorker(k) /\ k \in Workers /\ UNCHANGED processor
      /\ \/ ctl = "terminate" /\ ctl' = "terminating"
         \/ ctl = "finis" /\ ctl' = "finishing"
  BY WorkerPoolAssumption DEF TerminateOne, FinishOne, Goto, IInv, TypeOK, Workers
<1>2. /\ UNCHANGED <<workload, fClientSocket, done>>
      /\ aborted' = aborted \cup ({fClientSocket[k]} \ {NoReq})
  BY <1>1 DEF TerminateWorker, enterVars
<1>3. ServiceState' = ServiceState /\ (ctl = "finis" => ServiceState = "closing")
  BY <1>1 DEF ServiceState, Renewing
<1>4. CASE fClientSocket[k] = NoReq
  <2>1. aborted' = aborted  BY <1>2, <1>4
  <2> QED  BY <1>2, <1>3, <2>1, ServiceStutters
<1>5. CASE fClientSocket[k] # NoReq
  <2>1. ctl = "finis"  BY <1>1, <1>5, ResetHoldsNothing DEF Renewing
  <2>2. aborted' = aborted \cup {fClientSocket[k]}  BY <1>2, <1>5
  <2>3. fClientSocket[k] \notin done  BY <1>1, <1>5 DEF IInv, HeldPart, HeldKnown
  <2>4. (done \ aborted)' = done \ aborted  BY <1>2, <2>2, <2>3
  <2>5. Service!Abort(k)  BY <1>2, <1>3, <1>5, <2>1, <2>2, <2>4 DEF Service!Abort
  <2> QED  BY <1>1, <2>5 DEF Service!Next
<1> QED  BY <1>4, <1>5

\* The other steps of the interrupt handler and the main thread, and the
\* rebuilding of the pool, move no request.
LEMMA CtlStutters ==
  ASSUME IInv,
         \/ SigHup \/ SigTerm \/ BlockPool \/ GiveUpUnBlock \/ GiveUpUnblockPool
         \/ TerminateReturns \/ ReAlloc \/ UnblockPool
         \/ PrepareShutdown \/ StopAcceptLoop \/ StopAcceptLoopReturns
         \/ (HandlerOver /\ processor) \/ AwaitLastEmpty \/ FinishReturns
  PROVE  UNCHANGED Service!vars
<1>1. CASE ReAlloc
  <2>1. Renewing  BY <1>1 DEF ReAlloc, Renewing
  <2>2. fClientSocket' = fClientSocket  BY <1>1, <2>1, ResetHoldsNothing DEF ReAlloc, AllocPool
  <2>3. UNCHANGED <<workload, done, aborted>> /\ ServiceState' = ServiceState
    BY <1>1 DEF ReAlloc, AllocPool, enterVars, Goto, ServiceState, Renewing
  <2> QED  BY <2>2, <2>3, ServiceStutters
<1>2. CASE SigHup \/ SigTerm \/ BlockPool \/ GiveUpUnBlock \/ GiveUpUnblockPool \/ UnblockPool
  <2>1. UNCHANGED <<workload, fClientSocket, done, aborted>>
    BY <1>2 DEF SigHup, SigTerm, BlockPool, GiveUpUnBlock, GiveUpUnblockPool, UnblockPool, SetBlock,
       poolVars, workerVars, enterVars
  <2>2. ServiceState' = ServiceState
    BY <1>2 DEF SigHup, SigTerm, BlockPool, GiveUpUnBlock, GiveUpUnblockPool, UnblockPool, Goto,
       ServiceState, Renewing
  <2> QED  BY <2>1, <2>2, ServiceStutters
<1>3. CASE \/ TerminateReturns \/ FinishReturns \/ PrepareShutdown \/ StopAcceptLoop
           \/ StopAcceptLoopReturns \/ (HandlerOver /\ processor) \/ AwaitLastEmpty
  <2>1. UNCHANGED <<workload, fClientSocket, done, aborted>>
    BY <1>3 DEF TerminateReturns, FinishReturns, PrepareShutdown, StopAcceptLoop,
       StopAcceptLoopReturns, HandlerOver, AwaitLastEmpty, poolVars, workerVars, enterVars
  <2>2. ctl = "shutdown" => processor  BY DEF IInv, PhasePart, NoProcessor, MainPCs
  <2>3. ServiceState' = ServiceState
    BY <1>3, <2>2 DEF TerminateReturns, FinishReturns, PrepareShutdown, StopAcceptLoop,
       StopAcceptLoopReturns, HandlerOver, AwaitLastEmpty, Goto, ServiceState, Renewing
  <2> QED  BY <2>1, <2>3, ServiceStutters
<1> QED  BY <1>1, <1>2, <1>3

\* So do the listeners and the workers between accept, hand-over and answer.
LEMMA ThreadsStutter ==
  ASSUME \/ \E l \in Callers : (DoCallBack(l) /\ ~EnterWorking(l)) \/ LeaveAcceptLoop(l) \/ ListenerOver(l)
         \/ \E w \in Workers : /\ CheckRunningState(w) \/ LeaveRun(w) \/ SetReady(w)
                               /\ UNCHANGED <<listenVars, ctlVars>>
  PROVE  UNCHANGED Service!vars
<1>1. UNCHANGED <<workload, fClientSocket, done, aborted>>
  BY DEF DoCallBack, EnterStep, EnterPasses, FindNextRunnable, LeaveAcceptLoop, ListenerOver,
     CheckRunningState, LeaveRun, SetReady, poolVars, workerVars, enterVars
<1>2. UNCHANGED <<ctl, processor>>
  BY DEF DoCallBack, LeaveAcceptLoop, ListenerOver, ctlVars
<1> QED  BY <1>1, <1>2, ServiceStutters, ServiceStays

\* ServiceSpec: the listeners, the worker pool and the interrupt handler
\* implement RequestService, step by step, for every number of each.
THEOREM ServerImplementsService == Spec => ServiceSpec
<1>1. Init => Service!Init
  <2> SUFFICES ASSUME Init  PROVE Service!Init  OBVIOUS
  <2>1. {workload[l] : l \in Callers} \ {NoReq} = {}  BY DEF Init, PoolInit
  <2> QED  BY <2>1 DEF Init, PoolInit, Service!Init, ServiceState, Renewing
<1>2. Init => LiveInRun  BY DEF Init, PoolInit, LiveInRun
<1>3. TypeOK /\ LiveInRun /\ [Next]_vars => LiveInRun'  BY LiveKeeps
<1>4. Spec => []LiveInRun  BY <1>2, <1>3, TypeCorrect, PTL DEF Spec
<1>5. IInv /\ LiveInRun /\ [Next]_vars => [Service!Next]_(Service!vars)
  <2> SUFFICES ASSUME IInv, LiveInRun, [Next]_vars  PROVE [Service!Next]_(Service!vars)  OBVIOUS
  <2>1. CASE UNCHANGED vars
    <3>1. UNCHANGED <<workload, fClientSocket, done, aborted, ctl, processor>>
      BY <2>1 DEF vars, poolVars, workerVars, enterVars, ctlVars
    <3> QED  BY <3>1, ServiceStutters, ServiceStays
  <2>2. CASE SigHup \/ SigTerm \/ Reinit \/ Shutdown
    BY <2>2, CtlStutters, RenewalRefines, DownRefines, TerminateRefines DEF Reinit, Shutdown
  <2>3. ASSUME NEW l \in Callers,
               DoAccept(l) \/ DoCallBack(l) \/ LeaveAcceptLoop(l) \/ ListenerOver(l)
        PROVE  [Service!Next]_(Service!vars)
    BY <2>3, AcceptRefines, HandOverRefines, ThreadsStutter
  <2>4. ASSUME NEW w \in Workers, WorkerStep(w), UNCHANGED <<listenVars, ctlVars>>
        PROVE  [Service!Next]_(Service!vars)
    BY <2>4, ProcessRefines, ThreadsStutter DEF WorkerStep
  <2> QED  BY <2>1, <2>2, <2>3, <2>4 DEF Next
<1> QED  BY <1>1, <1>4, <1>5, Invariance, PTL DEF Spec, ServiceSpec, Service!Spec
=============================================================================
