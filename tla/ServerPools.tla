----------------------------- MODULE ServerPools -----------------------------
(***************************************************************************)
(* A Server with a ServerThreadPoolsManager (wdbase/Server.cpp,            *)
(* ServerUtils.cpp, ServerThreadPoolsManager.cpp): listeners accept        *)
(* requests and hand them to the worker pool; the interrupt handler        *)
(* reinitialises the server on SIGHUP and shuts it down on SIGTERM; the    *)
(* main thread waits in Join(0) and then takes the pools down.             *)
(*                                                                         *)
(* The main thread acts only when the listeners are gone and the           *)
(* destructor of the interrupt handler has waited for its thread, so the   *)
(* two share the program counter ctl.                                      *)
(***************************************************************************)
EXTENDS WorkerPool

CONSTANT MaxHups   \* bound: number of SIGHUPs

ASSUME MaxHupsAssumption == MaxHups \in Nat

VARIABLES listen,     \* of each listener: in accept(), in DoCallBack, leaving the loop, over
          fAlive,     \* of each listener's Acceptor
          accepted,   \* number of requests accepted so far
          fBlocked,   \* RequestBlocker
          processor,  \* MakeProcessor has found a RequestProcessor
          ctl, k,     \* the interrupt handler, then the main thread; its loop index
          hups

listenVars == <<listen, fAlive, accepted>>
ctlVars    == <<fBlocked, processor, ctl, k, hups>>
vars       == <<poolVars, listenVars, ctlVars>>

HupPCs  == {"blocking", "awaiting", "reset", "terminate", "terminating", "alloc",
            "startwait", "reinited", "unblock", "giveup", "gaveup"}
StopPCs == {"shutdown", "stop", "stopping"}
MainPCs == {"join", "empty", "finis", "finishing", "down"}

\* The server is being taken down.
ShuttingDown == ctl \in StopPCs \cup MainPCs

TypeOK ==
  /\ PoolTypeOK
  /\ listen \in [Callers -> {"accept", "callback", "leave", "over"}]
  /\ fAlive \in [Callers -> BOOLEAN]
  /\ accepted \in 0..MaxRequests
  /\ fBlocked \in BOOLEAN /\ processor \in BOOLEAN
  /\ ctl \in {"sigwait"} \cup HupPCs \cup StopPCs \cup MainPCs
  /\ k \in Nat \ {0}
  /\ hups \in 0..MaxHups

Init ==
  /\ PoolInit
  /\ listen = [l \in Callers |-> "accept"]
  /\ fAlive = [l \in Callers |-> TRUE]
  /\ accepted = 0
  /\ fBlocked = FALSE /\ processor = TRUE
  /\ ctl = "sigwait" /\ k = 1 /\ hups = 0

----------------------------------------------------------------------------
(* Acceptor::RunAcceptLoop.  The listener owns the mutex of its callback   *)
(* except in accept().                                                     *)

\* accept() returns with a connection.
DoAccept(l) ==
  /\ listen[l] = "accept" /\ fAlive[l] /\ accepted < MaxRequests
  /\ accepted' = accepted + 1
  /\ Enter(l, accepted + 1)
  /\ listen' = [listen EXCEPT ![l] = "callback"]
  /\ UNCHANGED <<fAlive, ctlVars>>

\* DoCallBack: inside Enter, and back in the loop when it returns.
DoCallBack(l) ==
  /\ EnterStep(l)
  /\ listen' = [listen EXCEPT ![l] = IF enter'[l] = "out" THEN "accept" ELSE @]
  /\ UNCHANGED <<fAlive, accepted, ctlVars>>

\* accept() returns after StopAcceptLoop: the connection is closed, fStopped
\* is set and signalled ...
LeaveAcceptLoop(l) ==
  /\ listen[l] = "accept" /\ ~fAlive[l]
  /\ listen' = [listen EXCEPT ![l] = "leave"]
  /\ UNCHANGED <<poolVars, fAlive, accepted, ctlVars>>

\* ... and the thread terminates.
ListenerOver(l) ==
  /\ listen[l] = "leave"
  /\ listen' = [listen EXCEPT ![l] = "over"]
  /\ UNCHANGED <<poolVars, fAlive, accepted, ctlVars>>

\* The listeners are numbered in the order in which the pool stops them.
Listener == CHOOSE f \in [1..Cardinality(Callers) -> Callers] :
              \A i, j \in 1..Cardinality(Callers) : f[i] = f[j] => i = j

----------------------------------------------------------------------------
(* InterruptHandler::Run and Server::GlobalReinit.                         *)

Goto(pc) == ctl' = pc /\ UNCHANGED k

\* SIGHUP; Server::BlockRequests begins with the RequestBlocker.
SigHup ==
  /\ ctl = "sigwait" /\ hups < MaxHups
  /\ hups' = hups + 1
  /\ fBlocked' = TRUE
  /\ Goto("blocking")
  /\ UNCHANGED <<poolVars, processor, listenVars>>

\* ServerThreadPoolsManager::BlockRequests: block the pool ...
BlockPool ==
  /\ ctl = "blocking" /\ SetBlock(TRUE) /\ Goto("awaiting")
  /\ UNCHANGED <<fBlocked, processor, hups, listenVars>>

\* ... and wait until it is empty.
AwaitResetEmpty ==
  /\ ctl = "awaiting"
  /\ \/ Empty /\ Goto("reset")
     \/ AwaitGivesUp /\ Goto("giveup")
  /\ UNCHANGED <<poolVars, fBlocked, processor, hups, listenVars>>

\* UnblockRequests, in two steps, when GlobalReinit could not block.
GiveUpUnBlock ==
  /\ ctl = "giveup" /\ fBlocked' = FALSE /\ Goto("gaveup")
  /\ UNCHANGED <<poolVars, processor, hups, listenVars>>

GiveUpUnblockPool ==
  /\ ctl = "gaveup" /\ SetBlock(FALSE) /\ Goto("shutdown")
  /\ UNCHANGED <<fBlocked, processor, hups, listenVars>>

\* DoGlobalReinit, up to SetupThreadPool of this server: a module may fail, or
\* the configuration may be unreadable.
DoGlobalReinit ==
  /\ ctl = "reset"
  /\ ctl' \in {"terminate", "shutdown"} /\ k' = 1
  /\ UNCHANGED <<poolVars, fBlocked, processor, hups, listenVars>>

\* SetupThreadPool, when MakeProcessor finds no processor: PrepareShutdown(-1)
\* stops the listeners before the pool is initialised.
MakeProcessorFails ==
  /\ ctl = "reset"
  /\ processor' = FALSE /\ fBlocked' = TRUE
  /\ ctl' = "stop" /\ k' = 1
  /\ UNCHANGED <<poolVars, hups, listenVars>>

\* Finis(5): Terminate asks each worker ...
TerminateOne ==
  /\ ctl = "terminate" /\ k <= N
  /\ TerminateWorker(k) /\ Goto("terminating")
  /\ UNCHANGED <<fBlocked, processor, hups, listenVars>>

\* ... and waits for it, at most 5 seconds; the result is only asserted.
TerminateReturns ==
  /\ ctl = "terminating"
  /\ ctl' = "terminate" /\ k' = k + 1
  /\ UNCHANGED <<poolVars, fBlocked, processor, hups, listenVars>>

\* DoDeletePool and AllocPool.
ReAlloc ==
  /\ ctl = "terminate" /\ k > N /\ MayDelete
  /\ AllocPool /\ Goto("alloc")
  /\ UNCHANGED <<fBlocked, processor, hups, listenVars>>

\* PreparePool: InitPool, which returns or not, or -1 when CanReInitPool finds
\* no processor.  Then the listeners are over: the PrepareShutdown of the
\* interrupt handler has nothing left to stop.
PreparePool ==
  /\ ctl = "alloc"
  /\ \/ processor /\ InitPool /\ Goto("reinited")
     \/ processor /\ InitPoolHangs /\ Goto("startwait")
     \/ ~processor /\ UNCHANGED poolVars /\ Goto("join")
  /\ UNCHANGED <<fBlocked, processor, hups, listenVars>>

\* Server::UnblockRequests: first the RequestBlocker ("Set to unblocked before
\* the threads accept requests again"), or a later module fails.
UnBlock ==
  /\ ctl = "reinited"
  /\ \/ fBlocked' = FALSE /\ Goto("unblock")
     \/ UNCHANGED fBlocked /\ Goto("shutdown")
  /\ UNCHANGED <<poolVars, processor, hups, listenVars>>

\* Mutant: the pool is not unblocked.
UnblockPoolForgotten ==
  /\ ctl = "unblock" /\ Goto("sigwait")
  /\ UNCHANGED <<poolVars, fBlocked, processor, hups, listenVars>>

\* ... then the pool.
UnblockPool ==
  /\ ctl = "unblock" /\ SetBlock(FALSE) /\ Goto("sigwait")
  /\ UNCHANGED <<fBlocked, processor, hups, listenVars>>

----------------------------------------------------------------------------
(* Shutdown.                                                               *)

\* SIGTERM or SIGINT.
SigTerm ==
  /\ ctl = "sigwait" /\ Goto("shutdown")
  /\ UNCHANGED <<poolVars, fBlocked, processor, hups, listenVars>>

\* DoPrepareShutdown blocks the RequestBlocker.
PrepareShutdown ==
  /\ ctl = "shutdown"
  /\ fBlocked' = TRUE /\ ctl' = "stop" /\ k' = 1
  /\ UNCHANGED <<poolVars, processor, hups, listenVars>>

\* Mutant: the listener is not told to leave its loop.
StopAcceptLoopAlive ==
  /\ ctl = "stop" /\ k <= Cardinality(Callers)
  /\ listen[Listener[k]] = "accept"
  /\ Goto("stopping")
  /\ UNCHANGED <<poolVars, listenVars, fBlocked, processor, hups>>

\* Terminate of the next listener: its hook calls StopAcceptLoop, which gets
\* the mutex of the callback when the listener is in accept() ...
StopAcceptLoop ==
  /\ ctl = "stop" /\ k <= Cardinality(Callers)
  /\ listen[Listener[k]] = "accept"
  /\ fAlive' = [fAlive EXCEPT ![Listener[k]] = FALSE]
  /\ Goto("stopping")
  /\ UNCHANGED <<poolVars, listen, accepted, fBlocked, processor, hups>>

\* ... and waits until fStopped is signalled; Terminate waits for the thread.
StopAcceptLoopReturns ==
  /\ ctl = "stopping" /\ listen[Listener[k]] = "over"
  /\ ctl' = "stop" /\ k' = k + 1
  /\ UNCHANGED <<poolVars, fBlocked, processor, hups, listenVars>>

\* The interrupt handler is through, or is back from MakeProcessor and goes
\* on with the initialisation of the pool.
HandlerOver ==
  /\ ctl = "stop" /\ k > Cardinality(Callers)
  /\ \/ processor /\ Goto("join")
     \/ ~processor /\ ctl' = "terminate" /\ k' = 1
  /\ UNCHANGED <<poolVars, fBlocked, processor, hups, listenVars>>

\* Join(0) returns in the main thread; then DoTerminate, where
\* ServerThreadPoolsManager::Terminate waits for the last requests.
JoinReturns ==
  /\ ctl = "join" /\ \A l \in Callers : listen[l] = "over"
  /\ Goto("empty")
  /\ UNCHANGED <<poolVars, fBlocked, processor, hups, listenVars>>

\* Mutant: the workers are terminated at once.
AwaitLastEmptyNot ==
  /\ ctl = "empty"
  /\ ctl' = "finis" /\ k' = 1
  /\ UNCHANGED <<poolVars, fBlocked, processor, hups, listenVars>>

\* AwaitEmpty; its answer is ignored.
AwaitLastEmpty ==
  /\ ctl = "empty" /\ (Empty \/ AwaitGivesUp)
  /\ ctl' = "finis" /\ k' = 1
  /\ UNCHANGED <<poolVars, fBlocked, processor, hups, listenVars>>

\* fActiveRequests->Terminate(), without a timeout.
FinishOne ==
  /\ ctl = "finis" /\ k <= N
  /\ TerminateWorker(k) /\ Goto("finishing")
  /\ UNCHANGED <<fBlocked, processor, hups, listenVars>>

FinishReturns ==
  /\ ctl = "finishing" /\ Terminated(k)
  /\ ctl' = "finis" /\ k' = k + 1
  /\ UNCHANGED <<poolVars, fBlocked, processor, hups, listenVars>>

\* The pools are deleted.
Down ==
  /\ ctl = "finis" /\ k > N /\ MayDelete
  /\ Goto("down")
  /\ UNCHANGED <<poolVars, fBlocked, processor, hups, listenVars>>

----------------------------------------------------------------------------
Reinit ==
  \/ BlockPool \/ AwaitResetEmpty \/ GiveUpUnBlock \/ GiveUpUnblockPool
  \/ DoGlobalReinit \/ MakeProcessorFails \/ TerminateOne \/ TerminateReturns \/ ReAlloc \/ PreparePool
  \/ UnBlock \/ UnblockPool

Shutdown ==
  \/ PrepareShutdown \/ StopAcceptLoop \/ StopAcceptLoopReturns \/ HandlerOver
  \/ JoinReturns \/ AwaitLastEmpty \/ FinishOne \/ FinishReturns \/ Down

Next ==
  \/ SigHup \/ SigTerm \/ Reinit \/ Shutdown
  \/ \E l \in Callers :
       DoAccept(l) \/ DoCallBack(l) \/ LeaveAcceptLoop(l) \/ ListenerOver(l)
  \/ \E w \in Workers : WorkerStep(w) /\ UNCHANGED <<listenVars, ctlVars>>

Spec == Init /\ [][Next]_vars

\* Threads are scheduled, fMutex is handed out fairly, and a request that is
\* processed ends some time; no request and no signal has to come.
Fairness ==
  /\ SF_vars(Reinit) /\ WF_vars(Shutdown)
  /\ \A l \in Callers : SF_vars(DoCallBack(l)) /\ WF_vars(LeaveAcceptLoop(l) \/ ListenerOver(l))
  /\ \A w \in Workers : WF_vars(WorkerStep(w) /\ UNCHANGED <<listenVars, ctlVars>>)

FairSpec == Spec /\ Fairness

----------------------------------------------------------------------------
(* Properties.                                                             *)

\* The pool is blocked and taken down or built again.
Renewing ==
  \/ ctl \in {"reset", "terminate", "terminating", "alloc", "startwait", "reinited"}
  \/ ctl \in {"stop", "stopping"} /\ ~processor

\* GlobalReinit: "assume there are no threads running with pending requests".
\* While the pool is taken down and built again no worker has a request, and
\* no listener is past the loop of FindNextRunnable.
NoPendingRequests ==
  Renewing =>
    /\ \A w \in Workers : fClientSocket[w] = NoReq /\ run[w] \notin {"process", "setready"}
    /\ \A l \in Callers : enter[l] \notin {"find", "set"}

\* The places where request r is: with a listener or with a worker.
Holders(r) == {l \in Callers : workload[l] = r} \cup {w \in Workers : fClientSocket[w] = r}

\* A request that was accepted is processed once or is held by exactly one
\* listener or worker: reinit and shutdown lose none and none is given to two
\* workers.
NothingLost ==
  \A r \in 1..accepted : Cardinality(Holders(r)) = (IF r \in done THEN 0 ELSE 1)

\* Whether the server is open, renews its pool, closes, or is down.
ServiceState ==
  CASE Renewing -> "renewing"
    [] ctl \in {"empty", "finis", "finishing"} -> "closing"
    [] ctl = "down" -> "down"
    [] OTHER -> "open"

Service == INSTANCE RequestService
             WITH waiting <- {workload[l] : l \in Callers} \ {NoReq}, working <- fClientSocket,
                  answered <- done \ aborted, service <- ServiceState

\* Listeners, worker pool, reinit and shutdown together are the service of
\* RequestService: a request is given to one free worker and never while the
\* pool is renewed, a reinit aborts none, and the server goes down with every
\* accepted request answered or aborted by the shutdown that waited in vain.
ServiceSpec == Service!Spec

\* InitPool waits for a worker without a system thread.
StartHangs == ctl = "startwait"

\* A reinit has started no worker, for want of allocators: FindNextRunnable
\* looks for a ready one for ever, and keeps fMutex.
NoWorker ==
  ctl \in {"sigwait", "blocking"} \cup StopPCs /\ \A w \in Workers : fState[w] = eTerminated

\* Every shutdown of a server with a worker comes to its end, if no failed
\* reinit has left the pool blocked.
ShutdownCompletes ==
  (ShuttingDown /\ ~fBlockRequestHandling /\ \E w \in Workers : fState[w] = eRunning)
    ~> ctl = "down"

\* A reinit that begins ends, with the server in service or shut down, and
\* the pool does not stay blocked in service.  The exceptions are the ones of
\* the code: a worker whose start fails, in this reinit or in an earlier one.
ReinitEnds ==
  ctl \in HupPCs ~>
    \/ ctl = "sigwait" /\ ~fBlockRequestHandling /\ ~fBlocked
    \/ ShuttingDown \/ StartHangs \/ NoWorker

\* Every accepted request is processed to its end, and with its stream good
\* unless the server shuts down, whatever reinits come in between.  The
\* exceptions: a failed reinit has left the pool blocked, or has not been able
\* to start the workers.
AcceptedIsServed ==
  \A r \in Requests : r <= accepted ~>
    \/ r \in done /\ (r \in aborted => ShuttingDown)
    \/ ShuttingDown /\ fBlockRequestHandling
    \/ StartHangs \/ NoWorker
=============================================================================
