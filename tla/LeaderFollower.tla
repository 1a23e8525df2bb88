--------------------------- MODULE LeaderFollower ---------------------------
(***************************************************************************)
(* The leader/follower pool of a server (mtfoundation/LeaderFollowerPool,  *)
(* wdbase/LFListenerPool, ServerLFThreadPoolsManager): one thread, the     *)
(* leader, polls the acceptors; when a connection comes in it promotes     *)
(* another thread to leader and processes the request itself.  The thread  *)
(* in control reinitialises the server and shuts it down.                  *)
(*                                                                         *)
(* What happens under fLFMutex is one step.  The threads wait without a    *)
(* timeout (fTimeout is 0), and they are terminated by RequestTermination  *)
(* only: ServerLFThreadPoolsManager joins them before it deletes the pool. *)
(***************************************************************************)
EXTENDS ThreadStates, FiniteSets

CONSTANTS Threads,            \* the LeaderFollowerThreads
          NOFDS,              \* number of acceptors
          MaxHups,            \* bound: number of reinits
          cNoCurrentLeader, cBlockPromotion

Acceptors == 0..(NOFDS - 1)

ASSUME LFAssumption ==
  /\ IsFiniteSet(Threads)
  /\ NOFDS \in Nat \ {0} /\ MaxHups \in Nat
  /\ cNoCurrentLeader # cBlockPromotion
  /\ {cNoCurrentLeader, cBlockPromotion} \cap Threads = {}

VARIABLES fPoolState, fCurrentLeader, fOldLeader,
          fLastAcceptorUsedIndex,
          fCurrentParallelRequests,
          pending,      \* of each acceptor: whether connections wait for accept()
          pc,           \* of each thread: where it is in WaitForRequest
          acceptor,     \* of each thread: the one that poll() has reported
          ctl, hups     \* the interrupt handler and the main thread

leaderVars == <<fPoolState, fCurrentLeader, fOldLeader>>
eventVars  == <<fLastAcceptorUsedIndex, pending, acceptor>>
ctlVars    == <<ctl, hups>>
vars == <<leaderVars, eventVars, fCurrentParallelRequests, pc, ctlVars>>

Leaders == Threads \cup {cNoCurrentLeader, cBlockPromotion}

TypeOK ==
  /\ fPoolState \in {eCreated, eRunning, eTerminationRequested}
  /\ fCurrentLeader \in Leaders /\ fOldLeader \in Leaders \ {cBlockPromotion}
  /\ fLastAcceptorUsedIndex \in Acceptors
  /\ fCurrentParallelRequests \in 0..Cardinality(Threads)
  /\ pending \in [Acceptors -> BOOLEAN]
  /\ pc \in [Threads -> {"loop", "wait", "woken", "poll", "accept", "accepted", "refused",
                         "enter", "process", "over"}]
  /\ acceptor \in [Threads -> Acceptors]
  /\ ctl \in {"sigwait", "await", "reset", "unblock", "giveup", "terminate", "join", "down"}
  /\ hups \in 0..MaxHups

Init ==
  /\ fPoolState = eCreated
  /\ fCurrentLeader = cNoCurrentLeader /\ fOldLeader = cNoCurrentLeader
  /\ fLastAcceptorUsedIndex = 0
  /\ fCurrentParallelRequests = 0
  /\ pending = [a \in Acceptors |-> FALSE]
  /\ pc = [t \in Threads |-> "loop"]
  /\ acceptor = [t \in Threads |-> 0]
  /\ ctl = "sigwait" /\ hups = 0

----------------------------------------------------------------------------
(* fFollowersCondition.                                                    *)

\* The threads go on as pcs says, and one that waits is woken up.
Signal(pcs) ==
  IF \A t \in Threads : pcs[t] # "wait" THEN pc' = pcs
  ELSE \E t \in {u \in Threads : pcs[u] = "wait"} : pc' = [pcs EXCEPT ![t] = "woken"]

BroadCast == pc' = [t \in Threads |-> IF pc[t] = "wait" THEN "woken" ELSE pc[t]]

\* A wait may end without a signal.
SpuriousWakeup(t) ==
  /\ pc[t] = "wait"
  /\ pc' = [pc EXCEPT ![t] = "woken"]
  /\ UNCHANGED <<leaderVars, eventVars, fCurrentParallelRequests, ctlVars>>

----------------------------------------------------------------------------
(* LeaderFollowerPool::WaitForRequest.                                     *)

\* Mutant: the block does not survive a promotion.
PromoteNewLeaderUnblocks(t, next) ==
  /\ fCurrentLeader' = cNoCurrentLeader
  /\ UNCHANGED fOldLeader
  /\ Signal([pc EXCEPT ![t] = next])

\* PromoteNewLeader by thread t, which goes on at next.
PromoteNewLeader(t, next) ==
  /\ IF fCurrentLeader # cBlockPromotion
       THEN fCurrentLeader' = cNoCurrentLeader /\ UNCHANGED fOldLeader
       ELSE fOldLeader' = cNoCurrentLeader /\ UNCHANGED fCurrentLeader
  /\ Signal([pc EXCEPT ![t] = next])

\* The first thread that comes makes the pool run.
PoolState == IF fPoolState < eRunning THEN eRunning ELSE fPoolState

\* Thread t holds fLFMutex at the head of one of the loops.
AtHead(t) == pc[t] \in {"loop", "woken"}

\* There is no leader: t is the leader now and polls without the mutex.
BecomeLeader(t) ==
  /\ AtHead(t) /\ PoolState = eRunning /\ fCurrentLeader = cNoCurrentLeader
  /\ fCurrentLeader' = t
  /\ fPoolState' = PoolState
  /\ pc' = [pc EXCEPT ![t] = "poll"]
  /\ UNCHANGED <<fOldLeader, eventVars, fCurrentParallelRequests, ctlVars>>

\* There is one, or promotion is blocked.
Follow(t) ==
  /\ AtHead(t) /\ PoolState = eRunning /\ fCurrentLeader # cNoCurrentLeader
  /\ fPoolState' = PoolState
  /\ pc' = [pc EXCEPT ![t] = "wait"]
  /\ UNCHANGED <<fCurrentLeader, fOldLeader, eventVars, fCurrentParallelRequests, ctlVars>>

\* The pool is no longer running.
Leave(t) ==
  /\ AtHead(t) /\ PoolState >= eTerminationRequested
  /\ PromoteNewLeader(t, "over")
  /\ UNCHANGED <<fPoolState, eventVars, fCurrentParallelRequests, ctlVars>>

----------------------------------------------------------------------------
(* Reactor and HandleSet.                                                  *)

\* Mutant: the search always begins at the first acceptor.
NextAcceptorFirst == CHOOSE a \in Acceptors : pending[a] /\ \A b \in Acceptors : pending[b] => a <= b

\* The first ready acceptor after the one that was used last.
NextAcceptor ==
  LET at(i) == (fLastAcceptorUsedIndex + 1 + i) % NOFDS
      first == CHOOSE i \in Acceptors : pending[at(i)] /\ \A j \in Acceptors : pending[at(j)] => i <= j
  IN  at(first)

\* WaitForEvents returns an acceptor ...
WaitForEvents(t) ==
  /\ pc[t] = "poll" /\ \E a \in Acceptors : pending[a]
  /\ fLastAcceptorUsedIndex' = NextAcceptor
  /\ acceptor' = [acceptor EXCEPT ![t] = NextAcceptor]
  /\ pc' = [pc EXCEPT ![t] = "accept"]
  /\ UNCHANGED <<leaderVars, pending, fCurrentParallelRequests, ctlVars>>

\* ... or nothing, when its time is up or poll() fails, which it may do although
\* connections are pending: HandleEvents promotes a new leader.
PollTimeout(t) ==
  /\ pc[t] = "poll"
  /\ PromoteNewLeader(t, "loop")
  /\ UNCHANGED <<fPoolState, eventVars, fCurrentParallelRequests, ctlVars>>

\* DoAccept takes the connections that wait, one of them for t; the client may
\* have gone away.
DoAccept(t) ==
  /\ pc[t] = "accept"
  /\ \E next \in {"accepted", "refused"} : pc' = [pc EXCEPT ![t] = next]
  /\ pending' = [pending EXCEPT ![acceptor[t]] = FALSE]
  /\ acceptor' = [acceptor EXCEPT ![t] = 0]
  /\ UNCHANGED <<leaderVars, fLastAcceptorUsedIndex, fCurrentParallelRequests, ctlVars>>

\* ProcessEvent promotes "even if the socket we got from the acceptor is
\* invalid".
ProcessEvent(t) ==
  /\ pc[t] \in {"accepted", "refused"}
  /\ PromoteNewLeader(t, IF pc[t] = "accepted" THEN "enter" ELSE "loop")
  /\ UNCHANGED <<fPoolState, eventVars, fCurrentParallelRequests, ctlVars>>

\* RequestReactor::DoProcessEvent: the StatEntry, and its end with the request.
EnterRequest(t) ==
  /\ pc[t] = "enter"
  /\ fCurrentParallelRequests' = fCurrentParallelRequests + 1
  /\ pc' = [pc EXCEPT ![t] = "process"]
  /\ UNCHANGED <<leaderVars, eventVars, ctlVars>>

LeaveRequest(t, keepConnection) ==
  /\ pc[t] = "process"
  /\ fCurrentParallelRequests' = fCurrentParallelRequests - 1
  /\ pc' = [pc EXCEPT ![t] = IF keepConnection THEN "enter" ELSE "loop"]
  /\ UNCHANGED <<leaderVars, eventVars, ctlVars>>

\* A client connects.
Connect(a) ==
  /\ ~pending[a]
  /\ pending' = [pending EXCEPT ![a] = TRUE]
  /\ UNCHANGED <<leaderVars, fLastAcceptorUsedIndex, acceptor, fCurrentParallelRequests, pc, ctlVars>>

----------------------------------------------------------------------------
(* Reinit and shutdown: InterruptHandler, Server::GlobalReinit and         *)
(* ServerLFThreadPoolsManager.                                             *)

\* LFListenerPool::BlockRequests
BlockRequests ==
  /\ ctl = "sigwait" /\ hups < MaxHups
  /\ fOldLeader' = fCurrentLeader
  /\ fCurrentLeader' = cBlockPromotion
  /\ ctl' = "await" /\ hups' = hups + 1
  /\ UNCHANGED <<fPoolState, eventVars, fCurrentParallelRequests, pc>>

\* RequestReactor::AwaitEmpty, which may give up.
AwaitEmpty ==
  /\ ctl = "await"
  /\ ctl' = IF fCurrentParallelRequests <= 0 THEN "reset" ELSE "giveup"
  /\ UNCHANGED <<leaderVars, eventVars, fCurrentParallelRequests, pc, hups>>

\* DoGlobalReinit, which may fail; ServerLFThreadPoolsManager::ReInit itself
\* has nothing to do.
DoGlobalReinit ==
  /\ ctl = "reset"
  /\ ctl' \in {"unblock", "terminate"}
  /\ UNCHANGED <<leaderVars, eventVars, fCurrentParallelRequests, pc, hups>>

\* Mutant: promotion goes on whoever led before.
UnblockRequestsNoLeader ==
  /\ ctl \in {"unblock", "giveup"}
  /\ fCurrentLeader' = cNoCurrentLeader
  /\ Signal(pc)
  /\ ctl' = IF ctl = "unblock" THEN "sigwait" ELSE "terminate"
  /\ UNCHANGED <<fPoolState, fOldLeader, eventVars, fCurrentParallelRequests, hups>>

\* LFListenerPool::UnblockRequests, after a reinit or when it gave up.
UnblockRequests ==
  /\ ctl \in {"unblock", "giveup"}
  /\ fCurrentLeader' = fOldLeader
  /\ Signal(pc)
  /\ ctl' = IF ctl = "unblock" THEN "sigwait" ELSE "terminate"
  /\ UNCHANGED <<fPoolState, fOldLeader, eventVars, fCurrentParallelRequests, hups>>

\* SIGTERM
SigTerm ==
  /\ ctl = "sigwait" /\ ctl' = "terminate"
  /\ UNCHANGED <<leaderVars, eventVars, fCurrentParallelRequests, pc, hups>>

\* Mutant: the followers are not woken up.
RequestTerminationSilent ==
  /\ ctl = "terminate" /\ ctl' = "join"
  /\ fPoolState' = eTerminationRequested
  /\ fCurrentLeader' = cBlockPromotion
  /\ UNCHANGED <<fOldLeader, pc, eventVars, fCurrentParallelRequests, hups>>

\* LeaderFollowerPool::RequestTermination
RequestTermination ==
  /\ ctl = "terminate" /\ ctl' = "join"
  /\ fPoolState' = eTerminationRequested
  /\ fCurrentLeader' = cBlockPromotion
  /\ BroadCast
  /\ UNCHANGED <<fOldLeader, eventVars, fCurrentParallelRequests, hups>>

\* Join(0) returns in the main thread, which asks again, joins and deletes the
\* pool with its reactor: nothing is left to wait for.
Join ==
  /\ ctl = "join" /\ \A t \in Threads : pc[t] = "over"
  /\ ctl' = "down"
  /\ UNCHANGED <<leaderVars, eventVars, fCurrentParallelRequests, pc, hups>>

----------------------------------------------------------------------------
ThreadStep(t) ==
  \/ BecomeLeader(t) \/ Follow(t) \/ Leave(t)
  \/ WaitForEvents(t) \/ PollTimeout(t) \/ DoAccept(t) \/ ProcessEvent(t) \/ EnterRequest(t)

Control ==
  AwaitEmpty \/ DoGlobalReinit \/ UnblockRequests \/ RequestTermination \/ Join

Next ==
  \/ BlockRequests \/ SigTerm \/ Control
  \/ \E a \in Acceptors : Connect(a)
  \/ \E t \in Threads :
       \/ ThreadStep(t) \/ SpuriousWakeup(t)
       \/ \E keep \in BOOLEAN : LeaveRequest(t, keep)

Spec == Init /\ [][Next]_vars

\* The threads are scheduled and the mutex is handed out fairly; poll() does
\* not fail for ever; a request ends some time and no client keeps its
\* connection for ever.  Nobody has to connect, no signal has to come and no
\* wait ends by itself.
Fairness ==
  /\ WF_vars(Control)
  /\ SF_vars(\E t \in Threads : WaitForEvents(t))
  /\ \A t \in Threads : WF_vars(ThreadStep(t)) /\ WF_vars(\E keep \in BOOLEAN : LeaveRequest(t, keep))
                        /\ SF_vars(LeaveRequest(t, FALSE))

FairSpec == Spec /\ Fairness

----------------------------------------------------------------------------
(* Properties.                                                             *)

\* Thread t waits for events or accepts one.
Leads(t) == pc[t] \in {"poll", "accept", "accepted", "refused"}

\* The leader/follower pattern: at most one thread polls and accepts, also
\* when the pool is blocked and unblocked while the leader polls.
OneLeader == \A t, u \in Threads : Leads(t) /\ Leads(u) => t = u

\* A block stays in force until UnblockRequests, whatever the leader of that
\* time and the threads that end their requests do meanwhile.
BlockHolds ==
  ctl \in {"await", "reset", "unblock", "giveup"} => fCurrentLeader = cBlockPromotion

\* Connections are accepted, from every acceptor, as long as the pool runs.
ConnectionsAccepted ==
  \A a \in Acceptors : pending[a] ~> ~pending[a] \/ fPoolState = eTerminationRequested

\* All threads leave after RequestTermination, followers and leader, blocked
\* or not, and the server goes down.
AllLeave == ctl = "terminate" ~> ctl = "down"
=============================================================================
