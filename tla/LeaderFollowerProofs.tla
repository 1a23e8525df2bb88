------------------------ MODULE LeaderFollowerProofs ------------------------
(***************************************************************************)
(* Proofs about LeaderFollower, for every finite set of threads, number of *)
(* acceptors and number of reinits.                                        *)
(***************************************************************************)
EXTENDS LeaderFollower, FiniteSetTheorems, TLAPS

PCs == {"loop", "wait", "woken", "poll", "accept", "accepted", "refused",
        "enter", "process", "over"}

----------------------------------------------------------------------------
(* The invariant.  RequestTermination overwrites fCurrentLeader without    *)
(* saving it, so that the two fields say who leads only until then; after  *)
(* it nobody can become leader any more.                                   *)

\* The thread that leads, as the pool's two fields say: while promotion is
\* blocked fCurrentLeader holds the mark and fOldLeader the leader.
RecordedLeader == IF fCurrentLeader = cBlockPromotion THEN fOldLeader ELSE fCurrentLeader

\* While the pool is not terminated the fields name the thread that polls or
\* accepts, and nobody if none does.
LeaderRecorded ==
  fPoolState # eTerminationRequested => \A t \in Threads : Leads(t) <=> t = RecordedLeader

\* The mark is set by a block and by RequestTermination, and taken away by
\* UnblockRequests only.
MarkExact ==
  /\ BlockHolds
  /\ ctl \in {"join", "down"} => fCurrentLeader = cBlockPromotion
  /\ ctl = "sigwait" => fCurrentLeader # cBlockPromotion
  /\ fPoolState = eTerminationRequested <=> ctl \in {"join", "down"}

\* Threads at work on a request.
Processing(p) == {t \in Threads : p[t] = "process"}

\* The reactor's counter, on which AwaitEmpty decides, is exact.
CounterExact == fCurrentParallelRequests = Cardinality(Processing(pc))

\* The types; that the counter is a natural number follows from CounterExact.
Typed ==
  /\ fPoolState \in {eCreated, eRunning, eTerminationRequested}
  /\ fCurrentLeader \in Leaders /\ fOldLeader \in Leaders \ {cBlockPromotion}
  /\ fLastAcceptorUsedIndex \in Acceptors
  /\ pending \in [Acceptors -> BOOLEAN]
  /\ pc \in [Threads -> PCs]
  /\ acceptor \in [Threads -> Acceptors]
  /\ ctl \in {"sigwait", "await", "reset", "unblock", "giveup", "terminate", "join", "down"}
  /\ hups \in 0..MaxHups

IInv == Typed /\ MarkExact /\ OneLeader /\ LeaderRecorded /\ CounterExact

\* The invariant holds at first.
LEMMA InitIInv == Init => IInv
<1> SUFFICES ASSUME Init PROVE IInv  OBVIOUS
<1>1. Typed
  BY LFAssumption DEF Init, Typed, PCs, Acceptors, Leaders
<1>2. MarkExact
  BY LFAssumption DEF Init, MarkExact, BlockHolds, eCreated, eTerminationRequested
<1>3. OneLeader /\ LeaderRecorded
  BY LFAssumption DEF Init, OneLeader, LeaderRecorded, RecordedLeader, Leads
<1>4. CounterExact
  <2>1. Processing(pc) = {}  BY DEF Init, Processing
  <2> QED  BY <2>1, FS_EmptySet DEF Init, CounterExact
<1> QED  BY <1>1, <1>2, <1>3, <1>4 DEF IInv

----------------------------------------------------------------------------
(* What the steps do to the program counters.                              *)

\* From p to q threads are woken up at most.
Wakes(p, q) ==
  /\ q \in [Threads -> PCs]
  /\ \A u \in Threads : q[u] = p[u] \/ (p[u] = "wait" /\ q[u] = "woken")

\* A signal wakes a follower or nobody.
LEMMA SignalWakes ==
  ASSUME NEW p \in [Threads -> PCs], Signal(p)
  PROVE  Wakes(p, pc')
BY DEF Signal, Wakes, PCs

\* The number of requests does not change with a step that neither begins nor
\* ends one.
LEMMA ProcessingSame ==
  ASSUME NEW p, NEW q, \A u \in Threads : p[u] = "process" <=> q[u] = "process"
  PROVE  Cardinality(Processing(p)) = Cardinality(Processing(q))
<1>1. Processing(p) = Processing(q)  BY DEF Processing
<1> QED  BY <1>1

\* A request that begins adds one.
LEMMA ProcessingMore ==
  ASSUME NEW p, NEW q, NEW t \in Threads, p[t] # "process", q[t] = "process",
         \A u \in Threads \ {t} : p[u] = "process" <=> q[u] = "process"
  PROVE  Cardinality(Processing(q)) = Cardinality(Processing(p)) + 1
<1>1. Processing(q) = Processing(p) \cup {t} /\ t \notin Processing(p)
  BY DEF Processing
<1>2. IsFiniteSet(Processing(p))  BY LFAssumption, FS_Subset DEF Processing
<1> QED  BY <1>1, <1>2, FS_AddElement

\* The counter is a natural number and never exceeds the number of threads.
LEMMA ProcessingBound ==
  ASSUME NEW p
  PROVE  Cardinality(Processing(p)) \in 0..Cardinality(Threads)
<1>1. Processing(p) \subseteq Threads  BY DEF Processing
<1> QED  BY <1>1, LFAssumption, FS_Subset, FS_CardinalityType

\* The search visits every acceptor.
LEMMA SearchReaches ==
  ASSUME NEW last \in Acceptors, NEW a \in Acceptors
  PROVE  \E i \in Acceptors : (last + 1 + i) % NOFDS = a
<1> USE LFAssumption DEF Acceptors
<1>1. CASE a >= last + 1
  <2>1. /\ a - last - 1 \in Acceptors
        /\ last + 1 + (a - last - 1) = a /\ a % NOFDS = a
    BY <1>1
  <2> QED  BY <2>1
<1>2. CASE a < last + 1
  <2>1. /\ a - last - 1 + NOFDS \in Acceptors
        /\ last + 1 + (a - last - 1 + NOFDS) = a + NOFDS
    BY <1>2
  <2>2. (a + NOFDS) % NOFDS = a  OBVIOUS
  <2> QED  BY <2>1, <2>2
<1> QED  BY <1>1, <1>2

\* A nonempty set of natural numbers has a least element.
LEMMA LeastElement ==
  ASSUME NEW S \in SUBSET Nat, S # {}
  PROVE  \E i \in S : \A j \in S : i <= j
<1>1. PICK i \in S : \A j \in S : ~(<<j, i>> \in OpToRel(<, Nat))
  BY WFMin, NatLessThanWellFounded
<1>2. ASSUME NEW j \in S PROVE i <= j
  <2>1. ~(<<j, i>> \in OpToRel(<, Nat))  BY <1>1
  <2>2. ~(j < i)  BY <2>1 DEF OpToRel
  <2> QED  BY <2>2
<1> QED  BY <1>2

\* The acceptor that the search ends with is one with a connection.
LEMMA NextAcceptorPending ==
  ASSUME fLastAcceptorUsedIndex \in Acceptors,
         \E a \in Acceptors : pending[a]
  PROVE  NextAcceptor \in Acceptors /\ pending[NextAcceptor]
<1> DEFINE at(i) == (fLastAcceptorUsedIndex + 1 + i) % NOFDS
           S == {i \in Acceptors : pending[at(i)]}
           first == CHOOSE i \in Acceptors : pending[at(i)] /\ \A j \in Acceptors : pending[at(j)] => i <= j
<1>1. S # {}
  <2>1. PICK a \in Acceptors : pending[a]  OBVIOUS
  <2>2. PICK i \in Acceptors : at(i) = a  BY SearchReaches
  <2> QED  BY <2>1, <2>2
<1>2. S \in SUBSET Nat  BY LFAssumption DEF Acceptors
<1> HIDE DEF at
<1>3. \E i \in Acceptors : pending[at(i)] /\ \A j \in Acceptors : pending[at(j)] => i <= j
  <2>1. PICK i \in S : \A j \in S : i <= j  BY <1>1, <1>2, LeastElement
  <2> QED  BY <2>1
<1>4. first \in Acceptors /\ pending[at(first)]  BY <1>3
<1> HIDE DEF first
<1>5. at(first) \in Acceptors  BY <1>4, LFAssumption DEF at, Acceptors
<1>6. NextAcceptor = at(first)  BY DEF NextAcceptor, at, first
<1> QED  BY <1>4, <1>5, <1>6

----------------------------------------------------------------------------
(* The steps.                                                              *)

\* PromoteNewLeader by the leader, or by a thread that leaves a pool that is
\* terminated, preserves the invariant.
LEMMA PromoteStep ==
  ASSUME IInv, NEW t \in Threads, NEW next \in {"loop", "enter", "over"},
         pc[t] # "process",
         Leads(t) \/ fPoolState = eTerminationRequested,
         PromoteNewLeader(t, next),
         UNCHANGED <<fPoolState, eventVars, fCurrentParallelRequests, ctlVars>>
  PROVE  IInv'
<1> DEFINE p == [pc EXCEPT ![t] = next]
<1> USE DEF IInv
<1>0. UNCHANGED <<fPoolState, fLastAcceptorUsedIndex, pending, acceptor,
                  fCurrentParallelRequests, ctl, hups>>
  BY DEF eventVars, ctlVars
<1>1. p \in [Threads -> PCs]  BY DEF Typed, PCs
<1>2. Wakes(p, pc')  BY <1>1, SignalWakes DEF PromoteNewLeader
<1>3. pc' \in [Threads -> PCs]  BY <1>2 DEF Wakes
<1>4. /\ pc'[t] = next
      /\ \A u \in Threads \ {t} : pc'[u] = pc[u] \/ (pc[u] = "wait" /\ pc'[u] = "woken")
  BY <1>2 DEF Wakes, Typed
<1>5. ~Leads(t)' /\ \A u \in Threads \ {t} : Leads(u)' <=> Leads(u)
  BY <1>4 DEF Leads
<1>6. \/ fCurrentLeader # cBlockPromotion /\ fCurrentLeader' = cNoCurrentLeader /\ fOldLeader' = fOldLeader
      \/ fCurrentLeader = cBlockPromotion /\ fCurrentLeader' = fCurrentLeader /\ fOldLeader' = cNoCurrentLeader
  BY DEF PromoteNewLeader
<1> HIDE DEF p
<1>7. Typed'  BY <1>0, <1>3, <1>6, LFAssumption DEF Typed, Leaders
<1>8. MarkExact'
  BY <1>0, <1>6, LFAssumption DEF MarkExact, BlockHolds
<1>9. OneLeader'  BY <1>5 DEF OneLeader
<1>10. LeaderRecorded'
  <2> SUFFICES ASSUME fPoolState' # eTerminationRequested, NEW u \in Threads
               PROVE  Leads(u)' <=> u = RecordedLeader'
    BY DEF LeaderRecorded
  <2>1. RecordedLeader' = cNoCurrentLeader  BY <1>6, LFAssumption DEF RecordedLeader
  <2>2. Leads(t) /\ OneLeader  BY <1>0
  <2>3. ~Leads(u)'  BY <1>5, <2>2 DEF OneLeader
  <2> QED  BY <2>1, <2>3, LFAssumption
<1>11. CounterExact'
  <2>1. \A u \in Threads : pc'[u] = "process" <=> pc[u] = "process"
    BY <1>4 DEF Typed
  <2> QED  BY <1>0, <2>1, ProcessingSame DEF CounterExact
<1> QED  BY <1>7, <1>8, <1>9, <1>10, <1>11

\* A step by which nobody begins or ceases to lead, no request begins or ends
\* and the pool's leader fields and state stay.
LEMMA QuietStep ==
  ASSUME IInv, Typed', UNCHANGED <<fCurrentLeader, fOldLeader, fCurrentParallelRequests>>,
         MarkExact',
         fPoolState = eTerminationRequested => fPoolState' = eTerminationRequested,
         \A u \in Threads : /\ Leads(u)' <=> Leads(u)
                            /\ pc'[u] = "process" <=> pc[u] = "process"
  PROVE  IInv'
<1> USE DEF IInv
<1>1. OneLeader'  BY DEF OneLeader
<1>2. RecordedLeader' = RecordedLeader  BY DEF RecordedLeader
<1>3. LeaderRecorded'  BY <1>2 DEF LeaderRecorded
<1>4. CounterExact'  BY ProcessingSame DEF CounterExact
<1> QED  BY <1>1, <1>3, <1>4

\* The steps of the threads preserve the invariant.
LEMMA ThreadStepIInv ==
  ASSUME IInv, NEW t \in Threads,
         ThreadStep(t) \/ SpuriousWakeup(t) \/ \E keep \in BOOLEAN : LeaveRequest(t, keep)
  PROVE  IInv'
<1> USE DEF IInv
<1>t. Typed /\ MarkExact  OBVIOUS
<1>1. CASE BecomeLeader(t)
  <2>1. /\ UNCHANGED <<fOldLeader, fLastAcceptorUsedIndex, pending, acceptor,
                       fCurrentParallelRequests, ctl, hups>>
        /\ fCurrentLeader = cNoCurrentLeader /\ fCurrentLeader' = t
        /\ fPoolState # eTerminationRequested /\ fPoolState' = eRunning
        /\ pc[t] \in {"loop", "woken"} /\ pc' = [pc EXCEPT ![t] = "poll"]
    BY <1>1 DEF BecomeLeader, eventVars, ctlVars, AtHead, PoolState, Typed,
                eCreated, eRunning, eTerminationRequested
  <2>2. Typed'  BY <2>1 DEF Typed, PCs, Leaders
  <2>3. MarkExact'
    BY <1>t, <2>1, LFAssumption DEF MarkExact, BlockHolds, eRunning, eTerminationRequested
  <2>4. RecordedLeader = cNoCurrentLeader /\ RecordedLeader' = t
    BY <2>1, LFAssumption DEF RecordedLeader
  <2>5. \A u \in Threads : ~Leads(u)
    BY <2>1, <2>4, LFAssumption DEF LeaderRecorded
  <2>6. Leads(t)' /\ \A u \in Threads \ {t} : ~Leads(u)'
    BY <2>1, <2>5 DEF Leads, Typed
  <2>7. OneLeader' /\ LeaderRecorded'
    BY <2>4, <2>6 DEF OneLeader, LeaderRecorded
  <2>8. CounterExact'
    <3>1. \A u \in Threads : pc'[u] = "process" <=> pc[u] = "process"
      BY <2>1 DEF Typed
    <3> QED  BY <2>1, <3>1, ProcessingSame DEF CounterExact
  <2> QED  BY <2>2, <2>3, <2>7, <2>8
<1>2. CASE Follow(t)
  <2>1. /\ UNCHANGED <<fCurrentLeader, fOldLeader, fLastAcceptorUsedIndex, pending, acceptor,
                       fCurrentParallelRequests, ctl, hups>>
        /\ fPoolState # eTerminationRequested /\ fPoolState' = eRunning
        /\ pc[t] \in {"loop", "woken"} /\ pc' = [pc EXCEPT ![t] = "wait"]
    BY <1>2 DEF Follow, eventVars, ctlVars, AtHead, PoolState, Typed,
                eCreated, eRunning, eTerminationRequested
  <2>2. Typed'  BY <2>1 DEF Typed, PCs
  <2>3. MarkExact'
    BY <1>t, <2>1 DEF MarkExact, BlockHolds, eRunning, eTerminationRequested
  <2>4. \A u \in Threads : /\ Leads(u)' <=> Leads(u)
                           /\ pc'[u] = "process" <=> pc[u] = "process"
    BY <2>1 DEF Typed, Leads
  <2> QED  BY <2>1, <2>2, <2>3, <2>4, QuietStep
<1>3. CASE Leave(t)
  <2>1. fPoolState = eTerminationRequested /\ pc[t] # "process"
    BY <1>3 DEF Leave, AtHead, PoolState, Typed, eCreated, eRunning, eTerminationRequested
  <2> QED  BY <1>3, <2>1, PromoteStep DEF Leave
<1>4. CASE WaitForEvents(t)
  <2>1. /\ UNCHANGED <<fPoolState, fCurrentLeader, fOldLeader, pending,
                       fCurrentParallelRequests, ctl, hups>>
        /\ pc[t] = "poll" /\ pc' = [pc EXCEPT ![t] = "accept"]
        /\ fLastAcceptorUsedIndex' = NextAcceptor
        /\ acceptor' = [acceptor EXCEPT ![t] = NextAcceptor]
    BY <1>4 DEF WaitForEvents, leaderVars, ctlVars
  <2>2. NextAcceptor \in Acceptors
    BY <1>4, NextAcceptorPending DEF WaitForEvents, Typed
  <2>3. Typed'  BY <2>1, <2>2 DEF Typed, PCs
  <2>4. MarkExact'  BY <1>t, <2>1 DEF MarkExact, BlockHolds
  <2>5. \A u \in Threads : /\ Leads(u)' <=> Leads(u)
                           /\ pc'[u] = "process" <=> pc[u] = "process"
    BY <2>1 DEF Typed, Leads
  <2> QED  BY <2>1, <2>3, <2>4, <2>5, QuietStep
<1>5. CASE PollTimeout(t)
  <2>1. pc[t] # "process" /\ Leads(t)  BY <1>5 DEF PollTimeout, Leads
  <2> QED  BY <1>5, <2>1, PromoteStep DEF PollTimeout
<1>6. CASE DoAccept(t)
  <2>1. PICK next \in {"accepted", "refused"} : pc' = [pc EXCEPT ![t] = next]
    BY <1>6 DEF DoAccept
  <2>2. /\ UNCHANGED <<fPoolState, fCurrentLeader, fOldLeader, fLastAcceptorUsedIndex,
                       fCurrentParallelRequests, ctl, hups>>
        /\ pc[t] = "accept"
        /\ pending' = [pending EXCEPT ![acceptor[t]] = FALSE]
        /\ acceptor' = [acceptor EXCEPT ![t] = 0]
    BY <1>6 DEF DoAccept, leaderVars, ctlVars
  <2>3. Typed'  BY <2>1, <2>2, LFAssumption DEF Typed, PCs, Acceptors
  <2>4. MarkExact'  BY <1>t, <2>2 DEF MarkExact, BlockHolds
  <2>5. \A u \in Threads : /\ Leads(u)' <=> Leads(u)
                           /\ pc'[u] = "process" <=> pc[u] = "process"
    BY <2>1, <2>2 DEF Typed, Leads
  <2> QED  BY <2>2, <2>3, <2>4, <2>5, QuietStep
<1>7. CASE ProcessEvent(t)
  <2>1. pc[t] # "process" /\ Leads(t)  BY <1>7 DEF ProcessEvent, Leads
  <2>2. CASE pc[t] = "accepted"
    BY <1>7, <2>1, <2>2, PromoteStep DEF ProcessEvent
  <2>3. CASE pc[t] # "accepted"
    BY <1>7, <2>1, <2>3, PromoteStep DEF ProcessEvent
  <2> QED  BY <2>2, <2>3
<1>8. CASE EnterRequest(t)
  <2>1. /\ UNCHANGED <<fPoolState, fCurrentLeader, fOldLeader, fLastAcceptorUsedIndex,
                       pending, acceptor, ctl, hups>>
        /\ fCurrentParallelRequests' = fCurrentParallelRequests + 1
        /\ pc[t] = "enter" /\ pc' = [pc EXCEPT ![t] = "process"]
    BY <1>8 DEF EnterRequest, leaderVars, eventVars, ctlVars
  <2>2. Typed'  BY <2>1 DEF Typed, PCs
  <2>3. MarkExact'  BY <1>t, <2>1 DEF MarkExact, BlockHolds
  <2>4. \A u \in Threads : Leads(u)' <=> Leads(u)  BY <2>1 DEF Typed, Leads
  <2>5. RecordedLeader' = RecordedLeader  BY <2>1 DEF RecordedLeader
  <2>6. OneLeader' /\ LeaderRecorded'
    BY <2>1, <2>4, <2>5 DEF OneLeader, LeaderRecorded
  <2>7. Cardinality(Processing(pc')) = Cardinality(Processing(pc)) + 1
    <3>1. /\ pc[t] # "process" /\ pc'[t] = "process"
          /\ \A u \in Threads \ {t} : pc[u] = "process" <=> pc'[u] = "process"
      BY <2>1 DEF Typed
    <3> QED  BY <3>1, ProcessingMore
  <2>8. CounterExact'  BY <2>1, <2>7 DEF CounterExact
  <2> QED  BY <2>2, <2>3, <2>6, <2>8
<1>9. CASE SpuriousWakeup(t)
  <2>1. /\ UNCHANGED <<fPoolState, fCurrentLeader, fOldLeader, fLastAcceptorUsedIndex, pending,
                       acceptor, fCurrentParallelRequests, ctl, hups>>
        /\ pc[t] = "wait" /\ pc' = [pc EXCEPT ![t] = "woken"]
    BY <1>9 DEF SpuriousWakeup, leaderVars, eventVars, ctlVars
  <2>2. Typed'  BY <2>1 DEF Typed, PCs
  <2>3. MarkExact'  BY <1>t, <2>1 DEF MarkExact, BlockHolds
  <2>4. \A u \in Threads : /\ Leads(u)' <=> Leads(u)
                           /\ pc'[u] = "process" <=> pc[u] = "process"
    BY <2>1 DEF Typed, Leads
  <2> QED  BY <2>1, <2>2, <2>3, <2>4, QuietStep
<1>10. ASSUME NEW keep \in BOOLEAN, LeaveRequest(t, keep) PROVE IInv'
  <2>0. PICK next \in {"enter", "loop"} : pc' = [pc EXCEPT ![t] = next]
    BY <1>10 DEF LeaveRequest
  <2>1. /\ UNCHANGED <<fPoolState, fCurrentLeader, fOldLeader, fLastAcceptorUsedIndex,
                       pending, acceptor, ctl, hups>>
        /\ fCurrentParallelRequests' = fCurrentParallelRequests - 1
        /\ pc[t] = "process"
    BY <1>10 DEF LeaveRequest, leaderVars, eventVars, ctlVars
  <2>2. Typed'  BY <2>0, <2>1 DEF Typed, PCs
  <2>3. MarkExact'  BY <1>t, <2>1 DEF MarkExact, BlockHolds
  <2>4. \A u \in Threads : Leads(u)' <=> Leads(u)  BY <2>0, <2>1 DEF Typed, Leads
  <2>5. RecordedLeader' = RecordedLeader  BY <2>1 DEF RecordedLeader
  <2>6. OneLeader' /\ LeaderRecorded'
    BY <2>1, <2>4, <2>5 DEF OneLeader, LeaderRecorded
  <2>7. Cardinality(Processing(pc)) = Cardinality(Processing(pc')) + 1
    <3>1. /\ pc'[t] # "process" /\ pc[t] = "process"
          /\ \A u \in Threads \ {t} : pc'[u] = "process" <=> pc[u] = "process"
      BY <2>0, <2>1 DEF Typed
    <3> QED  BY <3>1, ProcessingMore
  <2>8. Cardinality(Processing(pc')) \in Int  BY ProcessingBound
  <2>9. CounterExact'  BY <2>1, <2>7, <2>8 DEF CounterExact
  <2> QED  BY <2>2, <2>3, <2>6, <2>9
<1> QED
  BY <1>1, <1>2, <1>3, <1>4, <1>5, <1>6, <1>7, <1>8, <1>9, <1>10 DEF ThreadStep

\* The steps of the clients, of the interrupt handler and of the main thread
\* preserve the invariant.
LEMMA ControlIInv ==
  ASSUME IInv,
         \/ BlockRequests \/ SigTerm \/ Control
         \/ \E a \in Acceptors : Connect(a)
  PROVE  IInv'
<1> USE DEF IInv
<1>t. Typed /\ MarkExact /\ OneLeader /\ LeaderRecorded /\ CounterExact  OBVIOUS
<1>1. CASE BlockRequests
  <2>1. /\ UNCHANGED <<fPoolState, fLastAcceptorUsedIndex, pending, acceptor,
                       fCurrentParallelRequests, pc>>
        /\ fOldLeader' = fCurrentLeader /\ fCurrentLeader' = cBlockPromotion
        /\ ctl = "sigwait" /\ ctl' = "await" /\ hups < MaxHups /\ hups' = hups + 1
    BY <1>1 DEF BlockRequests, eventVars
  <2>2. fCurrentLeader # cBlockPromotion  BY <1>t, <2>1 DEF MarkExact
  <2>3. Typed'  BY <2>1, <2>2, LFAssumption DEF Typed, Leaders
  <2>4. MarkExact'  BY <1>t, <2>1 DEF MarkExact, BlockHolds
  <2>5. RecordedLeader' = RecordedLeader  BY <2>1, <2>2 DEF RecordedLeader
  <2>6. OneLeader' /\ LeaderRecorded'
    BY <2>1, <2>5 DEF OneLeader, LeaderRecorded, Leads
  <2>7. CounterExact'  BY <2>1 DEF CounterExact, Processing
  <2> QED  BY <2>3, <2>4, <2>6, <2>7
<1>2. CASE UnblockRequests
  <2>1. /\ UNCHANGED <<fPoolState, fOldLeader, fLastAcceptorUsedIndex, pending, acceptor,
                       fCurrentParallelRequests, hups>>
        /\ fCurrentLeader' = fOldLeader
        /\ ctl \in {"unblock", "giveup"} /\ ctl' \in {"sigwait", "terminate"}
    BY <1>2 DEF UnblockRequests, eventVars
  <2>2. Wakes(pc, pc')  BY <1>2, SignalWakes DEF UnblockRequests, Typed
  <2>3. fCurrentLeader = cBlockPromotion /\ fOldLeader # cBlockPromotion
    BY <1>t, <2>1 DEF MarkExact, BlockHolds, Typed
  <2>4. Typed'  BY <2>1, <2>2 DEF Typed, Wakes
  <2>5. MarkExact'  BY <1>t, <2>1, <2>3 DEF MarkExact, BlockHolds
  <2>6. RecordedLeader' = RecordedLeader  BY <2>1, <2>3 DEF RecordedLeader
  <2>7. \A u \in Threads : Leads(u)' <=> Leads(u)  BY <2>2 DEF Wakes, Leads
  <2>8. OneLeader' /\ LeaderRecorded'
    BY <2>1, <2>6, <2>7 DEF OneLeader, LeaderRecorded
  <2>9. CounterExact'
    <3>1. \A u \in Threads : pc'[u] = "process" <=> pc[u] = "process"
      BY <2>2 DEF Wakes
    <3> QED  BY <2>1, <3>1, ProcessingSame DEF CounterExact
  <2> QED  BY <2>4, <2>5, <2>8, <2>9
<1>3. CASE RequestTermination
  <2>1. /\ UNCHANGED <<fOldLeader, fLastAcceptorUsedIndex, pending, acceptor,
                       fCurrentParallelRequests, hups>>
        /\ fPoolState' = eTerminationRequested /\ fCurrentLeader' = cBlockPromotion
        /\ ctl' = "join"
        /\ pc' = [t \in Threads |-> IF pc[t] = "wait" THEN "woken" ELSE pc[t]]
    BY <1>3 DEF RequestTermination, BroadCast, eventVars
  <2>2. Typed'  BY <2>1 DEF Typed, PCs, Leaders
  <2>3. MarkExact'  BY <2>1 DEF MarkExact, BlockHolds
  <2>4. OneLeader'  BY <2>1 DEF OneLeader, Leads
  <2>5. LeaderRecorded'  BY <2>1 DEF LeaderRecorded
  <2>6. CounterExact'
    <3>1. \A u \in Threads : pc'[u] = "process" <=> pc[u] = "process"
      BY <2>1
    <3> QED  BY <2>1, <3>1, ProcessingSame DEF CounterExact
  <2> QED  BY <2>2, <2>3, <2>4, <2>5, <2>6
<1>4. CASE SigTerm \/ AwaitEmpty \/ DoGlobalReinit \/ Join
  <2>1. /\ UNCHANGED <<fPoolState, fCurrentLeader, fOldLeader, fLastAcceptorUsedIndex, pending,
                       acceptor, fCurrentParallelRequests, pc, hups>>
        /\ \/ ctl = "sigwait" /\ ctl' = "terminate"
           \/ ctl = "await" /\ ctl' \in {"reset", "giveup"}
           \/ ctl = "reset" /\ ctl' \in {"unblock", "terminate"}
           \/ ctl = "join" /\ ctl' = "down"
    BY <1>4 DEF SigTerm, AwaitEmpty, DoGlobalReinit, Join, leaderVars, eventVars
  <2>2. Typed'  BY <2>1 DEF Typed
  <2>3. MarkExact'  BY <1>t, <2>1 DEF MarkExact, BlockHolds
  <2>4. \A u \in Threads : /\ Leads(u)' <=> Leads(u)
                           /\ pc'[u] = "process" <=> pc[u] = "process"
    BY <2>1 DEF Leads
  <2> QED  BY <2>1, <2>2, <2>3, <2>4, QuietStep
<1>5. ASSUME NEW a \in Acceptors, Connect(a) PROVE IInv'
  <2>1. /\ UNCHANGED <<fPoolState, fCurrentLeader, fOldLeader, fLastAcceptorUsedIndex,
                       acceptor, fCurrentParallelRequests, pc, ctl, hups>>
        /\ pending' = [pending EXCEPT ![a] = TRUE]
    BY <1>5 DEF Connect, leaderVars, ctlVars
  <2>2. Typed'  BY <2>1 DEF Typed
  <2>3. MarkExact'  BY <1>t, <2>1 DEF MarkExact, BlockHolds
  <2>4. \A u \in Threads : /\ Leads(u)' <=> Leads(u)
                           /\ pc'[u] = "process" <=> pc[u] = "process"
    BY <2>1 DEF Leads
  <2> QED  BY <2>1, <2>2, <2>3, <2>4, QuietStep
<1> QED  BY <1>1, <1>2, <1>3, <1>4, <1>5 DEF Control

\* Steps that change nothing.
LEMMA StutterIInv == IInv /\ UNCHANGED vars => IInv'
BY DEF IInv, vars, leaderVars, eventVars, ctlVars, Typed, MarkExact, BlockHolds, OneLeader,
       LeaderRecorded, RecordedLeader, Leads, CounterExact, Processing

\* The inductive invariant holds in every reachable state.
THEOREM Invariance == Spec => []IInv
<1>1. IInv /\ [Next]_vars => IInv'
  <2> SUFFICES ASSUME IInv, [Next]_vars PROVE IInv'  OBVIOUS
  <2>1. CASE BlockRequests \/ SigTerm \/ Control \/ \E a \in Acceptors : Connect(a)
    BY <2>1, ControlIInv
  <2>2. ASSUME NEW t \in Threads,
               ThreadStep(t) \/ SpuriousWakeup(t) \/ \E keep \in BOOLEAN : LeaveRequest(t, keep)
        PROVE  IInv'
    BY <2>2, ThreadStepIInv
  <2>3. CASE UNCHANGED vars  BY <2>3, StutterIInv
  <2> QED  BY <2>1, <2>2, <2>3 DEF Next
<1> QED  BY <1>1, InitIInv, PTL DEF Spec

----------------------------------------------------------------------------
(* The theorems.                                                           *)

\* Type correctness, the bound on the reactor's request counter included.
THEOREM TypeCorrect == Spec => []TypeOK
<1>1. IInv => TypeOK
  BY ProcessingBound DEF IInv, Typed, CounterExact, TypeOK, PCs
<1> QED  BY <1>1, Invariance, PTL

\* At most one thread polls and accepts, for any number of threads and of
\* reinits that block and unblock the pool while its leader is at work.
THEOREM AtMostOneLeader == Spec => []OneLeader
<1>1. IInv => OneLeader  BY DEF IInv
<1> QED  BY <1>1, Invariance, PTL

\* From BlockRequests to UnblockRequests no thread takes the mark away.
THEOREM BlockStaysInForce == Spec => []BlockHolds
<1>1. IInv => BlockHolds  BY DEF IInv, MarkExact
<1> QED  BY <1>1, Invariance, PTL

\* fCurrentLeader and fOldLeader name the thread that really polls, until the
\* pool is terminated: unblocking restores a leader that is still at work, and
\* no leader is left in the fields that has gone to its request.
THEOREM LeaderIsKnown == Spec => []LeaderRecorded
<1>1. IInv => LeaderRecorded  BY DEF IInv
<1> QED  BY <1>1, Invariance, PTL

\* AwaitEmpty looks at the exact number of requests that are processed.
THEOREM RequestsCounted == Spec => []CounterExact
<1>1. IInv => CounterExact  BY DEF IInv
<1> QED  BY <1>1, Invariance, PTL
=============================================================================
