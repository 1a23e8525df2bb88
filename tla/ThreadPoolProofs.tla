-------------------------- MODULE ThreadPoolProofs --------------------------
(***************************************************************************)
(* Proofs about ThreadPool, for every number of threads and of Inits and   *)
(* every combination of faults.                                            *)
(***************************************************************************)
EXTENDS ThreadPool, FiniteSetTheorems, TLAPS

----------------------------------------------------------------------------
(* The invariant.                                                          *)

\* The types; the ranges of the two counters follow from CountersAgree.
Typed ==
  /\ fThreadPool \in 0..N /\ observed \subseteq Threads
  /\ kept \subseteq Threads /\ left \in Nat /\ late \in Nat
  /\ fState \in [Threads -> EThreadState] /\ os \in [Threads -> OsPCs]
  /\ fStartedThreads \in Int /\ fTerminatedThreads \in Int /\ fRunningThreads \in Int
  /\ fTerminated \in BOOLEAN /\ reinit \in BOOLEAN
  /\ mgr \in MgrPCs /\ i \in 1..(N + 1)
  /\ inits \in 0..MaxInits
  /\ joiner \in {"out", "in", "joined"}

\* Start and Terminate count at most one for each round of their loops.
RoundsCounted ==
  /\ lStartSuccess \in 0..N /\ result \in 0..N
  /\ mgr = "starting" => lStartSuccess < i
  /\ mgr \in {"request", "check"} => result < i
  /\ mgr = "check" => i <= fThreadPool

\* How the state of a thread and its place in IntRun go together.
StatesMatch(t) ==
  \/ os[t] = "none" /\ fState[t] \in {eCreated, eStartRequested, eTerminated}
  \/ os[t] \in {"check", "torun"} /\ fState[t] \in {eStarted, eTerminationRequested}
  \/ os[t] \in {"run", "endrun"} /\ fState[t] \in {eRunning, eTerminationRequested}
  \/ os[t] = "exit" /\ fState[t] = eTerminatedRunMethod
  \/ os[t] = "gone" /\ fState[t] = eTerminated

\* A thread that runs is in the pool and reports to the manager, as one of
\* this Init or as one of an earlier Init.
LiveObserved ==
  /\ \A t \in Threads : StatesMatch(t) /\ (Live(t) => t <= fThreadPool /\ Reports(t))
  /\ observed \cap kept = {}

\* A thread that is still to be started is new.
NotStartedYet ==
  /\ mgr = "inited" => \A t \in Threads : os[t] = "none" /\ fState[t] = eCreated /\ t \in observed
  /\ mgr = "starting" => observed = Threads
       /\ \A t \in Threads : t >= i => os[t] = "none" /\ fState[t] = eCreated

\* DoTerminate has not failed so far only if the threads it is through with
\* have terminated; a pool is joined and deleted when all have.
TerminatedSoFar ==
  /\ mgr \in {"request", "check"} /\ result = 0
       => \A t \in Threads : t < i => fState[t] = eTerminated
  /\ mgr = "join" => result = 0 /\ \A t \in Threads : t <= fThreadPool => fState[t] = eTerminated

\* A live thread was asked to terminate.
Asked(t) == Live(t) => fState[t] \in {eTerminationRequested, eTerminatedRunMethod}

\* DoTerminate asks every thread, so that a thread whose entry a later Init
\* takes over has nothing left to report but its end (LeftExits).
AskedSoFar ==
  /\ mgr = "new" => \A t \in Threads : ~Live(t)
  /\ mgr = "request" => \A t \in Threads : t < i => Asked(t)
  /\ mgr = "check" => \A t \in Threads : t <= i => Asked(t)
  /\ mgr \in {"join", "init"} \/ (mgr \in {"failed", "terminated"} /\ fTerminated)
       => \A t \in Threads : Asked(t)

\* Only a pool that was initialised completely is joined.
JoinedPool == mgr \in {"inited", "starting"} => fThreadPool = N

\* Init is called no more often than it may be, by Terminate neither.
InitsBounded ==
  mgr = "init" \/ (mgr \in {"request", "check", "join"} /\ reinit) => inits < MaxInits

IInv == Typed /\ InitsBounded /\ RoundsCounted /\ LiveObserved /\ NotStartedYet /\ TerminatedSoFar
        /\ AskedSoFar /\ JoinedPool /\ CountersAgree

----------------------------------------------------------------------------
(* Counting threads.                                                       *)

StartedOf(obs, o) == {t \in obs : o[t] # "none"}
EndedOf(obs, s)   == {t \in obs : s[t] = eTerminated}

\* Every set of threads is finite, and has at most N elements.
LEMMA ThreadsFinite ==
  ASSUME NEW S, S \subseteq Threads
  PROVE  IsFiniteSet(S) /\ Cardinality(S) \in 0..N
<1>1. IsFiniteSet(Threads) /\ Cardinality(Threads) = N
  BY FS_Interval, PoolAssumption DEF Threads
<1> QED  BY <1>1, FS_Subset, FS_CardinalityType, PoolAssumption

\* A thread that is added to a set of threads counts one more.
LEMMA OneMore ==
  ASSUME NEW S, NEW T, S \subseteq Threads, NEW t, t \notin S, T = S \cup {t}
  PROVE  Cardinality(T) = Cardinality(S) + 1
BY ThreadsFinite, FS_AddElement

\* What SetState does to the state of a thread and to the counters, when it is
\* called by another thread for a termination or an end, or by the thread
\* itself, which has not ended.
LEMMA SetStateEffect ==
  ASSUME Typed, CountersAgree, observed \cap kept = {}, NEW t \in Threads, NEW state, NEW own \in BOOLEAN,
         SetState(t, state, own),
         \/ state \in {eTerminationRequested, eTerminated} /\ ~own
         \/ state \in {eRunning, eTerminatedRunMethod} /\ own /\ fState[t] # eTerminated
  PROVE  /\ fState' = [fState EXCEPT ![t] = AfterSetState(fState[t], state, own)]
         /\ fState' \in [Threads -> EThreadState]
         /\ fStartedThreads' = fStartedThreads
         /\ fStartedThreads' \in Int /\ fRunningThreads' \in Int /\ fTerminatedThreads' \in Int
         /\ late' \in Nat /\ fTerminatedThreads' = Cardinality(EndedOf(observed, fState')) + late'
         /\ \A u \in Threads : fState[u] = eTerminated => fState'[u] = eTerminated
<1> DEFINE new == AfterSetState(fState[t], state, own)
<1> USE DEF eCreated, eStartRequested, eStartInProgress, eStarted, eRunning,
            eTerminationRequested, eTerminatedRunMethod, eTerminated, EThreadState
<1>1. fState' = [fState EXCEPT ![t] = new]  BY DEF SetState
<1>2. fState[t] \in EThreadState  BY DEF Typed
<1>3. new \in EThreadState /\ (fState[t] = eTerminated => new = eTerminated)
  BY <1>2 DEF AfterSetState, SetStateOk, SetStateTarget
<1>4. SetStateOk(fState[t], state, own) =>
        /\ new = SetStateTarget(fState[t], state) /\ new # eStarted
        /\ fState[t] # eTerminated
  BY <1>2 DEF AfterSetState, SetStateOk, SetStateTarget
<1>5. ~SetStateOk(fState[t], state, own) => new = fState[t]  BY DEF AfterSetState
<1> HIDE DEF new
<1>6. CASE SetStateOk(fState[t], state, own) /\ t \in observed /\ new = eTerminated
  <2>1. /\ fStartedThreads' = fStartedThreads + 0
        /\ fRunningThreads' = fRunningThreads + 0 - 1
        /\ fTerminatedThreads' = fTerminatedThreads + 1
        /\ late' = late + 0
    BY <1>4, <1>6 DEF SetState, Update, Reports
  <2>2. EndedOf(observed, fState') = EndedOf(observed, fState) \cup {t}
    BY <1>1, <1>6 DEF EndedOf, Typed
  <2>3. t \notin EndedOf(observed, fState)  BY <1>4, <1>6 DEF EndedOf
  <2>4. EndedOf(observed, fState) \subseteq Threads  BY DEF EndedOf, Typed
  <2>5. Cardinality(EndedOf(observed, fState')) = Cardinality(EndedOf(observed, fState)) + 1
    BY <2>2, <2>3, <2>4, OneMore
  <2>6. Cardinality(EndedOf(observed, fState)) \in 0..N  BY <2>4, ThreadsFinite
  <2> QED  BY <1>1, <1>3, <2>1, <2>5, <2>6, PoolAssumption DEF CountersAgree, EndedOf, Typed, new
<1>7. CASE ~(SetStateOk(fState[t], state, own) /\ t \in observed /\ new = eTerminated)
  <2>1. /\ fStartedThreads' = fStartedThreads
        /\ fRunningThreads' \in Int /\ late' \in Nat /\ fTerminatedThreads' \in Int
        /\ fTerminatedThreads' - late' = fTerminatedThreads - late
    <3>1. CASE SetStateOk(fState[t], state, own)
      <4>1. Update(t, new)  BY <1>4, <3>1 DEF SetState
      <4>2. t \notin observed \/ new # eTerminated  BY <1>7, <3>1
      <4> QED  BY <1>4, <3>1, <4>1, <4>2 DEF Update, Reports, Typed
    <3>2. CASE ~SetStateOk(fState[t], state, own)
      BY <3>2 DEF SetState, counters, Typed
    <3> QED  BY <3>1, <3>2
  <2>2. EndedOf(observed, fState') = EndedOf(observed, fState)
    BY <1>1, <1>4, <1>5, <1>7 DEF EndedOf, Typed
  <2>3. Cardinality(EndedOf(observed, fState)) \in 0..N
    BY ThreadsFinite, EndedOf(observed, fState) \subseteq Threads DEF EndedOf, Typed
  <2>4. fTerminatedThreads = Cardinality(EndedOf(observed, fState)) + late /\ late \in Nat
    BY DEF CountersAgree, EndedOf, Typed
  <2>5. fTerminatedThreads' = Cardinality(EndedOf(observed, fState')) + late'
    BY <2>1, <2>2, <2>3, <2>4
  <2> QED  BY <1>1, <1>3, <2>1, <2>5 DEF Typed, new
<1> QED  BY <1>6, <1>7

\* The invariant holds at first.
LEMMA InitIInv == Init => IInv
<1> SUFFICES ASSUME Init PROVE IInv  OBVIOUS
<1> USE PoolAssumption DEF Init, eCreated, eStartRequested, eTerminated, EThreadState
<1>1. Typed
  <2>1. fState \in [Threads -> EThreadState] /\ os \in [Threads -> OsPCs]  BY DEF OsPCs
  <2>2. fThreadPool \in 0..N /\ i \in 1..(N + 1) /\ inits \in 0..MaxInits  OBVIOUS
  <2>3. fTerminated \in BOOLEAN /\ reinit \in BOOLEAN  OBVIOUS
  <2>4. mgr \in MgrPCs /\ joiner \in {"out", "in", "joined"} /\ observed \subseteq Threads
        /\ kept \subseteq Threads /\ left \in Nat /\ late \in Nat
    BY DEF MgrPCs
  <2>5. fStartedThreads \in Int /\ fTerminatedThreads \in Int /\ fRunningThreads \in Int  OBVIOUS
  <2> QED  BY <2>1, <2>2, <2>3, <2>4, <2>5 DEF Typed
<1>2. RoundsCounted /\ InitsBounded /\ NotStartedYet /\ JoinedPool
  BY DEF RoundsCounted, InitsBounded, NotStartedYet, JoinedPool
<1>3. LiveObserved /\ TerminatedSoFar /\ AskedSoFar
  BY DEF LiveObserved, TerminatedSoFar, AskedSoFar, Asked, StatesMatch, Live
<1>4. CountersAgree
  <2>1. {t \in observed : os[t] # "none"} = {} /\ {t \in observed : fState[t] = eTerminated} = {}
    OBVIOUS
  <2> QED  BY <2>1, FS_EmptySet DEF CountersAgree
<1> QED  BY <1>1, <1>2, <1>3, <1>4 DEF IInv

----------------------------------------------------------------------------
(* The steps of the threads.                                               *)

\* A live thread goes on: the manager is not where it counts on new or on
\* terminated threads, and the counter of started ones stays.
LEMMA ThreadGoesOn ==
  ASSUME IInv, NEW t \in Threads, Live(t), NEW place \in OsPCs \ {"none"},
         os' = [os EXCEPT ![t] = place],
         fState' \in [Threads -> EThreadState],
         \A u \in Threads \ {t} : fState'[u] = fState[u],
         \A u \in Threads : fState[u] = eTerminated => fState'[u] = eTerminated,
         StatesMatch(t)', Asked(t) => Asked(t)',
         fStartedThreads' = fStartedThreads,
         fRunningThreads' \in Int, fTerminatedThreads' \in Int,
         late' \in Nat /\ fTerminatedThreads' = Cardinality(EndedOf(observed, fState')) + late',
         UNCHANGED <<fThreadPool, observed, earlier, fTerminated, mgrVars, joiner>>
  PROVE  IInv'
<1> USE DEF IInv
<1>1. UNCHANGED <<fThreadPool, observed, earlier, fTerminated, mgr, i, lStartSuccess, result, reinit,
                  inits, joiner>>
  BY DEF mgrVars
<1>2. Typed'  BY <1>1 DEF Typed, earlier
<1>3. RoundsCounted' /\ InitsBounded' /\ JoinedPool'  BY <1>1 DEF RoundsCounted, InitsBounded, JoinedPool
<1>4. os'[t] = place /\ \A u \in Threads \ {t} : os'[u] = os[u]  BY DEF Typed
<1>5. \A u \in Threads : Live(u)' => Live(u)  BY <1>4 DEF Live
<1>6. \A u \in Threads : StatesMatch(u)'
  BY <1>4 DEF LiveObserved, StatesMatch
<1>7. LiveObserved'  BY <1>1, <1>5, <1>6 DEF LiveObserved, Reports, earlier
<1>8. NotStartedYet'
  <2>1. mgr # "inited"  BY DEF NotStartedYet, Live
  <2>2. mgr = "starting" => ~(t >= i)  BY DEF NotStartedYet, Live
  <2> QED  BY <1>1, <1>4, <2>1, <2>2 DEF NotStartedYet
<1>9. TerminatedSoFar'
  BY <1>1 DEF TerminatedSoFar
<1>a. AskedSoFar'
  <2>1. \A u \in Threads : Asked(u) => Asked(u)'
    BY <1>4 DEF Asked, Live
  <2> QED  BY <1>1, <1>5, <2>1 DEF AskedSoFar
<1>10. CountersAgree'
  <2>1. {u \in observed' : os'[u] # "none"} = {u \in observed : os[u] # "none"}
    BY <1>1, <1>4 DEF Live, Typed
  <2> QED  BY <1>1, <2>1 DEF CountersAgree, EndedOf
<1> QED  BY <1>2, <1>3, <1>7, <1>8, <1>9, <1>a, <1>10

\* Steps of a thread that leave its state alone.
LEMMA ThreadOnlyMoves ==
  ASSUME IInv, NEW t \in Threads, Live(t), NEW place \in OsPCs \ {"none"},
         os' = [os EXCEPT ![t] = place], StatesMatch(t)',
         UNCHANGED <<fState, counters, fThreadPool, observed, earlier, fTerminated, mgrVars, joiner>>
  PROVE  IInv'
<1>1. UNCHANGED <<fState, fStartedThreads, fRunningThreads, fTerminatedThreads, late, fThreadPool,
                  observed, earlier, fTerminated, joiner>> /\ UNCHANGED mgrVars
  BY DEF counters
<1>2. /\ fState \in [Threads -> EThreadState] /\ fRunningThreads \in Int /\ fTerminatedThreads \in Int
      /\ late \in Nat /\ fTerminatedThreads = Cardinality(EndedOf(observed, fState)) + late
  BY DEF IInv, Typed, CountersAgree, EndedOf
<1>3. Asked(t) => Asked(t)'  BY <1>1 DEF Asked, Live
<1> QED  BY <1>1, <1>2, <1>3, ThreadGoesOn

\* The steps of a thread preserve the invariant.
LEMMA OsStepIInv ==
  ASSUME IInv, NEW t \in Threads, OsStep(t) \/ LeaveRun(t)
  PROVE  IInv'
<1>0. /\ os \in [Threads -> OsPCs] /\ fState[t] \in EThreadState /\ StatesMatch(t)
      /\ Typed /\ CountersAgree /\ fState \in [Threads -> EThreadState]
      /\ observed \cap kept = {}
  BY DEF IInv, Typed, LiveObserved
<1> USE DEF eCreated, eStartRequested, eStartInProgress, eStarted, eRunning,
            eTerminationRequested, eTerminatedRunMethod, eTerminated
<1>1. CASE CheckStarted(t)
  <2>1. PICK place \in {"torun", "endrun"} :
          /\ os' = [os EXCEPT ![t] = place]
          /\ place = "torun" <=> fState[t] = eStarted
    BY <1>1 DEF CheckStarted, OsGoto
  <2>2. os[t] = "check" /\ UNCHANGED <<fState, counters, fThreadPool, observed, earlier, fTerminated, mgrVars, joiner>>
    BY <1>1 DEF CheckStarted
  <2>3. StatesMatch(t)'  BY <1>0, <2>1, <2>2 DEF StatesMatch
  <2>4. Live(t) /\ place \in OsPCs \ {"none"}  BY <2>2 DEF Live, OsPCs
  <2> QED  BY <2>1, <2>2, <2>3, <2>4, ThreadOnlyMoves
<1>2. CASE LeaveRun(t)
  <2>1. /\ os[t] = "run" /\ os' = [os EXCEPT ![t] = "endrun"]
        /\ UNCHANGED <<fState, counters, fThreadPool, observed, earlier, fTerminated, mgrVars, joiner>>
    BY <1>2 DEF LeaveRun, OsGoto
  <2>2. StatesMatch(t)'  BY <1>0, <2>1 DEF StatesMatch
  <2>3. Live(t) /\ "endrun" \in OsPCs \ {"none"}  BY <2>1 DEF Live, OsPCs
  <2> QED  BY <2>1, <2>2, <2>3, ThreadOnlyMoves
<1>3. CASE EnterRun(t)
  <2>1. /\ os[t] = "torun" /\ SetState(t, eRunning, TRUE)
        /\ UNCHANGED <<fThreadPool, observed, earlier, fTerminated, mgrVars, joiner>>
    BY <1>3 DEF EnterRun
  <2>2. PICK place \in {"run", "endrun"} :
          /\ os' = [os EXCEPT ![t] = place]
          /\ place = "run" <=> SetStateOk(fState[t], eRunning, TRUE)
    BY <1>3 DEF EnterRun, OsGoto
  <2>3. fState[t] \in {eStarted, eTerminationRequested}  BY <1>0, <2>1 DEF StatesMatch
  <2>4. /\ fState' = [fState EXCEPT ![t] = AfterSetState(fState[t], eRunning, TRUE)]
        /\ fState' \in [Threads -> EThreadState]
        /\ fStartedThreads' = fStartedThreads
        /\ fRunningThreads' \in Int /\ fTerminatedThreads' \in Int
        /\ late' \in Nat /\ fTerminatedThreads' = Cardinality(EndedOf(observed, fState')) + late'
        /\ \A u \in Threads : fState[u] = eTerminated => fState'[u] = eTerminated
    BY <1>0, <2>1, <2>3, fState[t] # eTerminated, SetStateEffect
  <2>5. fState'[t] \in {eRunning, eTerminationRequested}
    BY <1>0, <2>3, <2>4 DEF AfterSetState, SetStateOk, SetStateTarget
  <2>6. StatesMatch(t)'  BY <1>0, <2>2, <2>5 DEF StatesMatch
  <2>7. Live(t) /\ place \in OsPCs \ {"none"}  BY <2>1 DEF Live, OsPCs
  <2>8. \A u \in Threads \ {t} : fState'[u] = fState[u]  BY <1>0, <2>4
  <2>9. Asked(t) => Asked(t)'
    BY <1>0, <2>1, <2>3, <2>4 DEF Asked, Live, AfterSetState, SetStateOk, SetStateTarget
  <2> QED  BY <2>1, <2>2, <2>4, <2>6, <2>7, <2>8, <2>9, ThreadGoesOn
<1>4. CASE EndIntRun(t)
  <2>1. /\ os[t] = "endrun" /\ SetState(t, eTerminatedRunMethod, TRUE)
        /\ os' = [os EXCEPT ![t] = "exit"]
        /\ UNCHANGED <<fThreadPool, observed, earlier, fTerminated, mgrVars, joiner>>
    BY <1>4 DEF EndIntRun, OsGoto
  <2>2. fState[t] \in {eRunning, eTerminationRequested}  BY <1>0, <2>1 DEF StatesMatch
  <2>3. /\ fState' = [fState EXCEPT ![t] = AfterSetState(fState[t], eTerminatedRunMethod, TRUE)]
        /\ fState' \in [Threads -> EThreadState]
        /\ fStartedThreads' = fStartedThreads
        /\ fRunningThreads' \in Int /\ fTerminatedThreads' \in Int
        /\ late' \in Nat /\ fTerminatedThreads' = Cardinality(EndedOf(observed, fState')) + late'
        /\ \A u \in Threads : fState[u] = eTerminated => fState'[u] = eTerminated
    BY <1>0, <2>1, <2>2, fState[t] # eTerminated, SetStateEffect
  <2>4. fState'[t] = eTerminatedRunMethod
    BY <1>0, <2>3 DEF AfterSetState, SetStateOk, SetStateTarget
  <2>5. StatesMatch(t)'  BY <1>0, <2>1, <2>4 DEF StatesMatch
  <2>6. Live(t) /\ "exit" \in OsPCs \ {"none"}  BY <2>1 DEF Live, OsPCs
  <2>7. \A u \in Threads \ {t} : fState'[u] = fState[u]  BY <1>0, <2>3
  <2>8. Asked(t)'  BY <2>4 DEF Asked
  <2> QED  BY <2>1, <2>3, <2>5, <2>6, <2>7, <2>8, ThreadGoesOn
<1>5. CASE Exit(t)
  <2>1. /\ os[t] = "exit" /\ SetState(t, eTerminated, FALSE)
        /\ os' = [os EXCEPT ![t] = "gone"]
        /\ UNCHANGED <<fThreadPool, observed, earlier, fTerminated, mgrVars, joiner>>
    BY <1>5 DEF Exit, OsGoto
  <2>2. fState[t] = eTerminatedRunMethod  BY <1>0, <2>1 DEF StatesMatch
  <2>3. /\ fState' = [fState EXCEPT ![t] = AfterSetState(fState[t], eTerminated, FALSE)]
        /\ fState' \in [Threads -> EThreadState]
        /\ fStartedThreads' = fStartedThreads
        /\ fRunningThreads' \in Int /\ fTerminatedThreads' \in Int
        /\ late' \in Nat /\ fTerminatedThreads' = Cardinality(EndedOf(observed, fState')) + late'
        /\ \A u \in Threads : fState[u] = eTerminated => fState'[u] = eTerminated
    BY <1>0, <2>1, <2>2, SetStateEffect
  <2>4. fState'[t] = eTerminated
    BY <1>0, <2>2, <2>3 DEF AfterSetState, SetStateOk, SetStateTarget
  <2>5. StatesMatch(t)'  BY <1>0, <2>1, <2>4 DEF StatesMatch
  <2>6. Live(t) /\ "gone" \in OsPCs \ {"none"}  BY <2>1 DEF Live, OsPCs
  <2>7. \A u \in Threads \ {t} : fState'[u] = fState[u]  BY <1>0, <2>3
  <2>8. Asked(t)'  BY <1>0, <2>1 DEF Asked, Live
  <2> QED  BY <2>1, <2>3, <2>5, <2>6, <2>7, <2>8, ThreadGoesOn
<1> QED  BY <1>1, <1>2, <1>3, <1>4, <1>5 DEF OsStep

----------------------------------------------------------------------------
(* The steps of the manager and of the joiner.                             *)

\* Steps that leave the threads, the pool and its counters alone.
LEMMA ThreadsUntouched ==
  ASSUME IInv, UNCHANGED <<fThreadPool, observed, earlier, fState, os, counters>>,
         Typed', InitsBounded', RoundsCounted', NotStartedYet', TerminatedSoFar', AskedSoFar',
         JoinedPool'
  PROVE  IInv'
<1>1. UNCHANGED <<fThreadPool, observed, kept, fState, os, fStartedThreads, fRunningThreads,
                  fTerminatedThreads, late>>
  BY DEF counters, earlier
<1>2. LiveObserved'  BY <1>1 DEF IInv, LiveObserved, StatesMatch, Live, Reports
<1>3. CountersAgree'  BY <1>1 DEF IInv, CountersAgree
<1> QED  BY <1>2, <1>3 DEF IInv

\* The calls that begin Init, Start and Terminate, and the end of Start.
LEMMA CallsIInv == IInv /\ (ReInit \/ InitCall \/ Start \/ Terminate \/ StartReturns) => IInv'
<1> SUFFICES ASSUME IInv, ReInit \/ InitCall \/ Start \/ Terminate \/ StartReturns PROVE IInv'
  OBVIOUS
<1> USE PoolAssumption
<1>0. Typed /\ InitsBounded /\ RoundsCounted /\ NotStartedYet /\ TerminatedSoFar /\ AskedSoFar
      /\ JoinedPool
  BY DEF IInv
<1>1. CASE ReInit \/ Terminate
  <2>1. /\ UNCHANGED <<fThreadPool, observed, earlier, fState, os, fTerminated, lStartSuccess, inits, joiner>>
        /\ UNCHANGED counters
        /\ mgr' = "request" /\ i' = 1 /\ result' = 0 /\ reinit' \in BOOLEAN
        /\ reinit' => inits < MaxInits
    BY <1>1 DEF ReInit, Terminate
  <2>2. Typed'  BY <1>0, <2>1 DEF Typed, MgrPCs, counters, earlier
  <2>3. InitsBounded' /\ RoundsCounted'  BY <1>0, <2>1 DEF InitsBounded, RoundsCounted
  <2>4. NotStartedYet' /\ JoinedPool'  BY <2>1 DEF NotStartedYet, JoinedPool
  <2>5. TerminatedSoFar' /\ AskedSoFar'
    <3>1. \A t \in Threads : ~(t < 1)  BY DEF Threads
    <3> QED  BY <2>1, <3>1 DEF TerminatedSoFar, AskedSoFar
  <2> QED  BY <2>1, <2>2, <2>3, <2>4, <2>5, ThreadsUntouched
<1>2. CASE InitCall
  <2>1. /\ UNCHANGED <<fThreadPool, observed, earlier, fState, os, fTerminated, i, lStartSuccess, result,
                       reinit, inits, joiner>>
        /\ UNCHANGED counters
        /\ mgr \in {"new", "failed", "terminated"} /\ fTerminated /\ mgr' = "init"
        /\ inits < MaxInits
    BY <1>2 DEF InitCall
  <2>2. Typed'  BY <1>0, <2>1 DEF Typed, MgrPCs, counters, earlier
  <2>3. InitsBounded' /\ RoundsCounted' /\ NotStartedYet' /\ JoinedPool'
    BY <1>0, <2>1 DEF InitsBounded, RoundsCounted, NotStartedYet, JoinedPool
  <2>4. TerminatedSoFar'  BY <2>1 DEF TerminatedSoFar
  <2>5. AskedSoFar'  BY <1>0, <2>1 DEF AskedSoFar, Asked, Live
  <2> QED  BY <2>1, <2>2, <2>3, <2>4, <2>5, ThreadsUntouched
<1>3. CASE Start
  <2>1. /\ UNCHANGED <<fThreadPool, observed, earlier, fState, os, fTerminated, result, reinit, inits>>
        /\ UNCHANGED counters
        /\ mgr = "inited" /\ mgr' = "starting" /\ i' = 1 /\ lStartSuccess' = 0
        /\ joiner' \in {"out", joiner}
    BY <1>3 DEF Start
  <2>2. Typed'  BY <1>0, <2>1 DEF Typed, MgrPCs, counters, earlier
  <2>3. InitsBounded' /\ RoundsCounted' /\ JoinedPool'
    BY <1>0, <2>1 DEF InitsBounded, RoundsCounted, JoinedPool
  <2>4. NotStartedYet'
    <3>1. observed = Threads  BY <1>0, <2>1 DEF NotStartedYet, Typed
    <3> QED  BY <1>0, <2>1, <3>1 DEF NotStartedYet
  <2>5. TerminatedSoFar' /\ AskedSoFar'  BY <2>1 DEF TerminatedSoFar, AskedSoFar
  <2> QED  BY <2>1, <2>2, <2>3, <2>4, <2>5, ThreadsUntouched
<1>4. CASE StartReturns
  <2>1. /\ UNCHANGED <<fThreadPool, observed, earlier, fState, os, fTerminated, i, lStartSuccess, result,
                       reinit, inits, joiner>>
        /\ UNCHANGED counters /\ mgr' = "started"
    BY <1>4 DEF StartReturns
  <2>2. Typed'  BY <1>0, <2>1 DEF Typed, MgrPCs, counters, earlier
  <2>3. InitsBounded' /\ RoundsCounted' /\ NotStartedYet' /\ JoinedPool' /\ TerminatedSoFar'
        /\ AskedSoFar'
    BY <1>0, <2>1 DEF InitsBounded, RoundsCounted, NotStartedYet, JoinedPool, TerminatedSoFar,
                      AskedSoFar
  <2> QED  BY <2>1, <2>2, <2>3, ThreadsUntouched
<1> QED  BY <1>1, <1>2, <1>3, <1>4

\* Init fills the pool: the threads that are observed afterwards are new, and
\* what is still alive of the old ones is kept or has no entry any more.
LEMMA InitPoolIInv == IInv /\ InitPool => IInv'
<1> SUFFICES ASSUME IInv, InitPool PROVE IInv'  OBVIOUS
<1> USE PoolAssumption
<1>0. Typed /\ InitsBounded /\ RoundsCounted /\ LiveObserved  BY DEF IInv
<1>1. /\ mgr = "init" /\ fTerminated' = FALSE /\ reinit' = FALSE
      /\ fStartedThreads' = 0 /\ fTerminatedThreads' = 0 /\ late' = 0 /\ inits' = inits + 1
      /\ UNCHANGED <<fRunningThreads, i, lStartSuccess, result, joiner>>
  BY DEF InitPool
<1>2. PICK k \in 0..N, n \in 0..N :
        /\ k < N => "alloc" \in Faults /\ n = 0
        /\ k = N /\ n < N => "init" \in Faults
        /\ fThreadPool' = IF k > fThreadPool THEN k ELSE fThreadPool
        /\ fState' = [t \in Threads |-> IF t <= k THEN eCreated ELSE fState[t]]
        /\ os' = [t \in Threads |-> IF t <= k THEN "none" ELSE os[t]]
        /\ observed' = 1..n
        /\ kept' = {t \in Threads : t > k /\ Reports(t) /\ fState[t] # eTerminated}
        /\ left' = left + Cardinality({t \in Threads : t <= k /\ Live(t)})
        /\ mgr' = IF n = N THEN "inited" ELSE "failed"
  BY DEF InitPool
<1>3. \A t \in Threads : t \in 1..N  BY DEF Threads
<1>4. Typed'
  <2>1. inits' \in 0..MaxInits  BY <1>0, <1>1 DEF Typed, InitsBounded
  <2>2. fThreadPool' \in 0..N /\ observed' \subseteq Threads  BY <1>0, <1>2 DEF Typed, Threads
  <2>3. fState' \in [Threads -> EThreadState] /\ os' \in [Threads -> OsPCs]
    BY <1>0, <1>2 DEF Typed, eCreated, EThreadState, OsPCs
  <2>4. mgr' \in {"inited", "failed"}  BY <1>2
  <2>5. fTerminated' \in BOOLEAN /\ reinit' \in BOOLEAN  BY <1>1
  <2>6. fStartedThreads' \in Int /\ fTerminatedThreads' \in Int /\ late' \in Nat  BY <1>1
  <2>7. kept' \subseteq Threads  BY <1>2
  <2>8. left' \in Nat
    <3>1. {t \in Threads : t <= k /\ Live(t)} \subseteq Threads  OBVIOUS
    <3>2. Cardinality({t \in Threads : t <= k /\ Live(t)}) \in 0..N  BY <3>1, ThreadsFinite
    <3> QED  BY <1>0, <1>2, <3>2 DEF Typed
  <2> QED  BY <1>0, <1>1, <2>1, <2>2, <2>3, <2>4, <2>5, <2>6, <2>7, <2>8 DEF Typed, MgrPCs
<1>5. InitsBounded' /\ RoundsCounted' /\ TerminatedSoFar' /\ AskedSoFar'
  <2>1. mgr' \in {"inited", "failed"}  BY <1>2
  <2> QED  BY <1>0, <1>1, <2>1 DEF InitsBounded, RoundsCounted, TerminatedSoFar, AskedSoFar
<1>6. n # 0 => k = N  BY <1>2
<1>7. \A t \in observed' : os'[t] = "none" /\ fState'[t] = eCreated
  BY <1>2, <1>6 DEF Threads
<1>8. LiveObserved'
  <2>1. \A t \in Threads : StatesMatch(t)'
    BY <1>0, <1>2 DEF StatesMatch, LiveObserved
  <2>2. ASSUME NEW t \in Threads, Live(t)'
        PROVE  t <= fThreadPool' /\ Reports(t)'
    <3>1. ~(t <= k) /\ Live(t)  BY <1>2, <2>2 DEF Live
    <3>2. t <= fThreadPool /\ Reports(t)  BY <1>0, <3>1 DEF LiveObserved
    <3>3. fState[t] # eTerminated
      BY <1>0, <3>1 DEF LiveObserved, StatesMatch, Live, eStarted, eRunning, eTerminationRequested,
                        eTerminatedRunMethod, eTerminated
    <3>4. t > k /\ t \in 1..N  BY <1>3, <3>1
    <3>5. t \in kept'  BY <1>2, <3>2, <3>3, <3>4
    <3>6. t <= fThreadPool'  BY <1>0, <1>2, <3>2, <3>4 DEF Typed
    <3> QED  BY <3>5, <3>6 DEF Reports
  <2>3. observed' \cap kept' = {}
    <3>1. ASSUME NEW t \in observed', t \in kept' PROVE FALSE
      <4>1. n # 0 /\ t <= n /\ t > k /\ t \in 1..N  BY <1>2, <1>3, <3>1
      <4> QED  BY <1>6, <4>1
    <3> QED  BY <3>1
  <2> QED  BY <2>1, <2>2, <2>3 DEF LiveObserved
<1>9. NotStartedYet' /\ JoinedPool'
  <2>1. mgr' = "inited" => observed' = Threads  BY <1>2 DEF Threads
  <2>2. mgr' # "starting"  BY <1>2
  <2>3. mgr' = "inited" => fThreadPool' = N  BY <1>0, <1>2 DEF Typed
  <2> QED  BY <1>7, <2>1, <2>2, <2>3 DEF NotStartedYet, JoinedPool
<1>10. CountersAgree'
  <2>1. {t \in observed' : os'[t] # "none"} = {}  BY <1>7
  <2>2. {t \in observed' : fState'[t] = eTerminated} = {}  BY <1>7 DEF eCreated, eTerminated
  <2> QED  BY <1>1, <2>1, <2>2, FS_EmptySet DEF CountersAgree
<1> QED  BY <1>4, <1>5, <1>8, <1>9, <1>10 DEF IInv

\* A thread without an entry ends: it is counted, and counted as late.
LEMMA LeftExitsIInv == IInv /\ LeftExits => IInv'
<1> SUFFICES ASSUME IInv, LeftExits PROVE IInv'  OBVIOUS
<1> USE DEF LeftExits, mgrVars
<1>0. Typed  BY DEF IInv
<1>1. Typed'  BY <1>0 DEF Typed
<1>2. InitsBounded' /\ RoundsCounted' /\ LiveObserved' /\ NotStartedYet' /\ TerminatedSoFar'
      /\ AskedSoFar' /\ JoinedPool'
  BY DEF IInv, InitsBounded, RoundsCounted, LiveObserved, NotStartedYet, TerminatedSoFar,
         AskedSoFar, Asked, JoinedPool, StatesMatch, Live, Reports
<1>3. CountersAgree'
  <2>1. Cardinality(EndedOf(observed, fState)) \in 0..N
    BY <1>0, ThreadsFinite, EndedOf(observed, fState) \subseteq Threads DEF EndedOf, Typed
  <2> QED  BY <1>0, <2>1, PoolAssumption DEF IInv, Typed, CountersAgree, EndedOf
<1> QED  BY <1>1, <1>2, <1>3 DEF IInv

\* Start goes through the threads, each of which is started or fails to.
LEMMA StartOneIInv == IInv /\ StartOne => IInv'
<1> SUFFICES ASSUME IInv, StartOne PROVE IInv'  OBVIOUS
<1> USE PoolAssumption
<1>0. Typed /\ InitsBounded /\ RoundsCounted /\ LiveObserved /\ NotStartedYet /\ TerminatedSoFar
      /\ JoinedPool /\ CountersAgree
  BY DEF IInv
<1>1. /\ mgr = "starting" /\ i <= fThreadPool /\ i' = i + 1
      /\ UNCHANGED <<fThreadPool, observed, earlier, fTerminated, mgr, result, reinit, inits, joiner>>
  BY DEF StartOne
<1>2. PICK s \in Threads : s = i
  BY <1>0, <1>1 DEF Typed, Threads
<1>3. fThreadPool = N /\ observed = Threads /\ kept = {} /\ os[s] = "none" /\ fState[s] = eCreated
  BY <1>0, <1>1, <1>2 DEF JoinedPool, NotStartedYet, Typed, Threads, LiveObserved
<1>4. /\ fState' \in [Threads -> EThreadState] /\ os' \in [Threads -> OsPCs]
      /\ fStartedThreads' \in Int /\ fTerminatedThreads' \in Int /\ fRunningThreads' \in Int
      /\ lStartSuccess' \in {lStartSuccess, lStartSuccess + 1}
      /\ \A t \in Threads \ {s} : os'[t] = os[t] /\ fState'[t] = fState[t]
      /\ StatesMatch(s)'
      /\ fStartedThreads' = Cardinality(StartedOf(Threads, os'))
      /\ late' \in Nat /\ fTerminatedThreads' = Cardinality(EndedOf(Threads, fState')) + late'
  <2> USE DEF eCreated, eStartRequested, eStartInProgress, eStarted, eRunning,
              eTerminationRequested, eTerminatedRunMethod, eTerminated
  <2>0. /\ fStartedThreads = Cardinality(StartedOf(Threads, os))
        /\ late \in Nat /\ fTerminatedThreads = Cardinality(EndedOf(Threads, fState)) + late
    BY <1>0, <1>3 DEF CountersAgree, StartedOf, EndedOf, Typed
  <2>1. CASE /\ fState' = [fState EXCEPT ![s] = eStarted] /\ Update(s, eStarted)
             /\ os' = [os EXCEPT ![s] = "check"]
             /\ lStartSuccess' = lStartSuccess + 1
    <3>1. /\ fState' \in [Threads -> EThreadState] /\ os' \in [Threads -> OsPCs]
          /\ os'[s] = "check" /\ fState'[s] = eStarted
          /\ \A t \in Threads \ {s} : os'[t] = os[t] /\ fState'[t] = fState[t]
      BY <1>0, <1>2, <2>1 DEF Typed, EThreadState, OsPCs
    <3>2. /\ fStartedThreads' = fStartedThreads + 1
          /\ fRunningThreads' = fRunningThreads + 0 - 0
          /\ fTerminatedThreads' = fTerminatedThreads + 0
          /\ late' = late + 0
      BY <1>3, <2>1 DEF Update, Reports
    <3>3. StartedOf(Threads, os') = StartedOf(Threads, os) \cup {s} /\ s \notin StartedOf(Threads, os)
      BY <1>3, <3>1 DEF StartedOf
    <3>4. StartedOf(Threads, os) \subseteq Threads  BY DEF StartedOf
    <3>5. Cardinality(StartedOf(Threads, os')) = Cardinality(StartedOf(Threads, os)) + 1
      BY <3>3, <3>4, OneMore
    <3>6. EndedOf(Threads, fState') = EndedOf(Threads, fState)
      BY <1>3, <3>1 DEF EndedOf
    <3>7. StatesMatch(s)'  BY <3>1 DEF StatesMatch
    <3>8. fStartedThreads' \in Int /\ fTerminatedThreads' \in Int /\ fRunningThreads' \in Int
      BY <1>0, <3>2 DEF Typed
    <3>9. fTerminatedThreads' = fTerminatedThreads /\ late' = late  BY <1>0, <3>2 DEF Typed
    <3> QED  BY <2>0, <2>1, <3>1, <3>2, <3>5, <3>6, <3>7, <3>8, <3>9
  <2>2. CASE /\ fState' = [fState EXCEPT ![s] = eStartRequested]
             /\ UNCHANGED <<os, counters, lStartSuccess>>
    <3>1. /\ fState' \in [Threads -> EThreadState] /\ fState'[s] = eStartRequested
          /\ \A t \in Threads \ {s} : fState'[t] = fState[t]
      BY <1>0, <2>2 DEF Typed, EThreadState
    <3>2. EndedOf(Threads, fState') = EndedOf(Threads, fState)  BY <1>3, <3>1 DEF EndedOf
    <3>3. StatesMatch(s)'  BY <1>3, <2>2, <3>1 DEF StatesMatch
    <3> QED  BY <1>0, <2>0, <2>2, <3>1, <3>2, <3>3 DEF Typed, counters
  <2>3. CASE /\ SetState(s, eTerminationRequested, FALSE)
             /\ UNCHANGED <<os, lStartSuccess>>
    <3>1. /\ fState' = [fState EXCEPT ![s] = AfterSetState(fState[s], eTerminationRequested, FALSE)]
          /\ fState' \in [Threads -> EThreadState]
          /\ fStartedThreads' = fStartedThreads
          /\ fStartedThreads' \in Int /\ fRunningThreads' \in Int /\ fTerminatedThreads' \in Int
          /\ late' \in Nat /\ fTerminatedThreads' = Cardinality(EndedOf(observed, fState')) + late'
      BY <1>0, <2>3, SetStateEffect DEF LiveObserved
    <3>2. AfterSetState(fState[s], eTerminationRequested, FALSE) = eTerminated
      BY <1>3 DEF AfterSetState, SetStateOk, SetStateTarget
    <3>3. fState'[s] = eTerminated /\ \A t \in Threads \ {s} : fState'[t] = fState[t]
      BY <1>0, <3>1, <3>2 DEF Typed
    <3>4. StatesMatch(s)'  BY <1>3, <2>3, <3>3 DEF StatesMatch
    <3> QED  BY <1>0, <1>3, <2>0, <2>3, <3>1, <3>3, <3>4 DEF Typed
  <2>4. CASE UNCHANGED <<fState, os, counters, lStartSuccess>>
    <3>1. StatesMatch(s)'  BY <1>3, <2>4 DEF StatesMatch
    <3> QED  BY <1>0, <2>0, <2>4, <3>1 DEF Typed, counters
  <2> QED  BY <1>2, <2>1, <2>2, <2>3, <2>4 DEF StartOne
<1>5. lStartSuccess' \in 0..N /\ lStartSuccess' < i'
  BY <1>0, <1>1, <1>3, <1>4 DEF RoundsCounted, Typed
<1>6. Typed'  BY <1>0, <1>1, <1>3, <1>4 DEF Typed, earlier
<1>7. InitsBounded' /\ RoundsCounted' /\ JoinedPool'
  BY <1>0, <1>1, <1>5 DEF InitsBounded, RoundsCounted, JoinedPool
<1>8. LiveObserved'
  <2>1. \A t \in Threads : StatesMatch(t)'
    BY <1>0, <1>4 DEF LiveObserved, StatesMatch
  <2> QED  BY <1>0, <1>1, <1>3, <2>1 DEF LiveObserved, Threads, Reports, earlier
<1>9. NotStartedYet'
  <2>1. \A t \in Threads : t >= i' => t # s /\ t >= i
    BY <1>0, <1>1, <1>2 DEF Typed, Threads
  <2> QED  BY <1>0, <1>1, <1>3, <1>4, <2>1 DEF NotStartedYet
<1>10. TerminatedSoFar' /\ AskedSoFar'  BY <1>1 DEF TerminatedSoFar, AskedSoFar
<1>11. CountersAgree'  BY <1>1, <1>3, <1>4 DEF CountersAgree, StartedOf, EndedOf
<1> QED  BY <1>6, <1>7, <1>8, <1>9, <1>10, <1>11 DEF IInv

\* DoTerminate asks a thread to terminate, whatever it is doing.
LEMMA TerminateOneIInv == IInv /\ TerminateOne => IInv'
<1> SUFFICES ASSUME IInv, TerminateOne PROVE IInv'  OBVIOUS
<1> USE PoolAssumption
<1>0. Typed /\ InitsBounded /\ RoundsCounted /\ LiveObserved /\ TerminatedSoFar
      /\ AskedSoFar /\ CountersAgree
  BY DEF IInv
<1>1. /\ mgr = "request" /\ i <= fThreadPool /\ mgr' = "check"
      /\ SetState(i, eTerminationRequested, FALSE)
      /\ UNCHANGED <<fThreadPool, observed, earlier, os, fTerminated, i, lStartSuccess, result, reinit,
                     inits, joiner>>
  BY DEF TerminateOne
<1>2. PICK s \in Threads : s = i
  BY <1>0, <1>1 DEF Typed, Threads
<1>3. /\ fState' = [fState EXCEPT ![s] = AfterSetState(fState[s], eTerminationRequested, FALSE)]
      /\ fState' \in [Threads -> EThreadState]
      /\ fStartedThreads' = fStartedThreads
      /\ fStartedThreads' \in Int /\ fRunningThreads' \in Int /\ fTerminatedThreads' \in Int
      /\ late' \in Nat /\ fTerminatedThreads' = Cardinality(EndedOf(observed, fState')) + late'
      /\ \A u \in Threads : fState[u] = eTerminated => fState'[u] = eTerminated
  BY <1>0, <1>1, <1>2, SetStateEffect DEF LiveObserved
<1>4. \A t \in Threads : StatesMatch(t)'
  <2>1. \A t \in Threads \ {s} : fState'[t] = fState[t]  BY <1>0, <1>3 DEF Typed
  <2>2. \A t \in Threads \ {s} : StatesMatch(t)'
    BY <1>0, <1>1, <2>1 DEF LiveObserved, StatesMatch
  <2>3. StatesMatch(s)'
    <3> USE DEF eCreated, eStartRequested, eStartInProgress, eStarted, eRunning,
                eTerminationRequested, eTerminatedRunMethod, eTerminated
    <3>1. StatesMatch(s) /\ fState'[s] = AfterSetState(fState[s], eTerminationRequested, FALSE)
      BY <1>0, <1>3 DEF LiveObserved, Typed
    <3> QED  BY <1>1, <3>1 DEF StatesMatch, AfterSetState, SetStateOk, SetStateTarget
  <2> QED  BY <2>2, <2>3
<1>5. Typed'  BY <1>0, <1>1, <1>3 DEF Typed, MgrPCs, earlier
<1>6. InitsBounded' /\ RoundsCounted'  BY <1>0, <1>1 DEF InitsBounded, RoundsCounted
<1>7. NotStartedYet' /\ JoinedPool'  BY <1>1 DEF NotStartedYet, JoinedPool
<1>8. LiveObserved'  BY <1>0, <1>1, <1>4 DEF LiveObserved, Live, Reports, earlier
<1>9. TerminatedSoFar'  BY <1>0, <1>1, <1>3 DEF TerminatedSoFar
<1>a. AskedSoFar'
  <2> USE DEF eCreated, eStartRequested, eStartInProgress, eStarted, eRunning,
              eTerminationRequested, eTerminatedRunMethod, eTerminated
  <2>1. \A t \in Threads \ {s} : fState'[t] = fState[t]  BY <1>0, <1>3 DEF Typed
  <2>2. Asked(s)'
    <3>1. StatesMatch(s) /\ fState'[s] = AfterSetState(fState[s], eTerminationRequested, FALSE)
      BY <1>0, <1>3 DEF LiveObserved, Typed
    <3> QED  BY <1>1, <3>1 DEF StatesMatch, Live, Asked, AfterSetState, SetStateOk, SetStateTarget
  <2>3. \A t \in Threads : t <= i => t = s \/ t < i  BY <1>0, <1>2 DEF Typed, Threads
  <2> QED  BY <1>0, <1>1, <2>1, <2>2, <2>3 DEF AskedSoFar, Asked, Live
<1>10. CountersAgree'  BY <1>0, <1>1, <1>3 DEF CountersAgree, EndedOf
<1> QED  BY <1>5, <1>6, <1>7, <1>8, <1>9, <1>a, <1>10 DEF IInv

\* The other steps of DoTerminate and Terminate.
LEMMA TerminatingIInv ==
  IInv /\ ((\E b \in BOOLEAN : CheckTerminated(b)) \/ DoTerminated) => IInv'
<1> SUFFICES ASSUME IInv, (\E b \in BOOLEAN : CheckTerminated(b)) \/ DoTerminated PROVE IInv'
  OBVIOUS
<1> USE PoolAssumption
<1>0. Typed /\ InitsBounded /\ RoundsCounted /\ TerminatedSoFar /\ AskedSoFar  BY DEF IInv
<1>1. ASSUME NEW b \in BOOLEAN, CheckTerminated(b) PROVE IInv'
  <2>1. /\ UNCHANGED <<fThreadPool, observed, earlier, fState, os, fTerminated, lStartSuccess, reinit,
                       inits, joiner>>
        /\ UNCHANGED counters
        /\ mgr = "check" /\ mgr' = "request" /\ i' = i + 1
        /\ b <=> fState[i] # eTerminated
        /\ result' = result + (IF b THEN 1 ELSE 0)
    BY <1>1 DEF CheckTerminated
  <2>2. /\ result' \in {result, result + 1}
        /\ result' = result => fState[i] = eTerminated
        /\ result' = 0 => result = 0
    BY <1>0, <2>1 DEF RoundsCounted
  <2>3. i \in 1..N /\ i \in Threads  BY <1>0, <2>1 DEF RoundsCounted, Typed, Threads
  <2>4. Typed'  BY <1>0, <2>1, <2>3 DEF Typed, MgrPCs, counters, earlier
  <2>5. RoundsCounted'  BY <1>0, <2>1, <2>2, <2>3 DEF RoundsCounted
  <2>6. InitsBounded' /\ NotStartedYet' /\ JoinedPool'
    BY <1>0, <2>1 DEF InitsBounded, NotStartedYet, JoinedPool
  <2>7. TerminatedSoFar'
    <3>1. \A t \in Threads : t < i' => t = i \/ t < i  BY <2>1, <2>3 DEF Threads
    <3>2. result' = 0 => \A t \in Threads : t < i' => fState[t] = eTerminated
      BY <1>0, <2>1, <2>2, <3>1 DEF TerminatedSoFar
    <3> QED  BY <2>1, <3>2 DEF TerminatedSoFar
  <2>8. AskedSoFar'
    <3>1. \A t \in Threads : t < i' => t <= i  BY <2>1, <2>3 DEF Threads
    <3> QED  BY <1>0, <2>1, <3>1 DEF AskedSoFar, Asked, Live
  <2> QED  BY <2>1, <2>4, <2>5, <2>6, <2>7, <2>8, ThreadsUntouched
<1>2. CASE DoTerminated
  <2>1. /\ UNCHANGED <<fThreadPool, observed, earlier, fState, os, lStartSuccess, result, reinit, inits, joiner>>
        /\ UNCHANGED counters
        /\ mgr = "request" /\ i > fThreadPool /\ fTerminated' = TRUE /\ i' = 1
        /\ mgr' = (IF result = 0 THEN "join" ELSE AfterTerminate)
    BY <1>2 DEF DoTerminated
  <2>2. /\ mgr' \in {"join", "failed", "terminated"}
        /\ mgr' = "join" <=> result = 0
    BY <2>1 DEF AfterTerminate
  <2>3. fTerminated' \in BOOLEAN /\ i' \in 1..(N + 1)  BY <2>1
  <2>4. Typed'  BY <1>0, <2>1, <2>2, <2>3 DEF Typed, MgrPCs, counters, earlier
  <2>5. InitsBounded' /\ RoundsCounted' /\ NotStartedYet' /\ JoinedPool'
    BY <1>0, <2>1, <2>2 DEF InitsBounded, RoundsCounted, NotStartedYet, JoinedPool
  <2>6. TerminatedSoFar'
    <3>1. \A t \in Threads : t <= fThreadPool => t < i  BY <1>0, <2>1 DEF Typed, Threads
    <3> QED  BY <1>0, <2>1, <2>2, <3>1 DEF TerminatedSoFar
  <2>7. AskedSoFar'
    <3>1. \A t \in Threads : t <= fThreadPool => t < i  BY <1>0, <2>1 DEF Typed, Threads
    <3>2. \A t \in Threads : Asked(t)
      BY <1>0, <2>1, <3>1 DEF AskedSoFar, Asked, IInv, LiveObserved
    <3> QED  BY <2>1, <2>2, <3>2 DEF AskedSoFar, Asked, Live
  <2> QED  BY <2>1, <2>4, <2>5, <2>6, <2>7, ThreadsUntouched
<1> QED  BY <1>1, <1>2

\* A pool that is joined has no live threads.
LEMMA JoinedIsDead ==
  ASSUME IInv, mgr = "join"
  PROVE  \A t \in Threads : ~Live(t) /\ (t <= fThreadPool => fState[t] = eTerminated)
<1> USE DEF eCreated, eStartRequested, eStartInProgress, eStarted, eRunning,
            eTerminationRequested, eTerminatedRunMethod, eTerminated
<1>1. \A t \in Threads : t <= fThreadPool => fState[t] = eTerminated
  BY DEF IInv, TerminatedSoFar
<1>2. \A t \in Threads : StatesMatch(t) /\ (Live(t) => t <= fThreadPool)
  BY DEF IInv, LiveObserved
<1>3. \A t \in Threads : ~Live(t)  BY <1>1, <1>2 DEF StatesMatch, Live
<1> QED  BY <1>1, <1>3

\* The end of Terminate, where the pool is deleted.
LEMMA JoinAndDeleteIInv == IInv /\ JoinAndDelete => IInv'
<1> SUFFICES ASSUME IInv, JoinAndDelete PROVE IInv'  OBVIOUS
<1> USE PoolAssumption
<1>0. Typed /\ InitsBounded /\ RoundsCounted /\ LiveObserved /\ TerminatedSoFar /\ CountersAgree
  BY DEF IInv
<1>1. /\ UNCHANGED <<observed, earlier, fState, os, fTerminated, i, lStartSuccess, result, reinit, inits, joiner>>
      /\ UNCHANGED counters
      /\ mgr = "join" /\ fThreadPool' \in {0, fThreadPool} /\ mgr' = AfterTerminate
  BY DEF JoinAndDelete
<1>2. result = 0  BY <1>0, <1>1 DEF TerminatedSoFar
<1>3. mgr' \in {"init", "terminated"} /\ (mgr' = "init" => reinit)
  BY <1>1, <1>2 DEF AfterTerminate
<1>4. \A t \in Threads : ~Live(t)  BY <1>1, JoinedIsDead
<1>5. Typed'  BY <1>0, <1>1, <1>3 DEF Typed, MgrPCs, counters, earlier
<1>6. InitsBounded' /\ RoundsCounted' /\ NotStartedYet' /\ JoinedPool'
  BY <1>0, <1>1, <1>3 DEF InitsBounded, RoundsCounted, NotStartedYet, JoinedPool
<1>7. \A t \in Threads : ~Live(t)' /\ StatesMatch(t)'
  BY <1>0, <1>1, <1>4 DEF LiveObserved, Live, StatesMatch
<1>8. LiveObserved' /\ TerminatedSoFar' /\ AskedSoFar'
  BY <1>0, <1>1, <1>3, <1>7 DEF LiveObserved, TerminatedSoFar, AskedSoFar, Asked, earlier
<1>9. CountersAgree'  BY <1>0, <1>1 DEF CountersAgree, counters
<1> QED  BY <1>5, <1>6, <1>8, <1>9 DEF IInv

\* The joiner only looks at the counters.
LEMMA JoinIInv == IInv /\ (Join \/ JoinReturns) => IInv'
<1> SUFFICES ASSUME IInv, Join \/ JoinReturns PROVE IInv'  OBVIOUS
<1>0. Typed /\ InitsBounded /\ RoundsCounted /\ NotStartedYet /\ TerminatedSoFar /\ AskedSoFar
      /\ JoinedPool
  BY DEF IInv
<1>1. /\ joiner' \in {"in", "joined"}
      /\ UNCHANGED <<fThreadPool, observed, earlier, fState, os, fTerminated, mgr, i, lStartSuccess, result,
                     reinit, inits>>
      /\ UNCHANGED counters
  BY DEF Join, JoinReturns, mgrVars
<1>2. Typed'  BY <1>0, <1>1 DEF Typed, counters, earlier
<1>3. InitsBounded' /\ RoundsCounted' /\ NotStartedYet' /\ JoinedPool'
  BY <1>0, <1>1 DEF InitsBounded, RoundsCounted, NotStartedYet, JoinedPool
<1>4. TerminatedSoFar' /\ AskedSoFar'  BY <1>0, <1>1 DEF TerminatedSoFar, AskedSoFar, Asked, Live
<1> QED  BY <1>1, <1>2, <1>3, <1>4, ThreadsUntouched

\* The inductive invariant holds in every reachable state.
THEOREM Invariance == Spec => []IInv
<1>1. IInv /\ [Next]_vars => IInv'
  <2> SUFFICES ASSUME IInv, [Next]_vars PROVE IInv'  OBVIOUS
  <2>1. CASE Next
    BY <2>1, CallsIInv, InitPoolIInv, StartOneIInv, TerminateOneIInv, TerminatingIInv,
       JoinAndDeleteIInv, JoinIInv, LeftExitsIInv, OsStepIInv DEF Next, InMgr
  <2>2. CASE UNCHANGED vars
    BY <2>2 DEF vars, counters, mgrVars, IInv, Typed, InitsBounded, RoundsCounted, LiveObserved,
                NotStartedYet, TerminatedSoFar, AskedSoFar, Asked, JoinedPool, CountersAgree,
                StatesMatch, Live, Reports, earlier
  <2> QED  BY <2>1, <2>2
<1> QED  BY <1>1, InitIInv, PTL DEF Spec

----------------------------------------------------------------------------
(* The theorems.                                                           *)

\* Type correctness; in particular the counters of started and of terminated
\* threads never go negative, and no more than N threads are started.
THEOREM TypeCorrect == Spec => []TypeOK
<1>1. IInv => TypeOK
  <2> SUFFICES ASSUME IInv PROVE TypeOK  OBVIOUS
  <2>1. /\ {t \in observed : os[t] # "none"} \subseteq Threads
        /\ {t \in observed : fState[t] = eTerminated} \subseteq Threads
    BY DEF IInv, Typed
  <2>2. /\ fStartedThreads \in 0..N
        /\ Cardinality({t \in observed : fState[t] = eTerminated}) \in 0..N
    BY <2>1, ThreadsFinite DEF IInv, CountersAgree
  <2>3. fTerminatedThreads \in Nat
    BY <2>2, PoolAssumption DEF IInv, Typed, CountersAgree
  <2> QED  BY <2>2, <2>3 DEF IInv, Typed, RoundsCounted, TypeOK
<1> QED  BY <1>1, Invariance, PTL

\* The manager's counters agree with its threads up to the late reports of
\* earlier ones, for any number of threads, after any Init.
THEOREM CountersAreExact == Spec => []CountersAgree
<1>1. IInv => CountersAgree  BY DEF IInv
<1> QED  BY <1>1, Invariance, PTL

\* A pool is deleted only when all its threads have terminated.
THEOREM DeletedWhenTerminated == Spec => DeletedOnlyTerminated
<1> DEFINE A == fThreadPool' < fThreadPool
                  => \A t \in 1..fThreadPool : fState[t] = eTerminated /\ ~Live(t)
<1>1. IInv /\ [Next]_vars => [A]_vars
  <2> SUFFICES ASSUME IInv, Next, fThreadPool' < fThreadPool
               PROVE  \A t \in 1..fThreadPool : fState[t] = eTerminated /\ ~Live(t)
    OBVIOUS
  <2>1. fThreadPool \in 0..N /\ N \in Nat  BY PoolAssumption DEF IInv, Typed
  <2>2. InitPool => ~(fThreadPool' < fThreadPool)  BY <2>1 DEF InitPool
  <2>3. JoinAndDelete \/ fThreadPool' = fThreadPool \/ InitPool
    BY DEF Next, InMgr, ReInit, InitCall, Start, Terminate, StartOne, StartReturns, TerminateOne,
           DoTerminated, CheckTerminated, Join, JoinReturns, OsStep, LeaveRun, CheckStarted,
           EnterRun, EndIntRun, Exit, LeftExits
  <2>4. mgr = "join"  BY <2>1, <2>2, <2>3, ~(fThreadPool < fThreadPool) DEF JoinAndDelete
  <2>5. \A t \in 1..fThreadPool : t \in Threads /\ t <= fThreadPool  BY <2>1 DEF Threads
  <2> QED  BY <2>4, <2>5, JoinedIsDead
<1> QED  BY <1>1, Invariance, PTL DEF Spec, DeletedOnlyTerminated

\* When Join(0) returns, no more threads are still at work than were reported
\* terminated without having run or by threads of earlier Inits.
THEOREM JoinedWhenDone == Spec => JoinMeansDone
<1> DEFINE L == {t \in observed : Live(t)}
           U == {t \in observed : fState[t] = eTerminated /\ os[t] = "none"}
           A == joiner = "in" /\ joiner' = "joined" => Cardinality(L) <= Cardinality(U) + late
<1>1. IInv /\ [Next]_vars => [A]_vars
  <2> SUFFICES ASSUME IInv, Next, joiner = "in", joiner' = "joined"
               PROVE  Cardinality(L) <= Cardinality(U) + late
    OBVIOUS
  <2>1. JoinReturns
    BY DEF Next, InMgr, ReInit, InitCall, InitPool, Start, Terminate, StartOne, StartReturns,
           TerminateOne, DoTerminated, CheckTerminated, JoinAndDelete, Join, OsStep, LeaveRun,
           CheckStarted, EnterRun, EndIntRun, Exit, LeftExits, mgrVars
  <2> DEFINE S == StartedOf(observed, os)
             E == EndedOf(observed, fState)
             G == {t \in observed : os[t] = "gone"}
  <2>2. /\ L \subseteq Threads /\ U \subseteq Threads /\ G \subseteq Threads
        /\ S \subseteq Threads /\ E \subseteq Threads
    BY DEF IInv, Typed, StartedOf, EndedOf
  <2>3. /\ IsFiniteSet(L) /\ IsFiniteSet(U) /\ IsFiniteSet(G)
        /\ Cardinality(L) \in Nat /\ Cardinality(U) \in Nat /\ Cardinality(G) \in Nat
    BY <2>2, ThreadsFinite, PoolAssumption
  <2>4. S = L \cup G /\ L \cap G = {}  BY DEF StartedOf, Live
  <2>5. E = U \cup G /\ U \cap G = {}
    <3>1. \A t \in observed : StatesMatch(t)  BY DEF IInv, Typed, LiveObserved
    <3> QED  BY <3>1 DEF EndedOf, StatesMatch, eCreated, eStartRequested, eStarted, eRunning,
                         eTerminationRequested, eTerminatedRunMethod, eTerminated
  <2>6. Cardinality(S) = Cardinality(L) + Cardinality(G)
    BY <2>3, <2>4, FS_Union, FS_EmptySet
  <2>7. Cardinality(E) = Cardinality(U) + Cardinality(G)
    BY <2>3, <2>5, FS_Union, FS_EmptySet
  <2>8. ~(Cardinality(E) + late < Cardinality(S))
    BY <2>1 DEF JoinReturns, StillRunning, IInv, CountersAgree, StartedOf, EndedOf
  <2>9. late \in Nat  BY DEF IInv, Typed
  <2> HIDE DEF L, U, G, S, E
  <2> QED  BY <2>3, <2>6, <2>7, <2>8, <2>9
<1> QED  BY <1>1, Invariance, PTL DEF Spec, JoinMeansDone
=============================================================================
