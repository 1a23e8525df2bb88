----------------------------- MODULE ThreadPool -----------------------------
(***************************************************************************)
(* ThreadPoolManager (mtfoundation/ThreadPools.cpp): a manager that inits, *)
(* starts and terminates N threads and counts them by observing their      *)
(* state changes, and a second thread that waits in Join(0), as the main   *)
(* thread of a server does.                                                *)
(*                                                                         *)
(* SetState broadcasts to Update with fStateMutex held, so a state change  *)
(* and its counters are one step.  ThreadObject shows that with a single   *)
(* owner the new system thread waits until Thread::Start is through, so    *)
(* starting one thread is one step here.                                   *)
(*                                                                         *)
(* Terminate marks the pool terminated even when threads did not end in    *)
(* time, and the next Init asks no more: it puts new threads into the      *)
(* entries of the pool and resets two of the counters while the earlier    *)
(* threads, which have been asked to terminate, still report their end.    *)
(***************************************************************************)
EXTENDS ThreadStates, FiniteSets

CONSTANTS N,          \* number of threads of the pool
          MaxInits,   \* bound: number of calls of Init
          Faults      \* what may go wrong while starting and initialising

Threads == 1..N

ASSUME PoolAssumption ==
  /\ N \in Nat \ {0} /\ MaxInits \in Nat
  /\ Faults \subseteq {"alloc", "init", "storage", "veto", "fork"}

VARIABLES fThreadPool,          \* number of threads in the pool
          observed,             \* the threads that AddObserver connected
          kept,                 \* entries with a thread of an earlier Init
          left,                 \* threads of earlier Inits without an entry
          fState, os,           \* of each thread: state and place in IntRun
          fStartedThreads, fRunningThreads, fTerminatedThreads,
          late,                 \* reports of the end of earlier threads
          fTerminated,
          mgr, i,               \* the managing thread: step, thread index
          lStartSuccess, result,
          reinit,               \* its Terminate was called by Init
          inits,                \* number of Inits so far
          joiner                \* the thread that calls Join(0)

earlier == <<kept, left>>
counters == <<fStartedThreads, fRunningThreads, fTerminatedThreads, late>>
mgrVars == <<mgr, i, lStartSuccess, result, reinit, inits>>
vars == <<fThreadPool, observed, earlier, fState, os, counters, fTerminated, mgrVars, joiner>>

OsPCs == {"none", "check", "torun", "run", "endrun", "exit", "gone"}
MgrPCs == {"new", "init", "failed", "inited", "starting", "started",
           "request", "check", "join", "terminated"}

\* Type invariant of the pool: fStartedThreads and fTerminatedThreads never
\* go negative, fRunningThreads can.
TypeOK ==
  /\ fThreadPool \in 0..N /\ observed \subseteq Threads
  /\ kept \subseteq Threads /\ left \in Nat /\ late \in Nat
  /\ fState \in [Threads -> EThreadState] /\ os \in [Threads -> OsPCs]
  /\ fStartedThreads \in 0..N /\ fTerminatedThreads \in Nat /\ fRunningThreads \in Int
  /\ fTerminated \in BOOLEAN /\ reinit \in BOOLEAN
  /\ mgr \in MgrPCs /\ i \in 1..(N + 1)
  /\ lStartSuccess \in 0..N /\ result \in 0..N
  /\ inits \in 0..MaxInits
  /\ joiner \in {"out", "in", "joined"}

Init ==
  /\ fThreadPool = 0 /\ observed = {} /\ kept = {} /\ left = 0 /\ late = 0
  /\ fState = [t \in Threads |-> eCreated] /\ os = [t \in Threads |-> "none"]
  /\ fStartedThreads = 0 /\ fRunningThreads = 0 /\ fTerminatedThreads = 0
  /\ fTerminated = TRUE /\ reinit = FALSE
  /\ mgr = "new" /\ i = 1 /\ lStartSuccess = 0 /\ result = 0
  /\ inits = 0 /\ joiner = "out"

Reports(t) == t \in observed \cup kept

\* Mutant: a thread that is asked to terminate is counted at once.
UpdateEarly(t, state) ==
  LET one(S) == IF Reports(t) /\ state \in S THEN 1 ELSE 0
  IN  /\ fStartedThreads' = fStartedThreads + one({eStarted})
      /\ fRunningThreads' = fRunningThreads + one({eRunning}) - one({eTerminationRequested})
      /\ fTerminatedThreads' = fTerminatedThreads + one({eTerminationRequested})
      /\ late' = late + (IF t \in kept THEN one({eTerminationRequested}) ELSE 0)

\* ThreadPoolManager::Update for the new state of thread t.
Update(t, state) ==
  LET one(S) == IF Reports(t) /\ state \in S THEN 1 ELSE 0
  IN  /\ fStartedThreads' = fStartedThreads + one({eStarted})
      /\ fRunningThreads' = fRunningThreads + one({eRunning}) - one({eTerminated})
      /\ fTerminatedThreads' = fTerminatedThreads + one({eTerminated})
      /\ late' = late + (IF t \in kept THEN one({eTerminated}) ELSE 0)

\* Thread::SetState of thread t with its broadcast.
SetState(t, state, own) ==
  /\ fState' = [fState EXCEPT ![t] = AfterSetState(fState[t], state, own)]
  /\ IF SetStateOk(fState[t], state, own)
       THEN Update(t, SetStateTarget(fState[t], state))
       ELSE UNCHANGED counters

----------------------------------------------------------------------------
(* ThreadPoolManager::Init.                                                *)

\* Init of a pool that is in use terminates it first.
ReInit ==
  /\ mgr \in {"failed", "inited", "started"} /\ ~fTerminated /\ inits < MaxInits
  /\ reinit' = TRUE
  /\ mgr' = "request" /\ i' = 1 /\ result' = 0
  /\ UNCHANGED <<fThreadPool, observed, earlier, fState, os, counters, fTerminated,
                 lStartSuccess, inits, joiner>>

\* Init of a new pool, or of one whose Terminate has returned, whether or not
\* all threads had terminated.
InitCall ==
  /\ mgr \in {"new", "failed", "terminated"} /\ fTerminated /\ inits < MaxInits
  /\ mgr' = "init"
  /\ UNCHANGED <<fThreadPool, observed, earlier, fState, os, counters, fTerminated,
                 i, lStartSuccess, result, reinit, inits, joiner>>

\* The thread has a system thread that is not through with its work.
Live(t) == os[t] \notin {"none", "gone"}

\* The rest of Init: AllocPool puts new threads into the first k entries of
\* fThreadPool, InitPool initialises and observes them one after the other
\* and fails at the first that refuses.  A live thread whose entry is taken
\* over runs on without one; the entries that a failing AllocPool leaves
\* keep their threads, whose reports count as long as they are to come.
InitPool ==
  /\ mgr = "init"
  /\ fTerminated' = FALSE /\ reinit' = FALSE
  /\ fStartedThreads' = 0 /\ fTerminatedThreads' = 0 /\ late' = 0
  /\ inits' = inits + 1
  /\ \E k, n \in 0..N :
       /\ k < N => "alloc" \in Faults /\ n = 0
       /\ k = N /\ n < N => "init" \in Faults
       /\ fThreadPool' = IF k > fThreadPool THEN k ELSE fThreadPool
       /\ fState' = [t \in Threads |-> IF t <= k THEN eCreated ELSE fState[t]]
       /\ os' = [t \in Threads |-> IF t <= k THEN "none" ELSE os[t]]
       /\ observed' = 1..n
       /\ kept' = {t \in Threads : t > k /\ Reports(t) /\ fState[t] # eTerminated}
       /\ left' = left + Cardinality({t \in Threads : t <= k /\ Live(t)})
       /\ mgr' = IF n = N THEN "inited" ELSE "failed"
  /\ UNCHANGED <<fRunningThreads, i, lStartSuccess, result, joiner>>

\* A thread that has lost its entry ends; it has been asked to terminate
\* before, so that this is all it has left to report.
LeftExits ==
  /\ left > 0
  /\ left' = left - 1
  /\ fRunningThreads' = fRunningThreads - 1
  /\ fTerminatedThreads' = fTerminatedThreads + 1 /\ late' = late + 1
  /\ UNCHANGED <<fThreadPool, observed, kept, fState, os, fStartedThreads, fTerminated,
                 mgrVars, joiner>>

----------------------------------------------------------------------------
(* ThreadPoolManager::Start.                                               *)

Start ==
  /\ mgr = "inited"
  /\ mgr' = "starting" /\ i' = 1 /\ lStartSuccess' = 0
  /\ joiner' = IF joiner = "joined" THEN "out" ELSE joiner
  /\ UNCHANGED <<fThreadPool, observed, earlier, fState, os, counters, fTerminated, result, reinit, inits>>

\* One round of its loop: Thread::Start, or what may go wrong in it.
StartOne ==
  /\ mgr = "starting" /\ i <= fThreadPool
  /\ \/ /\ fState' = [fState EXCEPT ![i] = eStarted] /\ Update(i, eStarted)
        /\ os' = [os EXCEPT ![i] = "check"]
        /\ lStartSuccess' = lStartSuccess + 1
     \/ /\ "fork" \in Faults
        /\ fState' = [fState EXCEPT ![i] = eStartRequested]
        /\ UNCHANGED <<os, counters, lStartSuccess>>
     \/ /\ "veto" \in Faults
        /\ SetState(i, eTerminationRequested, FALSE)
        /\ UNCHANGED <<os, lStartSuccess>>
     \/ /\ "storage" \in Faults
        /\ UNCHANGED <<fState, os, counters, lStartSuccess>>
  /\ i' = i + 1
  /\ UNCHANGED <<fThreadPool, observed, earlier, fTerminated, mgr, result, reinit, inits, joiner>>

\* Start returns after two waits that end with their conditions, which other
\* threads fulfil, or after 30 seconds.
StartReturns ==
  /\ mgr = "starting" /\ i > fThreadPool
  /\ mgr' = "started"
  /\ UNCHANGED <<fThreadPool, observed, earlier, fState, os, counters, fTerminated,
                 i, lStartSuccess, result, reinit, inits, joiner>>

----------------------------------------------------------------------------
(* ThreadPoolManager::Terminate.                                           *)

\* Also called by the destructor, whatever was done before.
Terminate ==
  /\ mgr \in {"new", "failed", "inited", "started", "terminated"}
  /\ reinit' = FALSE
  /\ mgr' = "request" /\ i' = 1 /\ result' = 0
  /\ UNCHANGED <<fThreadPool, observed, earlier, fState, os, counters, fTerminated,
                 lStartSuccess, inits, joiner>>

\* DoTerminate: Thread::Terminate asks the thread ...
TerminateOne ==
  /\ mgr = "request" /\ i <= fThreadPool
  /\ SetState(i, eTerminationRequested, FALSE)
  /\ mgr' = "check"
  /\ UNCHANGED <<fThreadPool, observed, earlier, os, fTerminated, i, lStartSuccess, result, reinit,
                 inits, joiner>>

\* ... and waits for eTerminated; the wait may time out.
CheckTerminated(gaveUp) ==
  /\ mgr = "check"
  /\ gaveUp <=> fState[i] # eTerminated
  /\ result' = result + (IF gaveUp THEN 1 ELSE 0)
  /\ mgr' = "request" /\ i' = i + 1
  /\ UNCHANGED <<fThreadPool, observed, earlier, fState, os, counters, fTerminated, lStartSuccess,
                 reinit, inits, joiner>>

\* What Terminate does next: Join, or return to the caller or to Init.
AfterTerminate == IF reinit THEN (IF result = 0 THEN "init" ELSE "failed") ELSE "terminated"

\* Mutant: the pool goes on to Join and DoDeletePool although threads did not
\* terminate.
DoTerminatedAnyway ==
  /\ mgr = "request" /\ i > fThreadPool
  /\ fTerminated' = TRUE
  /\ mgr' = "join" /\ i' = 1
  /\ UNCHANGED <<fThreadPool, observed, earlier, fState, os, counters, lStartSuccess, result, reinit,
                 inits, joiner>>

\* DoTerminate returns.
DoTerminated ==
  /\ mgr = "request" /\ i > fThreadPool
  /\ fTerminated' = TRUE
  /\ mgr' = IF result = 0 THEN "join" ELSE AfterTerminate
  /\ i' = 1
  /\ UNCHANGED <<fThreadPool, observed, earlier, fState, os, counters, lStartSuccess, result, reinit,
                 inits, joiner>>

\* Mutant: Join looks at the running threads only.
StillRunningOnly == fRunningThreads > 0

\* Mutant: Join waits until all threads of the pool have been started.
StillRunningUnstarted == fRunningThreads > 0 \/ fTerminatedThreads < N

\* The condition of the loop of Join.
StillRunning == fRunningThreads > 0 \/ fTerminatedThreads < fStartedThreads

\* Join inside Terminate ends, by its condition or its timeout; the pool is
\* deleted (DoDeletePool) when it returns 0.
JoinAndDelete ==
  /\ mgr = "join"
  /\ fThreadPool' = IF fRunningThreads = 0 THEN 0 ELSE fThreadPool
  /\ mgr' = AfterTerminate
  /\ UNCHANGED <<observed, earlier, fState, os, counters, fTerminated, i, lStartSuccess, result, reinit,
                 inits, joiner>>

----------------------------------------------------------------------------
(* The thread in Join(0).                                                  *)

Join ==
  /\ joiner = "out" /\ mgr = "started"
  /\ joiner' = "in"
  /\ UNCHANGED <<fThreadPool, observed, earlier, fState, os, counters, fTerminated, mgrVars>>

JoinReturns ==
  /\ joiner = "in" /\ ~StillRunning
  /\ joiner' = "joined"
  /\ UNCHANGED <<fThreadPool, observed, earlier, fState, os, counters, fTerminated, mgrVars>>

----------------------------------------------------------------------------
(* The threads of the pool: IntRun and Exit, as in ThreadObject.           *)

OsGoto(t, pc) == os' = [os EXCEPT ![t] = pc]

CheckStarted(t) ==
  /\ os[t] = "check" /\ fState[t] >= eStarted
  /\ OsGoto(t, IF fState[t] = eStarted THEN "torun" ELSE "endrun")
  /\ UNCHANGED <<fThreadPool, observed, earlier, fState, counters, fTerminated, mgrVars, joiner>>

EnterRun(t) ==
  /\ os[t] = "torun"
  /\ SetState(t, eRunning, TRUE)
  /\ OsGoto(t, IF SetStateOk(fState[t], eRunning, TRUE) THEN "run" ELSE "endrun")
  /\ UNCHANGED <<fThreadPool, observed, earlier, fTerminated, mgrVars, joiner>>

LeaveRun(t) ==
  /\ os[t] = "run"
  /\ OsGoto(t, "endrun")
  /\ UNCHANGED <<fThreadPool, observed, earlier, fState, counters, fTerminated, mgrVars, joiner>>

EndIntRun(t) ==
  /\ os[t] = "endrun"
  /\ SetState(t, eTerminatedRunMethod, TRUE)
  /\ OsGoto(t, "exit")
  /\ UNCHANGED <<fThreadPool, observed, earlier, fTerminated, mgrVars, joiner>>

Exit(t) ==
  /\ os[t] = "exit"
  /\ SetState(t, eTerminated, FALSE)
  /\ OsGoto(t, "gone")
  /\ UNCHANGED <<fThreadPool, observed, earlier, fTerminated, mgrVars, joiner>>

----------------------------------------------------------------------------
InMgr ==
  \/ InitPool \/ StartOne \/ StartReturns
  \/ TerminateOne \/ DoTerminated \/ JoinAndDelete

OsStep(t) == CheckStarted(t) \/ EnterRun(t) \/ EndIntRun(t) \/ Exit(t)

Next ==
  \/ ReInit \/ InitCall \/ Start \/ Terminate \/ InMgr
  \/ \E b \in BOOLEAN : CheckTerminated(b)
  \/ Join \/ JoinReturns \/ LeftExits
  \/ \E t \in Threads : OsStep(t) \/ LeaveRun(t)

Spec == Init /\ [][Next]_vars

\* Every thread is scheduled, the waits are timed, and Run returns once its
\* thread is asked to terminate; nobody has to call anything.
Fairness ==
  /\ WF_vars(InMgr \/ \E b \in BOOLEAN : CheckTerminated(b)) /\ WF_vars(JoinReturns)
  /\ WF_vars(LeftExits)
  /\ \A t \in Threads : /\ WF_vars(OsStep(t))
                        /\ WF_vars(fState[t] = eTerminationRequested /\ LeaveRun(t))

FairSpec == Spec /\ Fairness

----------------------------------------------------------------------------
(* Properties.                                                             *)

\* The counters of started and of terminated threads agree with the states of
\* the threads of this Init, through any interleaving of Start, Terminate and
\* threads that end by themselves, and over Inits: the only surplus is one
\* for each earlier thread that ended after the Init.
CountersAgree ==
  /\ fStartedThreads = Cardinality({t \in observed : os[t] # "none"})
  /\ fTerminatedThreads = Cardinality({t \in observed : fState[t] = eTerminated}) + late

\* DoDeletePool: "The threads must already be terminated or a runtime error
\* will occur": no thread object is deleted with work left.
DeletedOnlyTerminated ==
  [][fThreadPool' < fThreadPool
       => \A t \in 1..fThreadPool : fState[t] = eTerminated /\ ~Live(t)]_vars

\* Join(0) "blocks until termination of all pool threads".  It counts, and
\* two kinds of reports stand in for a thread that is still at work: those of
\* threads that were terminated before they ever ran, and the late ones of
\* earlier threads.  It never lets more threads run on than there are such
\* reports; without them, none.
JoinMeansDone ==
  [][joiner = "in" /\ joiner' = "joined"
       => Cardinality({t \in observed : Live(t)})
            <= Cardinality({t \in observed : fState[t] = eTerminated /\ os[t] = "none"}) + late]_vars

\* A pool that stays terminated lets its joiner go, and Terminate returns
\* whatever the threads do.
PoolComesToRest ==
  /\ <>[]fTerminated => []<>(joiner # "in")
  /\ mgr = "request" ~> mgr \in {"init", "failed", "terminated"}
=============================================================================
