---------------------------- MODULE ThreadObject ----------------------------
(***************************************************************************)
(* One coast Thread object (mtfoundation/Threads.cpp): its state machine,  *)
(* the calls Start and Terminate of the threads that control it, and the   *)
(* system threads that ThreadWrapper runs for it.  SetState, GetState and  *)
(* CheckState hold fStateMutex, so each is one step (CheckState one step   *)
(* once its condition holds); fSignature and fThreadId are written outside *)
(* the mutex, in steps of their own.                                       *)
(***************************************************************************)
EXTENDS ThreadStates

CONSTANTS Controllers,   \* threads that call Start and Terminate
          MaxForks       \* bound: how many system threads are created

ASSUME ForksAssumption == MaxForks \in Nat \ {0}

OSIds == 1..MaxForks

VARIABLES fState,       \* Thread::fState
          fSignature,   \* fSignature = aliveSignature
          fThreadId,    \* Thread::fThreadId, 0 when there is none
          ctl,          \* where each controller is in Start or Terminate
          os            \* where each system thread is in ThreadWrapper

vars == <<fState, fSignature, fThreadId, ctl, os>>

CtlPCs == {"idle", "s_sig", "s_again", "s_reuse", "s_check", "s_request",
           "s_fork", "s_progress", "s_started", "s_abort", "t_check"}

\* "check": IntRun's CheckState(eStarted); "torun": about to SetState(eRunning);
\* "run": in Run(); "endrun": about to SetState(eTerminatedRunMethod);
\* "exit": Exit up to fThreadId = 0; "final": SetState(eTerminated).
OsPCs == {"unborn", "check", "torun", "run", "endrun", "exit", "final", "gone"}

\* Type invariant of the Thread object and its users.
TypeOK ==
  /\ fState \in EThreadState
  /\ fSignature \in BOOLEAN
  /\ fThreadId \in {0} \cup OSIds
  /\ ctl \in [Controllers -> CtlPCs]
  /\ os \in [OSIds -> OsPCs]

Init ==
  /\ fState = eCreated
  /\ fSignature = FALSE
  /\ fThreadId = 0
  /\ ctl = [c \in Controllers |-> "idle"]
  /\ os = [o \in OSIds |-> "unborn"]

Goto(c, pc) == ctl' = [ctl EXCEPT ![c] = pc]
OsGoto(o, pc) == os' = [os EXCEPT ![o] = pc]

----------------------------------------------------------------------------
(* Thread::Start.                                                          *)

\* The object must not be in use: never started or terminated.
StartAllowed(state) == ~(state > eCreated /\ state < eTerminated)

\* Start up to its first GetState.
Start(c) ==
  /\ ctl[c] = "idle"
  /\ \E o \in OSIds : os[o] = "unborn"
  /\ Goto(c, IF StartAllowed(fState) THEN "s_sig" ELSE "idle")
  /\ UNCHANGED <<fState, fSignature, fThreadId, os>>

\* fSignature = aliveSignature.
StartSignature(c) ==
  /\ ctl[c] = "s_sig"
  /\ fSignature' = TRUE
  /\ Goto(c, "s_again")
  /\ UNCHANGED <<fState, fThreadId, os>>

\* if (GetState() == eTerminated)
StartAgain(c) ==
  /\ ctl[c] = "s_again"
  /\ Goto(c, IF fState = eTerminated THEN "s_reuse" ELSE "s_check")
  /\ UNCHANGED <<fState, fSignature, fThreadId, os>>

\* SetState(eCreated)
StartReuse(c) ==
  /\ ctl[c] = "s_reuse"
  /\ fState' = AfterSetState(fState, eCreated, FALSE)
  /\ Goto(c, "s_check")
  /\ UNCHANGED <<fSignature, fThreadId, os>>

\* if (GetState() < eStartRequested)
StartCheck(c) ==
  /\ ctl[c] = "s_check"
  /\ Goto(c, IF fState < eStartRequested THEN "s_request" ELSE "s_abort")
  /\ UNCHANGED <<fState, fSignature, fThreadId, os>>

\* SetState(eStartRequested); only here may a hook (DoStartRequestedHook)
\* refuse the change.
StartRequest(c) ==
  /\ ctl[c] = "s_request"
  /\ \/ /\ SetStateOk(fState, eStartRequested, FALSE)
        /\ fState' = SetStateTarget(fState, eStartRequested)
        /\ Goto(c, "s_fork")
     \/ /\ fState' = fState
        /\ Goto(c, "s_abort")
  /\ UNCHANGED <<fSignature, fThreadId, os>>

\* STARTTHREAD: pthread_create stores the id and starts ThreadWrapper.
StartFork(c) ==
  /\ ctl[c] = "s_fork"
  /\ \E o \in OSIds :
       /\ os[o] = "unborn" /\ \A p \in 1..(o - 1) : os[p] # "unborn"
       /\ OsGoto(o, "check")
       /\ fThreadId' = o
  /\ Goto(c, "s_progress")
  /\ UNCHANGED <<fState, fSignature>>

\* STARTTHREAD fails; the state stays eStartRequested.
StartForkFails(c) ==
  /\ ctl[c] = "s_fork"
  /\ fThreadId' = 0
  /\ fSignature' = FALSE
  /\ Goto(c, "idle")
  /\ UNCHANGED <<fState, os>>

\* SetState(eStartInProgress)
StartProgress(c) ==
  /\ ctl[c] = "s_progress"
  /\ fState' = AfterSetState(fState, eStartInProgress, FALSE)
  /\ Goto(c, "s_started")
  /\ UNCHANGED <<fSignature, fThreadId, os>>

\* SetState(eStarted), return true.
StartDone(c) ==
  /\ ctl[c] = "s_started"
  /\ fState' = AfterSetState(fState, eStarted, FALSE)
  /\ Goto(c, "idle")
  /\ UNCHANGED <<fSignature, fThreadId, os>>

\* SetState(eTerminationRequested), return false.
StartAbort(c) ==
  /\ ctl[c] = "s_abort"
  /\ fState' = AfterSetState(fState, eTerminationRequested, FALSE)
  /\ Goto(c, "idle")
  /\ UNCHANGED <<fSignature, fThreadId, os>>

----------------------------------------------------------------------------
(* Thread::Terminate.                                                      *)

\* SetState(eTerminationRequested)
Terminate(c) ==
  /\ ctl[c] = "idle"
  /\ fState' = AfterSetState(fState, eTerminationRequested, FALSE)
  /\ Goto(c, "t_check")
  /\ UNCHANGED <<fSignature, fThreadId, os>>

\* CheckState(eTerminated, timeout) returns true.
TerminateSeen(c) ==
  /\ ctl[c] = "t_check"
  /\ fState = eTerminated
  /\ Goto(c, "idle")
  /\ UNCHANGED <<fState, fSignature, fThreadId, os>>

\* CheckState(eTerminated, timeout) gives up; never with timeout == 0.
TerminateTimeout(c) ==
  /\ ctl[c] = "t_check"
  /\ fState < eTerminated
  /\ Goto(c, "idle")
  /\ UNCHANGED <<fState, fSignature, fThreadId, os>>

----------------------------------------------------------------------------
(* ThreadWrapper: IntRun, CleanupThreadStorage, Exit.                      *)

\* CheckState(eStarted): waits until the state is reached or passed.
CheckStarted(o) ==
  /\ os[o] = "check"
  /\ fState >= eStarted
  /\ OsGoto(o, IF fState = eStarted THEN "torun" ELSE "endrun")
  /\ UNCHANGED <<fState, fSignature, fThreadId, ctl>>

\* if (SetState(eRunning)) Run();
EnterRun(o) ==
  /\ os[o] = "torun"
  /\ fState' = AfterSetState(fState, eRunning, fThreadId = o)
  /\ OsGoto(o, IF SetStateOk(fState, eRunning, fThreadId = o) THEN "run" ELSE "endrun")
  /\ UNCHANGED <<fSignature, fThreadId, ctl>>

\* Run() returns: it has seen the request, or is done by itself.
LeaveRun(o) ==
  /\ os[o] = "run"
  /\ OsGoto(o, "endrun")
  /\ UNCHANGED <<fState, fSignature, fThreadId, ctl>>

\* SetState(eTerminatedRunMethod), then CleanupThreadStorage.
EndIntRun(o) ==
  /\ os[o] = "endrun"
  /\ fState' = AfterSetState(fState, eTerminatedRunMethod, fThreadId = o)
  /\ OsGoto(o, "exit")
  /\ UNCHANGED <<fSignature, fThreadId, ctl>>

\* Mutant: the values are reset after the state has become eTerminated.
ExitLate(o) ==
  /\ os[o] = "exit"
  /\ fState' = AfterSetState(fState, eTerminated, fThreadId = o)
  /\ OsGoto(o, "final")
  /\ UNCHANGED <<fSignature, fThreadId, ctl>>

\* Exit: detach, fSignature = deadSignature, fThreadId = 0.
Exit(o) ==
  /\ os[o] = "exit"
  /\ fSignature' = FALSE
  /\ fThreadId' = 0
  /\ OsGoto(o, "final")
  /\ UNCHANGED <<fState, ctl>>

\* Exit: SetState(eTerminated).  fThreadId is 0 by now, so this caller no
\* longer counts as the thread itself.
ExitFinal(o) ==
  /\ os[o] = "final"
  /\ fState' = AfterSetState(fState, eTerminated, fThreadId = o)
  /\ OsGoto(o, "gone")
  /\ UNCHANGED <<fSignature, fThreadId, ctl>>

----------------------------------------------------------------------------
StartStep(c) ==
  \/ StartSignature(c) \/ StartAgain(c)   \/ StartReuse(c)
  \/ StartCheck(c)     \/ StartRequest(c) \/ StartFork(c) \/ StartForkFails(c)
  \/ StartProgress(c)  \/ StartDone(c)    \/ StartAbort(c)

OsStep(o) == CheckStarted(o) \/ EnterRun(o) \/ EndIntRun(o) \/ Exit(o) \/ ExitFinal(o)

Next ==
  \/ \E c \in Controllers : \/ Start(c) \/ StartStep(c)
                            \/ Terminate(c) \/ TerminateSeen(c) \/ TerminateTimeout(c)
  \/ \E o \in OSIds : OsStep(o) \/ LeaveRun(o)

Spec == Init /\ [][Next]_vars

\* Every thread is scheduled.  Run() must return only once termination is
\* requested; it need not return before, nobody has to call Start or
\* Terminate, and a timeout need not happen.
Fairness ==
  /\ \A c \in Controllers : WF_vars(StartStep(c)) /\ WF_vars(TerminateSeen(c))
  /\ \A o \in OSIds : /\ WF_vars(OsStep(o))
                      /\ WF_vars(fState = eTerminationRequested /\ LeaveRun(o))

FairSpec == Spec /\ Fairness

----------------------------------------------------------------------------
(* Properties.                                                             *)

Live(o) == os[o] \notin {"unborn", "gone"}

\* Threads.h on eTerminated: "Thread::Run has been left and its own thread of
\* control is terminated. The object still exists and can be restarted now".
\* No system thread of this object may have code of ThreadWrapper left to run.
TerminatedIsOver == fState = eTerminated => \A o \in OSIds : ~Live(o)

\* At any time at most one system thread is at work for the object.
OneThreadOfControl == \A o, p \in OSIds : Live(o) /\ Live(p) => o = p

\* A thread of control inside IntRun is the one the object knows: SetState
\* recognises it as the caller (MyId() == GetId()) and IsAlive() holds.
OwnThreadKnown ==
  \A o \in OSIds : os[o] \in {"torun", "run", "endrun"}
                     => fThreadId = o /\ fSignature

\* No zombie: whenever the state says that there is a thread of control, one
\* is there to drive the state to eTerminated.  Otherwise Terminate() with no
\* timeout would wait for ever.
NoZombieState ==
  (fState >= eStartInProgress /\ fState < eTerminated)
     => \E o \in OSIds : Live(o)

\* "There is an implicit ordering in these states": the state only moves
\* forward, except when a terminated object is re-used.
ForwardOnly ==
  [][\/ fState' > fState
     \/ fState = eTerminated /\ fState' = eCreated]_fState

\* Start and Terminate (even without timeout) return, and a created system
\* thread gets into Run or is done: nobody waits for a state for ever.
CallsReturn ==
  /\ \A c \in Controllers : ctl[c] # "idle" ~> ctl[c] = "idle"
  /\ \A o \in OSIds : os[o] = "check" ~> os[o] \in {"run", "gone"}
=============================================================================
