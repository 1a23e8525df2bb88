------------------------- MODULE ThreadObjectProofs -------------------------
(***************************************************************************)
(* Proofs about ThreadObject for an object with one controlling thread (a  *)
(* pool manager, a server, a test): any number of restarts, failing forks  *)
(* and vetoed starts.  With two controllers the statements are false; the  *)
(* run thread_two_controllers shows why.                                   *)
(***************************************************************************)
EXTENDS ThreadObject, TLAPS

\* One thread calls Start and Terminate.
OneOwner == \E c : Controllers = {c}

NoneLive == \A o \in OSIds : ~Live(o)

\* A new system thread waits in IntRun for the state eStarted.
NewThread == \E o \in OSIds : os[o] = "check"

\* What the owner knows about the object at each step of Start: until the
\* fork there is no system thread, after it there is a waiting one.
CtlInv ==
  \A c \in Controllers :
    /\ ctl[c] \in {"s_sig", "s_again"} => fState \in {eCreated, eTerminated} /\ NoneLive
    /\ ctl[c] = "s_reuse" => fState = eTerminated /\ NoneLive
    /\ ctl[c] \in {"s_check", "s_request", "s_abort"} => fState = eCreated /\ NoneLive
    /\ ctl[c] = "s_fork" => fState = eStartRequested /\ NoneLive
    /\ ctl[c] \in {"s_again", "s_reuse", "s_check", "s_request", "s_fork"} => fSignature
    /\ ctl[c] = "s_progress" => fState = eStartRequested /\ NewThread
    /\ ctl[c] = "s_started" => fState = eStartInProgress /\ NewThread
    /\ ctl[c] \in {"idle", "t_check"} =>
         /\ fState # eStartInProgress
         /\ fState = eStartRequested => NoneLive

\* What holds where the system thread is.
OsInv ==
  \A o \in OSIds :
    /\ os[o] = "check" => fState \in {eStartRequested, eStartInProgress, eStarted,
                                      eTerminationRequested}
    /\ os[o] = "torun" => fState \in {eStarted, eTerminationRequested}
    /\ os[o] \in {"run", "endrun"} => fState \in {eRunning, eTerminationRequested}
    /\ os[o] \in {"exit", "final"} => fState = eTerminatedRunMethod
    /\ os[o] \in {"check", "torun", "run", "endrun", "exit"} => fThreadId = o /\ fSignature

IInv == TypeOK /\ OneThreadOfControl /\ NoZombieState /\ CtlInv /\ OsInv

----------------------------------------------------------------------------
\* A new thread object has no system thread.
LEMMA InitIInv == Init => IInv
<1> SUFFICES ASSUME Init PROVE IInv
  OBVIOUS
<1> USE DEF Init, eCreated, eStartRequested, eStartInProgress, eStarted, eRunning,
            eTerminationRequested, eTerminatedRunMethod, eTerminated
<1>1. TypeOK
  <2>1. fState \in EThreadState /\ fThreadId \in {0} \cup OSIds
    BY DEF EThreadState
  <2>4. fSignature \in BOOLEAN
    BY Zenon
  <2>2. ctl \in [Controllers -> CtlPCs]
    BY DEF CtlPCs
  <2>3. os \in [OSIds -> OsPCs]
    BY DEF OsPCs
  <2> QED
    BY <2>1, <2>2, <2>3, <2>4 DEF TypeOK
<1>2. OneThreadOfControl /\ NoZombieState
  BY DEF OneThreadOfControl, NoZombieState, Live
<1>3. CtlInv
  BY DEF CtlInv
<1>4. OsInv
  BY DEF OsInv
<1> QED
  BY <1>1, <1>2, <1>3, <1>4 DEF IInv

\* Every step of the owner and of the system threads keeps the invariant.
LEMMA NextIInv == ASSUME OneOwner PROVE IInv /\ [Next]_vars => IInv'
<1> USE DEF eCreated, eStartRequested, eStartInProgress, eStarted, eRunning,
            eTerminationRequested, eTerminatedRunMethod, eTerminated
<1> SUFFICES ASSUME IInv, [Next]_vars PROVE IInv'
  OBVIOUS
<1> PICK c : Controllers = {c}
  BY DEF OneOwner
<1> USE DEF IInv, TypeOK, OneThreadOfControl, NoZombieState, CtlInv, OsInv, Live, NoneLive,
            NewThread, EThreadState, CtlPCs, OsPCs
<1>1. CASE Start(c)
  BY <1>1 DEF Start, StartAllowed, Goto
<1>2. CASE StartSignature(c)
  BY <1>2 DEF StartSignature, Goto
<1>3. CASE StartAgain(c)
  BY <1>3 DEF StartAgain, Goto
<1>4. CASE StartReuse(c)
  BY <1>4 DEF StartReuse, AfterSetState, SetStateOk, SetStateTarget, Goto
<1>5. CASE StartCheck(c)
  BY <1>5 DEF StartCheck, Goto
<1>6. CASE StartRequest(c)
  <2>1. fState = eCreated /\ NoneLive /\ ctl[c] = "s_request"
    BY <1>6 DEF StartRequest
  <2>2. \/ fState' = eStartRequested /\ ctl' = [ctl EXCEPT ![c] = "s_fork"]
        \/ fState' = eCreated /\ ctl' = [ctl EXCEPT ![c] = "s_abort"]
    <3>1. SetStateTarget(fState, eStartRequested) = eStartRequested
      BY DEF SetStateTarget
    <3> QED
      BY <1>6, <2>1, <3>1 DEF StartRequest, Goto
  <2> QED
    BY <1>6, <2>1, <2>2 DEF StartRequest
<1>7. CASE StartFork(c)
  <2>1. PICK o \in OSIds : os' = [os EXCEPT ![o] = "check"] /\ fThreadId' = o
    BY <1>7 DEF StartFork, OsGoto
  <2>2. fState = eStartRequested /\ NoneLive /\ ctl' = [ctl EXCEPT ![c] = "s_progress"]
        /\ UNCHANGED <<fState, fSignature>>
    BY <1>7 DEF StartFork, Goto
  <2>3. fSignature
    BY <1>7 DEF StartFork
  <2> QED
    BY <2>1, <2>2, <2>3
<1>8. CASE StartForkFails(c)
  <2>1. ctl[c] = "s_fork" /\ fState = eStartRequested /\ NoneLive
    BY <1>8 DEF StartForkFails
  <2>2. ctl' = [ctl EXCEPT ![c] = "idle"] /\ fThreadId' = 0 /\ fSignature' = FALSE
        /\ UNCHANGED <<fState, os>>
    BY <1>8 DEF StartForkFails, Goto
  <2>3. fSignature' \in BOOLEAN
    BY <2>2, Zenon
  <2>4. TypeOK'
    BY <2>2, <2>3
  <2>5. (OneThreadOfControl /\ NoZombieState /\ CtlInv /\ OsInv)'
    BY <2>1, <2>2
  <2> QED
    BY <2>4, <2>5
<1>9. CASE StartProgress(c)
  BY <1>9 DEF StartProgress, AfterSetState, SetStateOk, SetStateTarget, Goto
<1>10. CASE StartDone(c)
  BY <1>10 DEF StartDone, AfterSetState, SetStateOk, SetStateTarget, Goto
<1>11. CASE StartAbort(c)
  BY <1>11 DEF StartAbort, AfterSetState, SetStateOk, SetStateTarget, Goto
<1>12. CASE Terminate(c)
  BY <1>12 DEF Terminate, AfterSetState, SetStateOk, SetStateTarget, Goto
<1>13. CASE TerminateSeen(c) \/ TerminateTimeout(c)
  BY <1>13 DEF TerminateSeen, TerminateTimeout, Goto
<1>14. ASSUME NEW o \in OSIds, CheckStarted(o) PROVE IInv'
  BY <1>14 DEF CheckStarted, OsGoto
<1>15. ASSUME NEW o \in OSIds, EnterRun(o) PROVE IInv'
  BY <1>15 DEF EnterRun, AfterSetState, SetStateOk, SetStateTarget, OsGoto
<1>16. ASSUME NEW o \in OSIds, LeaveRun(o) PROVE IInv'
  BY <1>16 DEF LeaveRun, OsGoto
<1>17. ASSUME NEW o \in OSIds, EndIntRun(o) PROVE IInv'
  BY <1>17 DEF EndIntRun, AfterSetState, SetStateOk, SetStateTarget, OsGoto
<1>18. ASSUME NEW o \in OSIds, Exit(o) PROVE IInv'
  BY <1>18 DEF Exit, OsGoto
<1>19. ASSUME NEW o \in OSIds, ExitFinal(o) PROVE IInv'
  BY <1>19 DEF ExitFinal, AfterSetState, SetStateOk, SetStateTarget, OsGoto
<1>20. CASE UNCHANGED vars
  BY <1>20 DEF vars
<1> QED
  BY <1>1, <1>2, <1>3, <1>4, <1>5, <1>6, <1>7, <1>8, <1>9, <1>10, <1>11, <1>12, <1>13,
     <1>14, <1>15, <1>16, <1>17, <1>18, <1>19, <1>20 DEF Next, StartStep, OsStep

\* The inductive invariant of a Thread with one owner.
THEOREM SpecIInv == ASSUME OneOwner PROVE Spec => []IInv
<1>1. Init => IInv
  BY InitIInv
<1>2. IInv /\ [Next]_vars => IInv'
  BY NextIInv
<1> QED
  BY <1>1, <1>2, PTL DEF Spec

\* The variables of a Thread object keep their types.
THEOREM TypeCorrect == ASSUME OneOwner PROVE Spec => []TypeOK
<1>1. IInv => TypeOK
  BY DEF IInv
<1> QED
  BY <1>1, SpecIInv, PTL

\* With one owner eTerminated means what Threads.h says: the system thread is
\* through with ThreadWrapper and the object may be restarted.
THEOREM OwnerSeesTheEnd == ASSUME OneOwner PROVE Spec => []TerminatedIsOver
<1>1. IInv => TerminatedIsOver
  BY DEF IInv, TypeOK, OsInv, TerminatedIsOver, Live, OsPCs, eStartRequested, eStartInProgress,
         eStarted, eRunning, eTerminationRequested, eTerminatedRunMethod, eTerminated
<1> QED
  BY <1>1, SpecIInv, PTL

\* A Thread object never has two system threads at work, however often it is
\* restarted.
THEOREM SingleThread == ASSUME OneOwner PROVE Spec => []OneThreadOfControl
<1>1. IInv => OneThreadOfControl
  BY DEF IInv
<1> QED
  BY <1>1, SpecIInv, PTL

\* The thread inside IntRun is the one whose id and signature the object has.
THEOREM IdentityKept == ASSUME OneOwner PROVE Spec => []OwnThreadKnown
<1>1. IInv => OwnThreadKnown
  BY DEF IInv, OsInv, OwnThreadKnown
<1> QED
  BY <1>1, SpecIInv, PTL

\* A state from eStartInProgress to eTerminatedRunMethod is always driven on by
\* a system thread.
THEOREM NoZombie == ASSUME OneOwner PROVE Spec => []NoZombieState
<1>1. IInv => NoZombieState
  BY DEF IInv
<1> QED
  BY <1>1, SpecIInv, PTL

\* SetState moves forward, or from eTerminated back to eCreated; the thread
\* itself asks for eTerminatedRunMethod and eTerminated only on its way there.
LEMMA SetStateForward ==
  ASSUME NEW cur \in EThreadState, NEW state \in EThreadState, NEW own \in BOOLEAN,
         own => (state < eTerminatedRunMethod \/ cur <= state)
  PROVE  \/ AfterSetState(cur, state, own) >= cur
         \/ cur = eTerminated /\ AfterSetState(cur, state, own) = eCreated
BY DEF AfterSetState, SetStateOk, SetStateTarget, EThreadState, eCreated, eStartRequested,
       eTerminationRequested, eTerminatedRunMethod, eTerminated

\* The state moves along the order of EThreadState; only a terminated object
\* starts over.
THEOREM StatesInOrder == ASSUME OneOwner PROVE Spec => ForwardOnly
<1> DEFINE Step == fState' > fState \/ (fState = eTerminated /\ fState' = eCreated)
<1>1. IInv /\ [Next]_vars => [Step]_fState
  <2> SUFFICES ASSUME IInv, [Next]_vars PROVE [Step]_fState
    OBVIOUS
  <2> DEFINE Forward == fState' >= fState \/ (fState = eTerminated /\ fState' = eCreated)
  <2>0. fState \in EThreadState
    BY DEF IInv, TypeOK
  <2> USE DEF EThreadState, eCreated, eStartRequested, eStartInProgress, eStarted, eRunning,
              eTerminationRequested, eTerminatedRunMethod, eTerminated
  <2>1. ASSUME NEW c \in Controllers,
               StartReuse(c) \/ StartProgress(c) \/ StartDone(c) \/ StartAbort(c) \/ Terminate(c)
        PROVE  Forward
    <3>1. PICK state \in EThreadState : fState' = AfterSetState(fState, state, FALSE)
      <4>1. CASE StartReuse(c)
        BY <4>1 DEF StartReuse
      <4>2. CASE StartProgress(c)
        BY <4>2 DEF StartProgress
      <4>3. CASE StartDone(c)
        BY <4>3 DEF StartDone
      <4>4. CASE StartAbort(c)
        BY <4>4 DEF StartAbort
      <4>5. CASE Terminate(c)
        BY <4>5 DEF Terminate
      <4> QED
        BY <2>1, <4>1, <4>2, <4>3, <4>4, <4>5
    <3> QED
      BY <2>0, <3>1, SetStateForward
  <2>2. ASSUME NEW c \in Controllers, StartRequest(c)
        PROVE  Forward
    <3>1. fState = eCreated
      BY <2>2 DEF StartRequest, IInv, CtlInv
    <3>2. SetStateTarget(fState, eStartRequested) = eStartRequested
      BY DEF SetStateTarget
    <3>3. fState' = SetStateTarget(fState, eStartRequested) \/ fState' = fState
      BY <2>2, Zenon DEF StartRequest
    <3> QED
      BY <3>1, <3>2, <3>3
  <2>3. ASSUME NEW c \in Controllers,
               Start(c) \/ StartSignature(c) \/ StartAgain(c) \/ StartCheck(c)
                 \/ StartFork(c) \/ StartForkFails(c) \/ TerminateSeen(c)
                 \/ TerminateTimeout(c)
        PROVE  fState' = fState
    BY <2>3 DEF Start, StartSignature, StartAgain, StartCheck, StartFork, StartForkFails,
                TerminateSeen, TerminateTimeout
  <2>4. ASSUME NEW o \in OSIds, EnterRun(o) \/ EndIntRun(o) \/ ExitFinal(o)
        PROVE  Forward
    <3>1. PICK state \in EThreadState :
             /\ fState' = AfterSetState(fState, state, fThreadId = o)
             /\ state < eTerminatedRunMethod \/ fState <= state
      <4>1. CASE EnterRun(o)
        BY <4>1 DEF EnterRun
      <4>2. CASE EndIntRun(o)
        BY <4>2 DEF EndIntRun, IInv, OsInv
      <4>3. CASE ExitFinal(o)
        BY <4>3 DEF ExitFinal, IInv, OsInv
      <4> QED
        BY <2>4, <4>1, <4>2, <4>3
    <3>2. (fThreadId = o) \in BOOLEAN
      BY Zenon
    <3> QED
      BY <2>0, <3>1, <3>2, SetStateForward
  <2>5. ASSUME NEW o \in OSIds, CheckStarted(o) \/ LeaveRun(o) \/ Exit(o)
        PROVE  fState' = fState
    BY <2>5 DEF CheckStarted, LeaveRun, Exit
  <2>6. Forward
    BY <2>0, <2>1, <2>2, <2>3, <2>4, <2>5 DEF Next, StartStep, OsStep, vars
  <2>7. fState' \in EThreadState
    BY NextIInv DEF IInv, TypeOK
  <2> QED
    BY <2>0, <2>6, <2>7
<1> QED
  BY <1>1, SpecIInv, PTL DEF Spec, ForwardOnly
=============================================================================
