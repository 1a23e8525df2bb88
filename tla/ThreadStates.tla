---------------------------- MODULE ThreadStates ----------------------------
(***************************************************************************)
(* The states of a coast Thread (mtfoundation/Threads.h) and the rules of  *)
(* Thread::SetState, shared by the modules about single threads and pools. *)
(***************************************************************************)
EXTENDS Integers

eCreated              == 0
eStartRequested       == 1
eStartInProgress      == 2
eStarted              == 3
eRunning              == 4
eTerminationRequested == 5
eTerminatedRunMethod  == 6
eTerminated           == 7

EThreadState == 0..7

\* Whether SetState(state) changes anything when the thread is in state cur;
\* own: the caller is the thread's own thread of control (MyId() == GetId()).
SetStateOk(cur, state, own) ==
  \/ state = cur + 1
  \/ state = eTerminationRequested /\ cur < eTerminationRequested
  \/ cur = eTerminated /\ state = eCreated
  \/ state \in {eTerminatedRunMethod, eTerminated} /\ own

\* Mutant: only a thread that was never started is terminated at once.
SetStateTargetNotStartRequested(cur, state) ==
  IF state = eTerminationRequested /\ cur = eCreated THEN eTerminated ELSE state

\* Mutant: a thread that does not run yet is terminated at once.
SetStateTargetNotRunning(cur, state) ==
  IF state = eTerminationRequested /\ cur < eRunning THEN eTerminated ELSE state

\* The state that is entered: a thread without a thread of control is
\* terminated at once.
SetStateTarget(cur, state) ==
  IF state = eTerminationRequested /\ cur \in {eCreated, eStartRequested}
    THEN eTerminated ELSE state

\* fState after SetState(state).
AfterSetState(cur, state, own) ==
  IF SetStateOk(cur, state, own) THEN SetStateTarget(cur, state) ELSE cur
=============================================================================
