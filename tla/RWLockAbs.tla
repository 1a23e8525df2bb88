----------------------------- MODULE RWLockAbs -----------------------------
(***************************************************************************)
(* What RWLock (mtfoundation/RWLock.h) promises its users: many readers or *)
(* one writer.  The state is only who holds the lock in which mode; how    *)
(* callers wait is left out.                                               *)
(***************************************************************************)
CONSTANT Threads

VARIABLES readers,   \* the threads that hold the lock in mode eReading
          writers    \* the threads that hold the lock in mode eWriting

avars == <<readers, writers>>

Init == readers = {} /\ writers = {}

\* Lock(eReading) or TryLock(eReading) succeeds.
AcquireRead(t) ==
  /\ t \notin readers /\ writers = {}
  /\ readers' = readers \cup {t}
  /\ UNCHANGED writers

\* Unlock(eReading).
ReleaseRead(t) ==
  /\ t \in readers
  /\ readers' = readers \ {t}
  /\ UNCHANGED writers

\* Lock(eWriting) or TryLock(eWriting) succeeds.
AcquireWrite(t) ==
  /\ readers = {} /\ writers = {}
  /\ writers' = {t}
  /\ UNCHANGED readers

\* Unlock(eWriting).
ReleaseWrite(t) ==
  /\ t \in writers
  /\ writers' = writers \ {t}
  /\ UNCHANGED readers

Next == \E t \in Threads : \/ AcquireRead(t)  \/ ReleaseRead(t)
                           \/ AcquireWrite(t) \/ ReleaseWrite(t)

Spec == Init /\ [][Next]_avars
=============================================================================
