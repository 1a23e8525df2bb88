------------------------------- MODULE RWLock -------------------------------
(***************************************************************************)
(* The read/write lock coast builds from one pthread mutex and two         *)
(* condition variables (the rwl_ functions of mtfoundation/SystemAPI.cpp), *)
(* wrapped by RWLock::Lock, TryLock and Unlock.  Each of them tests        *)
(* rwl->valid without the mutex, once, and then works under rwl->mutex: a  *)
(* lock call is split at that point, and the code between two points where *)
(* the mutex is free is one step.  pthread_cond_wait gives the mutex up    *)
(* and takes it again: its caller is split into the step that starts to    *)
(* wait and the step that runs after a wakeup.  Wakeups may be spurious.   *)
(*                                                                         *)
(* A thread that passed the test may find that rwl_destroy came first.     *)
(* Until pthread_mutex_destroy has run it enters the dead lock as if       *)
(* nothing had happened; afterwards pthread_mutex_lock fails.  Which of    *)
(* the two it meets is left open.                                          *)
(***************************************************************************)
EXTENDS Integers, FiniteSets

CONSTANT Threads

ASSUME ThreadsAssumption == IsFiniteSet(Threads)

VARIABLES valid,      \* rwl->valid = RWLOCK_VALID
          r_active,   \* rwl->r_active
          w_active,   \* rwl->w_active
          r_wait,     \* rwl->r_wait
          w_wait,     \* rwl->w_wait
          pc          \* what each thread is doing with this lock

vars == <<valid, r_active, w_active, r_wait, w_wait, pc>>

\* "rcall", "rtry", "wcall", "wtry": past the test of rwl->valid, in front
\* of rwl->mutex.  "rwait" and "wwait": blocked on rwl->read and rwl->write.  "rwoken" and
\* "wwoken": out of the wait queue, but the mutex is not taken again yet.
Calling == {"rcall", "rtry", "wcall", "wtry"}

PCs == Calling \cup
       {"idle", "rwait", "rwoken", "reading", "wwait", "wwoken", "writing"}

\* The threads that the program counters p place in S.
Where(p, S) == {t \in Threads : p[t] \in S}

At(S) == Where(pc, S)

Readers == At({"reading"})
Writers == At({"writing"})

\* Type invariant: in particular no counter of rwlock_t ever goes negative.
TypeOK ==
  /\ valid \in BOOLEAN
  /\ r_active \in Nat /\ w_active \in {0, 1}
  /\ r_wait \in Nat /\ w_wait \in Nat
  /\ pc \in [Threads -> PCs]

Init ==
  /\ valid = TRUE
  /\ r_active = 0 /\ w_active = 0 /\ r_wait = 0 /\ w_wait = 0
  /\ pc = [t \in Threads |-> "idle"]

\* pthread_cond_signal(&rwl->write): wakes one waiter, or nobody.
SignalWrite(p) ==
  LET blocked == {t \in Threads : p[t] = "wwait"}
  IN  IF blocked = {} THEN {p} ELSE {[p EXCEPT ![t] = "wwoken"] : t \in blocked}

\* pthread_cond_broadcast(&rwl->read): wakes every waiting reader.
BroadcastRead(p) ==
  [t \in Threads |-> IF p[t] = "rwait" THEN "rwoken" ELSE p[t]]

\* The test of rwl->valid that the lock functions start with.  A call that
\* finds the lock destroyed returns EINVAL and changes nothing.
Call(t, place) ==
  /\ pc[t] = "idle" /\ valid
  /\ pc' = [pc EXCEPT ![t] = place]
  /\ UNCHANGED <<valid, r_active, w_active, r_wait, w_wait>>

----------------------------------------------------------------------------
(* Readers.                                                                *)

ReadBusy == w_active # 0

\* rwl_readlock from its mutex to the first pthread_cond_wait, or to its
\* return.
rwl_readlock(t) ==
  /\ pc[t] = "rcall"
  /\ IF ReadBusy
       THEN /\ r_wait' = r_wait + 1
            /\ pc' = [pc EXCEPT ![t] = "rwait"]
            /\ UNCHANGED r_active
       ELSE /\ r_active' = r_active + 1
            /\ pc' = [pc EXCEPT ![t] = "reading"]
            /\ UNCHANGED r_wait
  /\ UNCHANGED <<valid, w_active, w_wait>>

\* The while loop of rwl_readlock after a wakeup.
ReadWoken(t) ==
  /\ pc[t] = "rwoken"
  /\ IF ReadBusy
       THEN pc' = [pc EXCEPT ![t] = "rwait"] /\ UNCHANGED <<r_wait, r_active>>
       ELSE /\ r_wait' = r_wait - 1
            /\ r_active' = r_active + 1
            /\ pc' = [pc EXCEPT ![t] = "reading"]
  /\ UNCHANGED <<valid, w_active, w_wait>>

\* rwl_readtrylock; EBUSY leaves the lock as it is.
rwl_readtrylock(t) ==
  /\ pc[t] = "rtry"
  /\ IF ReadBusy
       THEN pc' = [pc EXCEPT ![t] = "idle"] /\ UNCHANGED r_active
       ELSE /\ r_active' = r_active + 1
            /\ pc' = [pc EXCEPT ![t] = "reading"]
  /\ UNCHANGED <<valid, w_active, r_wait, w_wait>>

\* The test of rwl->valid and the rest are one step here: the caller is
\* counted, so that rwl_destroy cannot come between them.
rwl_readunlock(t) ==
  /\ pc[t] = "reading" /\ valid
  /\ r_active' = r_active - 1
  /\ LET p == [pc EXCEPT ![t] = "idle"]
     IN  IF r_active' = 0 /\ w_wait > 0
           THEN pc' \in SignalWrite(p)
           ELSE pc' = p
  /\ UNCHANGED <<valid, w_active, r_wait, w_wait>>

----------------------------------------------------------------------------
(* Writers.                                                                *)

\* Mutant: a writer looks at the other writers only.
WriteBusyIgnoresReaders == w_active # 0

WriteBusy == w_active # 0 \/ r_active > 0

\* rwl_writelock from its mutex to the first pthread_cond_wait, or to its
\* return.
rwl_writelock(t) ==
  /\ pc[t] = "wcall"
  /\ IF WriteBusy
       THEN /\ w_wait' = w_wait + 1
            /\ pc' = [pc EXCEPT ![t] = "wwait"]
            /\ UNCHANGED w_active
       ELSE /\ w_active' = 1
            /\ pc' = [pc EXCEPT ![t] = "writing"]
            /\ UNCHANGED w_wait
  /\ UNCHANGED <<valid, r_active, r_wait>>

\* The while loop of rwl_writelock after a wakeup.
WriteWoken(t) ==
  /\ pc[t] = "wwoken"
  /\ IF WriteBusy
       THEN pc' = [pc EXCEPT ![t] = "wwait"] /\ UNCHANGED <<w_wait, w_active>>
       ELSE /\ w_wait' = w_wait - 1
            /\ w_active' = 1
            /\ pc' = [pc EXCEPT ![t] = "writing"]
  /\ UNCHANGED <<valid, r_active, r_wait>>

\* rwl_writetrylock; EBUSY leaves the lock as it is.
rwl_writetrylock(t) ==
  /\ pc[t] = "wtry"
  /\ IF WriteBusy
       THEN pc' = [pc EXCEPT ![t] = "idle"] /\ UNCHANGED w_active
       ELSE /\ w_active' = 1
            /\ pc' = [pc EXCEPT ![t] = "writing"]
  /\ UNCHANGED <<valid, r_active, r_wait, w_wait>>

\* Mutant: the else branch that signals a writer is missing.
WakeAfterWriteReadersOnly(p) ==
  IF r_wait > 0 THEN {BroadcastRead(p)} ELSE {p}

\* Who rwl_writeunlock wakes: all readers first, a writer otherwise.
WakeAfterWrite(p) ==
  IF r_wait > 0 THEN {BroadcastRead(p)}
  ELSE IF w_wait > 0 THEN SignalWrite(p) ELSE {p}

rwl_writeunlock(t) ==
  /\ pc[t] = "writing" /\ valid
  /\ w_active' = 0
  /\ pc' \in WakeAfterWrite([pc EXCEPT ![t] = "idle"])
  /\ UNCHANGED <<valid, r_active, r_wait, w_wait>>

----------------------------------------------------------------------------
(* The end of the lock.                                                    *)

\* Mutant: waiting threads are not looked at.
rwl_destroyUnderWaiters ==
  /\ valid
  /\ ~(r_active > 0 \/ w_active # 0)
  /\ valid' = FALSE
  /\ UNCHANGED <<r_active, w_active, r_wait, w_wait, pc>>

\* rwl_destroy; EBUSY leaves everything as it is.
rwl_destroy ==
  /\ valid
  /\ ~(r_active > 0 \/ w_active # 0)
  /\ ~(r_wait # 0 \/ w_wait # 0)
  /\ valid' = FALSE
  /\ UNCHANGED <<r_active, w_active, r_wait, w_wait, pc>>

\* An unlock of a destroyed lock returns EINVAL: its caller is done with the
\* lock, the counters keep counting it.
UnlockInvalid(t) ==
  /\ pc[t] \in {"reading", "writing"} /\ ~valid
  /\ pc' = [pc EXCEPT ![t] = "idle"]
  /\ UNCHANGED <<valid, r_active, w_active, r_wait, w_wait>>

\* The mutex of a destroyed lock cannot be taken (again): the call returns
\* the error, a waiter after it has taken itself off its counter.
MutexGone(t) ==
  /\ ~valid /\ pc[t] \in Calling \cup {"rwoken", "wwoken"}
  /\ r_wait' = IF pc[t] = "rwoken" THEN r_wait - 1 ELSE r_wait
  /\ w_wait' = IF pc[t] = "wwoken" THEN w_wait - 1 ELSE w_wait
  /\ pc' = [pc EXCEPT ![t] = "idle"]
  /\ UNCHANGED <<valid, r_active, w_active>>

\* pthread_cond_wait may return without a signal.
SpuriousWakeup(t) ==
  /\ \/ pc[t] = "rwait" /\ pc' = [pc EXCEPT ![t] = "rwoken"]
     \/ pc[t] = "wwait" /\ pc' = [pc EXCEPT ![t] = "wwoken"]
  /\ UNCHANGED <<valid, r_active, w_active, r_wait, w_wait>>

Request(t) == \E place \in Calling : Call(t, place)

Enter(t)  == \/ rwl_readlock(t)  \/ rwl_readtrylock(t)
             \/ rwl_writelock(t) \/ rwl_writetrylock(t)
Woken(t)  == ReadWoken(t) \/ WriteWoken(t)
Unlock(t) == rwl_readunlock(t) \/ rwl_writeunlock(t) \/ UnlockInvalid(t)

Next == \/ \E t \in Threads : \/ Request(t) \/ Enter(t) \/ Woken(t)
                              \/ Unlock(t)  \/ MutexGone(t)
                              \/ SpuriousWakeup(t)
        \/ rwl_destroy

Spec == Init /\ [][Next]_vars

\* The scheduler runs every thread in front of the mutex and every woken
\* one, and who holds the lock gives it back (LockUnlockEntry unlocks in its
\* destructor).  Nothing forces a thread to ask for the lock.
Fairness == \A t \in Threads : /\ WF_vars(Enter(t)) /\ WF_vars(Woken(t))
                               /\ WF_vars(Unlock(t))

FairSpec == Spec /\ Fairness

----------------------------------------------------------------------------
(* Properties.                                                             *)

\* Readers share the lock, a writer has it alone (RWLock::Lock).
ReadersWriterExclusion ==
  /\ Cardinality(Writers) <= 1
  /\ Writers # {} => Readers = {}

\* The counters rwl_destroy and the unlock functions decide on agree with
\* who really holds the lock and who really waits for it.  On a destroyed
\* lock an unlock leaves its caller counted: the counters of the holders may
\* then be too large, never too small.
CountersExact ==
  /\ valid => /\ r_active = Cardinality(Readers)
              /\ w_active = Cardinality(Writers)
  /\ r_active >= Cardinality(Readers)
  /\ w_active >= Cardinality(Writers)
  /\ r_wait = Cardinality(At({"rwait", "rwoken"}))
  /\ w_wait = Cardinality(At({"wwait", "wwoken"}))

\* The signals of rwl_readunlock and rwl_writeunlock are enough: a reader
\* is blocked only while a writer is in, and nobody stays blocked at a free
\* lock unless a woken thread is on its way to take it (and will signal).
\* A destroyed lock signals nobody, so this is said of a valid one.
NoLostWakeup ==
  valid => /\ At({"rwait"}) # {} => Writers # {}
           /\ (At({"wwait"}) # {} /\ Readers = {} /\ Writers = {})
                => At({"rwoken", "wwoken"}) # {}

\* rwl_destroy never pulls the lock away from a thread that holds it or
\* waits for it: the only threads it can surprise are those that have passed
\* the test of rwl->valid and do not have the mutex yet.  (Nothing protects
\* those: see MutexGone and the entries into a destroyed lock.)
DestroyedUnused ==
  [][valid /\ ~valid' => \A t \in Threads : pc[t] \in {"idle"} \cup Calling]_vars

\* As long as the lock lives, once no new request arrives every waiting
\* reader and writer gets the lock: neither the reader preference of
\* rwl_writeunlock nor the single signal of rwl_readunlock strands one.
\* (With new requests arriving for ever a writer can starve: readers
\* overtake it.)
WaitersServed ==
  ([]valid /\ <>[][\A t \in Threads : ~Request(t)]_vars)
    => \A t \in Threads : /\ pc[t] = "rwait" ~> pc[t] = "reading"
                          /\ pc[t] = "wwait" ~> pc[t] = "writing"

Abs == INSTANCE RWLockAbs WITH readers <- Readers, writers <- Writers

\* The lock implements the abstract many-readers-or-one-writer lock, for
\* those too who enter after its destruction.
AbsSpec == Abs!Spec
=============================================================================
