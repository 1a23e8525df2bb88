---------------------------- MODULE RWLockProofs ----------------------------
(***************************************************************************)
(* Proofs about RWLock for every finite set of threads.                    *)
(***************************************************************************)
EXTENDS RWLock, FiniteSetTheorems, TLAPS

----------------------------------------------------------------------------
(* How the number of threads in a class of program counters changes when   *)
(* one thread moves and the others stay in or out of the class.            *)

\* Every class of threads is finite.
LEMMA WhereFinite ==
  ASSUME NEW p, NEW S
  PROVE  IsFiniteSet(Where(p, S)) /\ Cardinality(Where(p, S)) \in Nat
BY ThreadsAssumption, FS_Subset, FS_CardinalityType DEF Where

Enters(p, q, S, t) ==
  /\ t \in Threads /\ p[t] \notin S /\ q[t] \in S
  /\ \A u \in Threads \ {t} : p[u] \in S <=> q[u] \in S

\* A thread that enters the class adds one.
LEMMA CardEnter ==
  ASSUME NEW p, NEW q, NEW S, NEW t, Enters(p, q, S, t)
  PROVE  Cardinality(Where(q, S)) = Cardinality(Where(p, S)) + 1
<1>1. Where(q, S) = Where(p, S) \cup {t}  BY DEF Where, Enters
<1>2. t \notin Where(p, S)  BY DEF Where, Enters
<1> QED  BY <1>1, <1>2, WhereFinite, FS_AddElement

\* A thread that leaves the class takes one away.
LEMMA CardLeave ==
  ASSUME NEW p, NEW q, NEW S, NEW t, Enters(q, p, S, t)
  PROVE  Cardinality(Where(q, S)) = Cardinality(Where(p, S)) - 1
<1>1. Where(q, S) = Where(p, S) \ {t}  BY DEF Where, Enters
<1>2. t \in Where(p, S)  BY DEF Where, Enters
<1> QED  BY <1>1, <1>2, WhereFinite, FS_RemoveElement

Stays(p, q, S) == \A u \in Threads : p[u] \in S <=> q[u] \in S

\* A step that moves nobody in or out changes nothing.
LEMMA CardSame ==
  ASSUME NEW p, NEW q, NEW S, Stays(p, q, S)
  PROVE  Cardinality(Where(q, S)) = Cardinality(Where(p, S))
<1>1. Where(q, S) = Where(p, S)  BY DEF Where, Stays
<1> QED  BY <1>1

\* A counter that equals the size of a class is zero exactly when the class
\* is empty.
LEMMA CardZero ==
  ASSUME NEW p, NEW S
  PROVE  Cardinality(Where(p, S)) = 0 <=> \A t \in Threads : p[t] \notin S
<1>1. Cardinality(Where(p, S)) = 0 <=> Where(p, S) = {}
  BY WhereFinite, FS_EmptySet
<1> QED  BY <1>1 DEF Where

----------------------------------------------------------------------------
(* The inductive invariant: the counters are exact, the flag and the       *)
(* counter of the holders exclude each other, and the wakeups that are due *)
(* are on their way.  On a destroyed lock the counters of the holders are  *)
(* still upper bounds, which is all that exclusion needs.                  *)

WriterAlone == w_active = 1 => r_active = 0

Typed ==
  /\ valid \in BOOLEAN
  /\ r_active \in Int /\ w_active \in {0, 1}
  /\ r_wait \in Int /\ w_wait \in Int
  /\ pc \in [Threads -> PCs]

WakeupsDue ==
  valid =>
  /\ (\E t \in Threads : pc[t] = "rwait") => w_active = 1
  /\ ((\E t \in Threads : pc[t] = "wwait") /\ r_active = 0 /\ w_active = 0)
       => \E t \in Threads : pc[t] \in {"rwoken", "wwoken"}

IInv == /\ Typed
        /\ CountersExact
        /\ WriterAlone
        /\ WakeupsDue

\* The counters are natural numbers.
LEMMA CountersNat ==
  ASSUME IInv
  PROVE  /\ r_active \in Nat /\ r_wait \in Nat /\ w_wait \in Nat
         /\ \A S : Cardinality(Where(pc, S)) \in Nat
         /\ \A S : Cardinality(Where(pc', S)) \in Nat
<1>1. \A S : Cardinality(Where(pc, S)) \in Nat  BY WhereFinite
<1>2. \A S : Cardinality(Where(pc', S)) \in Nat  BY WhereFinite
<1>3. Cardinality(Where(pc, {"reading"})) \in Nat  BY <1>1
<1>4. r_active \in Nat  BY <1>3 DEF IInv, Typed, CountersExact, Readers, At
<1> QED  BY <1>1, <1>2, <1>4 DEF IInv, CountersExact, At

\* The invariant holds at first.
LEMMA InitIInv == Init => IInv
<1> SUFFICES ASSUME Init PROVE IInv  OBVIOUS
<1>1. Typed  BY DEF Init, Typed, PCs
<1>2. CountersExact
  BY CardZero DEF Init, CountersExact, Readers, Writers, At
<1>3. WriterAlone /\ WakeupsDue
  BY DEF Init, WriterAlone, WakeupsDue
<1> QED  BY <1>1, <1>2, <1>3 DEF IInv

\* What pthread_cond_signal does to the program counters: nothing, when no
\* writer is blocked, or one blocked writer wakes.
LEMMA SignalWriteEffect ==
  ASSUME NEW p \in [Threads -> PCs], NEW q \in SignalWrite(p)
  PROVE  /\ q \in [Threads -> PCs]
         /\ \A u \in Threads :
              \/ q[u] = p[u]
              \/ p[u] = "wwait" /\ q[u] = "wwoken"
         /\ (\E u \in Threads : p[u] = "wwait")
              => \E u \in Threads : q[u] = "wwoken"
BY DEF SignalWrite, PCs, Calling

\* A thread that takes the read lock, at once or after a wakeup.
LEMMA TakeRead ==
  ASSUME IInv, NEW t \in Threads, w_active = 0,
         pc' = [pc EXCEPT ![t] = "reading"],
         r_active' = r_active + 1,
         UNCHANGED <<valid, w_active, w_wait>>,
         \/ pc[t] \in {"rcall", "rtry"} /\ r_wait' = r_wait
         \/ pc[t] = "rwoken" /\ r_wait' = r_wait - 1
  PROVE  IInv'
<1> USE DEF IInv
<1>1. Typed'  BY DEF Typed, PCs, Calling
<1>2. CountersExact'
  <2>1. Cardinality(Where(pc', {"reading"})) = Cardinality(Where(pc, {"reading"})) + 1
    <3>1. Enters(pc, pc', {"reading"}, t)  BY DEF Enters, Typed
    <3> QED  BY <3>1, CardEnter
  <2>2. Cardinality(Where(pc', {"writing"})) = Cardinality(Where(pc, {"writing"}))
    <3>1. Stays(pc, pc', {"writing"})  BY DEF Stays, Typed
    <3> QED  BY <3>1, CardSame
  <2>3. Cardinality(Where(pc', {"wwait", "wwoken"})) = Cardinality(Where(pc, {"wwait", "wwoken"}))
    <3>1. Stays(pc, pc', {"wwait", "wwoken"})  BY DEF Stays, Typed
    <3> QED  BY <3>1, CardSame
  <2>n. /\ Cardinality(Where(pc, {"reading"})) \in Nat
        /\ Cardinality(Where(pc, {"writing"})) \in Nat
    BY CountersNat
  <2>4. CASE pc[t] \in {"rcall", "rtry"}
    <3>1. Cardinality(Where(pc', {"rwait", "rwoken"})) = Cardinality(Where(pc, {"rwait", "rwoken"}))
      <4>1. Stays(pc, pc', {"rwait", "rwoken"})  BY <2>4 DEF Stays, Typed
      <4> QED  BY <4>1, CardSame
    <3> QED  BY <2>n, <2>1, <2>2, <2>3, <2>4, <3>1 DEF Typed, CountersExact, Readers, Writers, At
  <2>5. CASE pc[t] = "rwoken"
    <3>1. Cardinality(Where(pc', {"rwait", "rwoken"})) = Cardinality(Where(pc, {"rwait", "rwoken"})) - 1
      <4>1. Enters(pc', pc, {"rwait", "rwoken"}, t)  BY <2>5 DEF Enters, Typed
      <4> QED  BY <4>1, CardLeave
    <3> QED  BY <2>n, <2>1, <2>2, <2>3, <2>5, <3>1 DEF Typed, CountersExact, Readers, Writers, At
  <2> QED  BY <2>4, <2>5
<1>3. WriterAlone'  BY DEF WriterAlone
<1>4. WakeupsDue'
  <2>1. r_active' # 0
    BY CountersNat
  <2> QED  BY <2>1 DEF WakeupsDue, Typed
<1> QED  BY <1>1, <1>2, <1>3, <1>4

\* A thread that takes the write lock, at once or after a wakeup.
LEMMA TakeWrite ==
  ASSUME IInv, NEW t \in Threads, w_active = 0, ~(r_active > 0),
         pc' = [pc EXCEPT ![t] = "writing"],
         w_active' = 1,
         UNCHANGED <<valid, r_active, r_wait>>,
         \/ pc[t] \in {"wcall", "wtry"} /\ w_wait' = w_wait
         \/ pc[t] = "wwoken" /\ w_wait' = w_wait - 1
  PROVE  IInv'
<1> USE DEF IInv
<1>0. r_active \in Nat  BY CountersNat
<1>1. Typed'  BY DEF Typed, PCs, Calling
<1>2. CountersExact'
  <2>1. Cardinality(Where(pc', {"writing"})) = Cardinality(Where(pc, {"writing"})) + 1
    <3>1. Enters(pc, pc', {"writing"}, t)  BY DEF Enters, Typed
    <3> QED  BY <3>1, CardEnter
  <2>2. Cardinality(Where(pc', {"reading"})) = Cardinality(Where(pc, {"reading"}))
    <3>1. Stays(pc, pc', {"reading"})  BY DEF Stays, Typed
    <3> QED  BY <3>1, CardSame
  <2>3. Cardinality(Where(pc', {"rwait", "rwoken"})) = Cardinality(Where(pc, {"rwait", "rwoken"}))
    <3>1. Stays(pc, pc', {"rwait", "rwoken"})  BY DEF Stays, Typed
    <3> QED  BY <3>1, CardSame
  <2>n. Cardinality(Where(pc, {"writing"})) \in Nat  BY CountersNat
  <2>0. Cardinality(Where(pc, {"writing"})) = 0
    BY <2>n DEF CountersExact, Writers, At
  <2>w. Cardinality(Where(pc', {"writing"})) = w_active'
    BY <2>0, <2>1
  <2>4. CASE pc[t] \in {"wcall", "wtry"}
    <3>1. Cardinality(Where(pc', {"wwait", "wwoken"})) = Cardinality(Where(pc, {"wwait", "wwoken"}))
      <4>1. Stays(pc, pc', {"wwait", "wwoken"})  BY <2>4 DEF Stays, Typed
      <4> QED  BY <4>1, CardSame
    <3> QED  BY <2>w, <2>2, <2>3, <2>4, <3>1 DEF Typed, CountersExact, Readers, Writers, At
  <2>5. CASE pc[t] = "wwoken"
    <3>1. Cardinality(Where(pc', {"wwait", "wwoken"})) = Cardinality(Where(pc, {"wwait", "wwoken"})) - 1
      <4>1. Enters(pc', pc, {"wwait", "wwoken"}, t)  BY <2>5 DEF Enters, Typed
      <4> QED  BY <4>1, CardLeave
    <3> QED  BY <2>w, <2>2, <2>3, <2>5, <3>1 DEF Typed, CountersExact, Readers, Writers, At
  <2> QED  BY <2>4, <2>5
<1>3. WriterAlone'  BY <1>0 DEF WriterAlone
<1>4. WakeupsDue'  BY DEF WakeupsDue, Typed
<1> QED  BY <1>1, <1>2, <1>3, <1>4

\* A thread that starts to wait because the lock is taken.
LEMMA StartWait ==
  ASSUME IInv, NEW t \in Threads, pc[t] \in {"rcall", "wcall"},
         UNCHANGED <<valid, r_active, w_active>>,
         \/ /\ w_active # 0
            /\ pc' = [pc EXCEPT ![t] = "rwait"]
            /\ r_wait' = r_wait + 1 /\ w_wait' = w_wait
         \/ /\ w_active # 0 \/ r_active > 0
            /\ pc' = [pc EXCEPT ![t] = "wwait"]
            /\ w_wait' = w_wait + 1 /\ r_wait' = r_wait
  PROVE  IInv'
<1> USE DEF IInv
<1>1. Typed'  BY DEF Typed, PCs, Calling
<1>2. CountersExact'
  <2>1. Cardinality(Where(pc', {"writing"})) = Cardinality(Where(pc, {"writing"}))
    <3>1. Stays(pc, pc', {"writing"})  BY DEF Stays, Typed
    <3> QED  BY <3>1, CardSame
  <2>2. Cardinality(Where(pc', {"reading"})) = Cardinality(Where(pc, {"reading"}))
    <3>1. Stays(pc, pc', {"reading"})  BY DEF Stays, Typed
    <3> QED  BY <3>1, CardSame
  <2>3. CASE pc' = [pc EXCEPT ![t] = "rwait"] /\ r_wait' = r_wait + 1 /\ w_wait' = w_wait
    <3>1. Cardinality(Where(pc', {"rwait", "rwoken"})) = Cardinality(Where(pc, {"rwait", "rwoken"})) + 1
      <4>1. Enters(pc, pc', {"rwait", "rwoken"}, t)  BY <2>3 DEF Enters, Typed
      <4> QED  BY <4>1, CardEnter
    <3>2. Cardinality(Where(pc', {"wwait", "wwoken"})) = Cardinality(Where(pc, {"wwait", "wwoken"}))
      <4>1. Stays(pc, pc', {"wwait", "wwoken"})  BY <2>3 DEF Stays, Typed
      <4> QED  BY <4>1, CardSame
    <3> QED  BY <2>1, <2>2, <2>3, <3>1, <3>2 DEF Typed, CountersExact, Readers, Writers, At
  <2>4. CASE pc' = [pc EXCEPT ![t] = "wwait"] /\ w_wait' = w_wait + 1 /\ r_wait' = r_wait
    <3>1. Cardinality(Where(pc', {"wwait", "wwoken"})) = Cardinality(Where(pc, {"wwait", "wwoken"})) + 1
      <4>1. Enters(pc, pc', {"wwait", "wwoken"}, t)  BY <2>4 DEF Enters, Typed
      <4> QED  BY <4>1, CardEnter
    <3>2. Cardinality(Where(pc', {"rwait", "rwoken"})) = Cardinality(Where(pc, {"rwait", "rwoken"}))
      <4>1. Stays(pc, pc', {"rwait", "rwoken"})  BY <2>4 DEF Stays, Typed
      <4> QED  BY <4>1, CardSame
    <3> QED  BY <2>1, <2>2, <2>4, <3>1, <3>2 DEF Typed, CountersExact, Readers, Writers, At
  <2> QED  BY <2>3, <2>4
<1>3. WriterAlone'  BY DEF WriterAlone
<1>4. WakeupsDue'  BY DEF WakeupsDue, Typed
<1> QED  BY <1>1, <1>2, <1>3, <1>4

\* A thread that moves between blocked and woken on one condition variable:
\* a spurious wakeup, or a woken thread that finds the lock taken again.
LEMMA WaitAgain ==
  ASSUME IInv, NEW t \in Threads,
         UNCHANGED <<valid, r_active, w_active, r_wait, w_wait>>,
         \/ pc[t] = "rwait" /\ pc' = [pc EXCEPT ![t] = "rwoken"]
         \/ pc[t] = "wwait" /\ pc' = [pc EXCEPT ![t] = "wwoken"]
         \/ pc[t] = "rwoken" /\ w_active # 0 /\ pc' = [pc EXCEPT ![t] = "rwait"]
         \/ /\ pc[t] = "wwoken" /\ (w_active # 0 \/ r_active > 0)
            /\ pc' = [pc EXCEPT ![t] = "wwait"]
  PROVE  IInv'
<1> USE DEF IInv
<1>1. Typed'  BY DEF Typed, PCs, Calling
<1>2. CountersExact'
  <2>1. Cardinality(Where(pc', {"writing"})) = Cardinality(Where(pc, {"writing"}))
    <3>1. Stays(pc, pc', {"writing"})  BY DEF Stays, Typed
    <3> QED  BY <3>1, CardSame
  <2>2. Cardinality(Where(pc', {"reading"})) = Cardinality(Where(pc, {"reading"}))
    <3>1. Stays(pc, pc', {"reading"})  BY DEF Stays, Typed
    <3> QED  BY <3>1, CardSame
  <2>3. Cardinality(Where(pc', {"rwait", "rwoken"})) = Cardinality(Where(pc, {"rwait", "rwoken"}))
    <3>1. Stays(pc, pc', {"rwait", "rwoken"})  BY DEF Stays, Typed
    <3> QED  BY <3>1, CardSame
  <2>4. Cardinality(Where(pc', {"wwait", "wwoken"})) = Cardinality(Where(pc, {"wwait", "wwoken"}))
    <3>1. Stays(pc, pc', {"wwait", "wwoken"})  BY DEF Stays, Typed
    <3> QED  BY <3>1, CardSame
  <2> QED  BY <2>1, <2>2, <2>3, <2>4 DEF Typed, CountersExact, Readers, Writers, At
<1>3. WriterAlone'  BY DEF WriterAlone
<1>4. WakeupsDue'  BY DEF WakeupsDue, Typed
<1> QED  BY <1>1, <1>2, <1>3, <1>4

\* What pthread_cond_broadcast does to the program counters.
LEMMA BroadcastReadEffect ==
  ASSUME NEW p \in [Threads -> PCs]
  PROVE  /\ BroadcastRead(p) \in [Threads -> PCs]
         /\ \A u \in Threads :
              BroadcastRead(p)[u] = IF p[u] = "rwait" THEN "rwoken" ELSE p[u]
BY DEF BroadcastRead, PCs, Calling

\* rwl_readunlock keeps the invariant: the last reader out signals a writer.
LEMMA ReadUnlockStep ==
  ASSUME IInv, NEW t \in Threads, rwl_readunlock(t)
  PROVE  IInv'
<1> USE DEF IInv
<1> DEFINE p == [pc EXCEPT ![t] = "idle"]
<1>1. /\ pc[t] = "reading" /\ valid /\ r_active' = r_active - 1
      /\ UNCHANGED <<valid, w_active, r_wait, w_wait>>
      /\ r_active' = 0 /\ w_wait > 0 => pc' \in SignalWrite(p)
      /\ ~(r_active' = 0 /\ w_wait > 0) => pc' = p
  BY DEF rwl_readunlock
<1>2. p \in [Threads -> PCs] /\ p[t] = "idle" /\ \A u \in Threads \ {t} : p[u] = pc[u]
  BY DEF Typed, PCs, Calling
<1> HIDE DEF p
<1>3. /\ pc' \in [Threads -> PCs]
      /\ \A u \in Threads : \/ pc'[u] = p[u]
                            \/ p[u] = "wwait" /\ pc'[u] = "wwoken"
      /\ (r_active' = 0 /\ w_wait > 0 /\ \E u \in Threads : p[u] = "wwait")
            => \E u \in Threads : pc'[u] = "wwoken"
  <2>1. CASE r_active' = 0 /\ w_wait > 0  BY <2>1, <1>1, <1>2, SignalWriteEffect
  <2>2. CASE ~(r_active' = 0 /\ w_wait > 0)  BY <2>2, <1>1, <1>2
  <2> QED  BY <2>1, <2>2
<1>4. Typed'  BY <1>1, <1>3 DEF Typed
<1>5. CountersExact'
  <2>1. Cardinality(Where(pc', {"reading"})) = Cardinality(Where(pc, {"reading"})) - 1
    <3>1. Enters(pc', pc, {"reading"}, t)  BY <1>1, <1>2, <1>3 DEF Enters
    <3> QED  BY <3>1, CardLeave
  <2>2. Cardinality(Where(pc', {"writing"})) = Cardinality(Where(pc, {"writing"}))
    <3>1. Stays(pc, pc', {"writing"})  BY <1>1, <1>2, <1>3 DEF Stays
    <3> QED  BY <3>1, CardSame
  <2>3. Cardinality(Where(pc', {"rwait", "rwoken"})) = Cardinality(Where(pc, {"rwait", "rwoken"}))
    <3>1. Stays(pc, pc', {"rwait", "rwoken"})  BY <1>1, <1>2, <1>3 DEF Stays
    <3> QED  BY <3>1, CardSame
  <2>4. Cardinality(Where(pc', {"wwait", "wwoken"})) = Cardinality(Where(pc, {"wwait", "wwoken"}))
    <3>1. Stays(pc, pc', {"wwait", "wwoken"})  BY <1>1, <1>2, <1>3 DEF Stays
    <3> QED  BY <3>1, CardSame
  <2> QED  BY <1>1, <2>1, <2>2, <2>3, <2>4 DEF Typed, CountersExact, Readers, Writers, At
<1>6. w_active = 0
  <2>1. r_active # 0
    BY <1>1, CardZero DEF CountersExact, Readers, At
  <2> QED  BY <2>1 DEF Typed, WriterAlone
<1>7. WriterAlone'  BY <1>1, <1>6 DEF WriterAlone
<1>8. WakeupsDue'
  <2>1. \A u \in Threads : pc'[u] # "rwait"
    BY <1>1, <1>2, <1>3, <1>6 DEF WakeupsDue
  <2>2. ASSUME NEW v \in Threads, pc'[v] = "wwait", r_active' = 0
        PROVE  \E u \in Threads : pc'[u] = "wwoken"
    <3>1. p[v] = "wwait" /\ pc[v] = "wwait"  BY <2>2, <1>2, <1>3
    <3>2. w_wait # 0  BY <3>1, CardZero DEF CountersExact, At
    <3>3. w_wait \in Nat  BY WhereFinite DEF CountersExact, At
    <3> QED  BY <2>2, <3>1, <3>2, <3>3, <1>3
  <2> QED  BY <2>1, <2>2 DEF WakeupsDue
<1> QED  BY <1>4, <1>5, <1>7, <1>8

\* rwl_writeunlock keeps the invariant: it wakes every blocked reader, or,
\* when no reader is counted, one blocked writer.
LEMMA WriteUnlockStep ==
  ASSUME IInv, NEW t \in Threads, rwl_writeunlock(t)
  PROVE  IInv'
<1> USE DEF IInv
<1> DEFINE p == [pc EXCEPT ![t] = "idle"]
<1>1. /\ pc[t] = "writing" /\ valid /\ w_active' = 0
      /\ UNCHANGED <<valid, r_active, r_wait, w_wait>>
      /\ r_wait > 0 => pc' = BroadcastRead(p)
      /\ ~(r_wait > 0) /\ w_wait > 0 => pc' \in SignalWrite(p)
      /\ ~(r_wait > 0) /\ ~(w_wait > 0) => pc' = p
  BY DEF rwl_writeunlock, WakeAfterWrite
<1>2. p \in [Threads -> PCs] /\ p[t] = "idle" /\ \A u \in Threads \ {t} : p[u] = pc[u]
  BY DEF Typed, PCs, Calling
<1> HIDE DEF p
<1>n. r_active \in Nat /\ r_wait \in Nat /\ w_wait \in Nat
  BY CountersNat
<1>3. /\ pc' \in [Threads -> PCs]
      /\ \A u \in Threads : \/ pc'[u] = p[u]
                            \/ p[u] = "wwait" /\ pc'[u] = "wwoken"
                            \/ p[u] = "rwait" /\ pc'[u] = "rwoken"
      /\ r_wait > 0 => \A u \in Threads : pc'[u] # "rwait"
      /\ (~(r_wait > 0) /\ w_wait > 0 /\ \E u \in Threads : p[u] = "wwait")
            => \E u \in Threads : pc'[u] = "wwoken"
  <2>1. CASE r_wait > 0  BY <2>1, <1>1, <1>2, BroadcastReadEffect
  <2>2. CASE ~(r_wait > 0) /\ w_wait > 0  BY <2>2, <1>1, <1>2, SignalWriteEffect
  <2>3. CASE ~(r_wait > 0) /\ ~(w_wait > 0)  BY <2>3, <1>1, <1>2
  <2> QED  BY <2>1, <2>2, <2>3
<1>4. Typed'  BY <1>1, <1>3 DEF Typed
<1>5. CountersExact'
  <2>1. Cardinality(Where(pc', {"writing"})) = Cardinality(Where(pc, {"writing"})) - 1
    <3>1. Enters(pc', pc, {"writing"}, t)  BY <1>1, <1>2, <1>3 DEF Enters
    <3> QED  BY <3>1, CardLeave
  <2>2. Cardinality(Where(pc', {"reading"})) = Cardinality(Where(pc, {"reading"}))
    <3>1. Stays(pc, pc', {"reading"})  BY <1>1, <1>2, <1>3 DEF Stays
    <3> QED  BY <3>1, CardSame
  <2>3. Cardinality(Where(pc', {"rwait", "rwoken"})) = Cardinality(Where(pc, {"rwait", "rwoken"}))
    <3>1. Stays(pc, pc', {"rwait", "rwoken"})  BY <1>1, <1>2, <1>3 DEF Stays
    <3> QED  BY <3>1, CardSame
  <2>4. Cardinality(Where(pc', {"wwait", "wwoken"})) = Cardinality(Where(pc, {"wwait", "wwoken"}))
    <3>1. Stays(pc, pc', {"wwait", "wwoken"})  BY <1>1, <1>2, <1>3 DEF Stays
    <3> QED  BY <3>1, CardSame
  <2>5. w_active = 1
    BY <1>1, CardZero DEF Typed, CountersExact, Writers, At
  <2>6. Cardinality(Where(pc, {"writing"})) = 1
    BY <1>1, <2>5 DEF CountersExact, Writers, At
  <2>7. Cardinality(Where(pc', {"writing"})) = w_active'
    BY <1>1, <2>1, <2>6
  <2> QED  BY <1>1, <2>7, <2>2, <2>3, <2>4 DEF Typed, CountersExact, Readers, Writers, At
<1>7. WriterAlone'  BY <1>1 DEF WriterAlone
<1>8. WakeupsDue'
  <2>1. \A u \in Threads : pc'[u] # "rwait"
    <3>1. CASE r_wait > 0  BY <3>1, <1>3
    <3>2. CASE ~(r_wait > 0)
      <4>1. r_wait = 0  BY <3>2, <1>n
      <4>2. \A u \in Threads : pc[u] \notin {"rwait", "rwoken"}
        BY <4>1, CardZero DEF CountersExact, At
      <4> QED  BY <4>2, <1>2, <1>3
    <3> QED  BY <3>1, <3>2
  <2>2. ASSUME NEW v \in Threads, pc'[v] = "wwait"
        PROVE  \E u \in Threads : pc'[u] \in {"rwoken", "wwoken"}
    <3>1. p[v] = "wwait" /\ pc[v] = "wwait"  BY <2>2, <1>2, <1>3
    <3>2. w_wait # 0  BY <3>1, CardZero DEF CountersExact, At
    <3>3. CASE ~(r_wait > 0)  BY <3>1, <3>2, <3>3, <1>n, <1>3
    <3>4. CASE r_wait > 0
      <4>1. r_wait # 0  BY <3>4, <1>n
      <4>2. PICK u \in Threads : pc[u] \in {"rwait", "rwoken"}
        BY <4>1, CardZero DEF CountersExact, At
      <4>3. pc'[u] \in {"rwait", "rwoken"}  BY <4>2, <1>1, <1>2, <1>3
      <4> QED  BY <4>3, <2>1
    <3> QED  BY <3>3, <3>4
  <2> QED  BY <2>1, <2>2 DEF WakeupsDue
<1> QED  BY <1>4, <1>5, <1>7, <1>8

\* A thread that asks, or goes away from a destroyed or busy lock with
\* nothing in its hands: nobody holds or awaits the lock who did not before.
LEMMA OutsideStep ==
  ASSUME IInv, NEW t \in Threads, pc[t] \in {"idle"} \cup Calling,
         NEW s \in {"idle"} \cup Calling, pc' = [pc EXCEPT ![t] = s],
         UNCHANGED <<valid, r_active, w_active, r_wait, w_wait>>
  PROVE  IInv'
<1> USE DEF IInv, Calling
<1>1. Typed'  BY DEF Typed, PCs
<1>2. CountersExact'
  <2>1. Cardinality(Where(pc', {"writing"})) = Cardinality(Where(pc, {"writing"}))
    <3>1. Stays(pc, pc', {"writing"})  BY DEF Stays, Typed
    <3> QED  BY <3>1, CardSame
  <2>2. Cardinality(Where(pc', {"reading"})) = Cardinality(Where(pc, {"reading"}))
    <3>1. Stays(pc, pc', {"reading"})  BY DEF Stays, Typed
    <3> QED  BY <3>1, CardSame
  <2>3. Cardinality(Where(pc', {"rwait", "rwoken"})) = Cardinality(Where(pc, {"rwait", "rwoken"}))
    <3>1. Stays(pc, pc', {"rwait", "rwoken"})  BY DEF Stays, Typed
    <3> QED  BY <3>1, CardSame
  <2>4. Cardinality(Where(pc', {"wwait", "wwoken"})) = Cardinality(Where(pc, {"wwait", "wwoken"}))
    <3>1. Stays(pc, pc', {"wwait", "wwoken"})  BY DEF Stays, Typed
    <3> QED  BY <3>1, CardSame
  <2> QED  BY <2>1, <2>2, <2>3, <2>4 DEF Typed, CountersExact, Readers, Writers, At
<1>3. WriterAlone'  BY DEF WriterAlone
<1>4. WakeupsDue'  BY DEF WakeupsDue, Typed
<1> QED  BY <1>1, <1>2, <1>3, <1>4

\* A thread that gives a destroyed lock back stays counted.
LEMMA UnlockInvalidStep ==
  ASSUME IInv, NEW t \in Threads, UnlockInvalid(t)
  PROVE  IInv'
<1> USE DEF IInv, UnlockInvalid
<1>1. Typed'  BY DEF Typed, PCs
<1>2. CountersExact'
  <2>1. Cardinality(Where(pc', {"rwait", "rwoken"})) = Cardinality(Where(pc, {"rwait", "rwoken"}))
    <3>1. Stays(pc, pc', {"rwait", "rwoken"})  BY DEF Stays, Typed
    <3> QED  BY <3>1, CardSame
  <2>2. Cardinality(Where(pc', {"wwait", "wwoken"})) = Cardinality(Where(pc, {"wwait", "wwoken"}))
    <3>1. Stays(pc, pc', {"wwait", "wwoken"})  BY DEF Stays, Typed
    <3> QED  BY <3>1, CardSame
  <2>3. ASSUME NEW h \in {"reading", "writing"}
        PROVE  Cardinality(Where(pc', {h})) <= Cardinality(Where(pc, {h}))
    <3>1. CASE pc[t] = h
      <4>1. Enters(pc', pc, {h}, t)  BY <3>1, <2>3 DEF Enters, Typed
      <4> QED  BY <4>1, CardLeave, WhereFinite
    <3>2. CASE pc[t] # h
      <4>1. Stays(pc, pc', {h})  BY <3>2, <2>3 DEF Stays, Typed
      <4> QED  BY <4>1, CardSame, WhereFinite
    <3> QED  BY <3>1, <3>2
  <2>4. /\ Cardinality(Where(pc', {"reading"})) <= Cardinality(Where(pc, {"reading"}))
        /\ Cardinality(Where(pc', {"writing"})) <= Cardinality(Where(pc, {"writing"}))
    BY <2>3
  <2>n. /\ Cardinality(Where(pc', {"reading"})) \in Nat
        /\ Cardinality(Where(pc, {"reading"})) \in Nat
        /\ Cardinality(Where(pc', {"writing"})) \in Nat
        /\ Cardinality(Where(pc, {"writing"})) \in Nat
    BY WhereFinite
  <2> QED  BY <2>1, <2>2, <2>4, <2>n DEF Typed, CountersExact, Readers, Writers, At
<1>3. WriterAlone'  BY DEF WriterAlone
<1>4. WakeupsDue'  BY DEF WakeupsDue
<1> QED  BY <1>1, <1>2, <1>3, <1>4

\* A woken waiter that cannot take the mutex of a destroyed lock again takes
\* itself off its counter.
LEMMA WokenMutexGone ==
  ASSUME IInv, NEW t \in Threads, MutexGone(t), pc[t] \in {"rwoken", "wwoken"}
  PROVE  IInv'
<1> USE DEF IInv, MutexGone
<1>1. Typed'  BY DEF Typed, PCs
<1>2. CountersExact'
  <2>1. Cardinality(Where(pc', {"writing"})) = Cardinality(Where(pc, {"writing"}))
    <3>1. Stays(pc, pc', {"writing"})  BY DEF Stays, Typed
    <3> QED  BY <3>1, CardSame
  <2>2. Cardinality(Where(pc', {"reading"})) = Cardinality(Where(pc, {"reading"}))
    <3>1. Stays(pc, pc', {"reading"})  BY DEF Stays, Typed
    <3> QED  BY <3>1, CardSame
  <2>3. CASE pc[t] = "rwoken"
    <3>1. Cardinality(Where(pc', {"rwait", "rwoken"})) = Cardinality(Where(pc, {"rwait", "rwoken"})) - 1
      <4>1. Enters(pc', pc, {"rwait", "rwoken"}, t)  BY <2>3 DEF Enters, Typed
      <4> QED  BY <4>1, CardLeave
    <3>2. Cardinality(Where(pc', {"wwait", "wwoken"})) = Cardinality(Where(pc, {"wwait", "wwoken"}))
      <4>1. Stays(pc, pc', {"wwait", "wwoken"})  BY <2>3 DEF Stays, Typed
      <4> QED  BY <4>1, CardSame
    <3> QED  BY <2>1, <2>2, <2>3, <3>1, <3>2 DEF Typed, CountersExact, Readers, Writers, At
  <2>4. CASE pc[t] = "wwoken"
    <3>1. Cardinality(Where(pc', {"wwait", "wwoken"})) = Cardinality(Where(pc, {"wwait", "wwoken"})) - 1
      <4>1. Enters(pc', pc, {"wwait", "wwoken"}, t)  BY <2>4 DEF Enters, Typed
      <4> QED  BY <4>1, CardLeave
    <3>2. Cardinality(Where(pc', {"rwait", "rwoken"})) = Cardinality(Where(pc, {"rwait", "rwoken"}))
      <4>1. Stays(pc, pc', {"rwait", "rwoken"})  BY <2>4 DEF Stays, Typed
      <4> QED  BY <4>1, CardSame
    <3> QED  BY <2>1, <2>2, <2>4, <3>1, <3>2 DEF Typed, CountersExact, Readers, Writers, At
  <2> QED  BY <2>3, <2>4
<1>3. WriterAlone'  BY DEF WriterAlone
<1>4. WakeupsDue'  BY DEF WakeupsDue
<1> QED  BY <1>1, <1>2, <1>3, <1>4

\* Every step keeps the invariant.
LEMMA NextIInv == IInv /\ [Next]_vars => IInv'
<1> SUFFICES ASSUME IInv, [Next]_vars PROVE IInv'  OBVIOUS
<1>t. w_active \in {0, 1}  BY DEF IInv, Typed
<1>1. ASSUME NEW t \in Threads, rwl_readlock(t) PROVE IInv'
  <2>1. CASE w_active # 0
    BY <1>1, <2>1, StartWait DEF rwl_readlock, ReadBusy
  <2>2. CASE w_active = 0
    BY <1>1, <2>2, TakeRead DEF rwl_readlock, ReadBusy
  <2> QED  BY <2>1, <2>2
<1>2. ASSUME NEW t \in Threads, rwl_readtrylock(t) PROVE IInv'
  <2>1. CASE w_active # 0
    BY <1>2, <2>1, OutsideStep DEF rwl_readtrylock, ReadBusy, Calling
  <2>2. CASE w_active = 0
    BY <1>2, <2>2, TakeRead DEF rwl_readtrylock, ReadBusy
  <2> QED  BY <2>1, <2>2
<1>3. ASSUME NEW t \in Threads, rwl_writelock(t) PROVE IInv'
  <2>1. CASE w_active # 0 \/ r_active > 0
    BY <1>3, <2>1, StartWait DEF rwl_writelock, WriteBusy
  <2>2. CASE ~(w_active # 0 \/ r_active > 0)
    BY <1>3, <2>2, TakeWrite DEF rwl_writelock, WriteBusy
  <2> QED  BY <2>1, <2>2
<1>4. ASSUME NEW t \in Threads, rwl_writetrylock(t) PROVE IInv'
  <2>1. CASE w_active # 0 \/ r_active > 0
    BY <1>4, <2>1, OutsideStep DEF rwl_writetrylock, WriteBusy, Calling
  <2>2. CASE ~(w_active # 0 \/ r_active > 0)
    BY <1>4, <2>2, TakeWrite DEF rwl_writetrylock, WriteBusy
  <2> QED  BY <2>1, <2>2
<1>5. ASSUME NEW t \in Threads, ReadWoken(t) PROVE IInv'
  <2>1. CASE w_active # 0
    BY <1>5, <2>1, WaitAgain DEF ReadWoken, ReadBusy
  <2>2. CASE w_active = 0
    BY <1>5, <2>2, TakeRead DEF ReadWoken, ReadBusy
  <2> QED  BY <2>1, <2>2
<1>6. ASSUME NEW t \in Threads, WriteWoken(t) PROVE IInv'
  <2>1. CASE w_active # 0 \/ r_active > 0
    BY <1>6, <2>1, WaitAgain DEF WriteWoken, WriteBusy
  <2>2. CASE ~(w_active # 0 \/ r_active > 0)
    BY <1>6, <2>2, TakeWrite DEF WriteWoken, WriteBusy
  <2> QED  BY <2>1, <2>2
<1>7. ASSUME NEW t \in Threads, SpuriousWakeup(t) PROVE IInv'
  BY <1>7, WaitAgain DEF SpuriousWakeup
<1>8. ASSUME rwl_destroy PROVE IInv'
  BY <1>8 DEF IInv, rwl_destroy, Typed, CountersExact, WriterAlone, WakeupsDue,
              Readers, Writers, At
<1>9. CASE UNCHANGED vars
  BY <1>9 DEF vars, IInv, Typed, CountersExact, WriterAlone, WakeupsDue,
              Readers, Writers, At
<1>10. ASSUME NEW t \in Threads, Request(t) PROVE IInv'
  <2>1. PICK place \in Calling : Call(t, place)  BY <1>10 DEF Request
  <2> QED  BY <2>1, OutsideStep DEF Call
<1>11. ASSUME NEW t \in Threads, MutexGone(t) PROVE IInv'
  <2>1. CASE pc[t] \in Calling
    BY <1>11, <2>1, OutsideStep DEF MutexGone, Calling
  <2>2. CASE pc[t] \in {"rwoken", "wwoken"}
    BY <1>11, <2>2, WokenMutexGone
  <2> QED  BY <1>11, <2>1, <2>2 DEF MutexGone
<1> QED
  BY <1>1, <1>2, <1>3, <1>4, <1>5, <1>6, <1>7, <1>8, <1>9, <1>10, <1>11,
     ReadUnlockStep, WriteUnlockStep, UnlockInvalidStep
     DEF Next, Enter, Woken, Unlock

\* The invariant gives the type invariant and the safety properties.
LEMMA IInvSafe ==
  IInv => TypeOK /\ ReadersWriterExclusion /\ CountersExact /\ NoLostWakeup
<1> SUFFICES ASSUME IInv
             PROVE  /\ TypeOK /\ ReadersWriterExclusion
                    /\ CountersExact /\ NoLostWakeup
  OBVIOUS
<1> USE DEF IInv
<1>n. /\ IsFiniteSet(Readers) /\ Cardinality(Readers) \in Nat
      /\ IsFiniteSet(Writers) /\ Cardinality(Writers) \in Nat
  BY WhereFinite DEF Readers, Writers, At
<1>1. TypeOK
  <2>1. r_active \in Nat  BY <1>n DEF CountersExact, Typed
  <2>2. r_wait \in Nat /\ w_wait \in Nat
    BY WhereFinite DEF CountersExact, At
  <2> QED  BY <2>1, <2>2 DEF TypeOK, Typed
<1>2. ReadersWriterExclusion
  <2>1. Cardinality(Writers) <= 1  BY <1>n DEF CountersExact, Typed
  <2>2. ASSUME Writers # {} PROVE Readers = {}
    <3>1. Cardinality(Writers) # 0  BY <2>2, <1>n, FS_EmptySet
    <3>2. w_active = 1  BY <3>1, <1>n DEF CountersExact, Typed
    <3>3. Cardinality(Readers) = 0
      BY <3>2, <1>n DEF CountersExact, Typed, WriterAlone
    <3> QED  BY <3>3, <1>n, FS_EmptySet
  <2> QED  BY <2>1, <2>2 DEF ReadersWriterExclusion
<1>3. NoLostWakeup
  <2> SUFFICES ASSUME valid PROVE NoLostWakeup  BY DEF NoLostWakeup
  <2>1. Readers = {} => r_active = 0
    BY FS_EmptySet DEF CountersExact
  <2>2. Writers = {} => w_active = 0
    BY FS_EmptySet DEF CountersExact
  <2> QED  BY <2>1, <2>2 DEF WakeupsDue, NoLostWakeup, At, Where
<1> QED  BY <1>1, <1>2, <1>3

\* rwl_destroy answers EBUSY whenever a thread holds or awaits the lock.
LEMMA DestroyStep ==
  IInv /\ [Next]_vars =>
    [valid /\ ~valid' => \A t \in Threads : pc[t] \in {"idle"} \cup Calling]_vars
<1> SUFFICES ASSUME IInv, Next, valid, ~valid'
             PROVE  \A t \in Threads : pc[t] \in {"idle"} \cup Calling
  OBVIOUS
<1>1. rwl_destroy
  BY DEF Next, Request, Call, Enter, Woken, Unlock, MutexGone, SpuriousWakeup,
         rwl_readlock, rwl_readtrylock, rwl_writelock, rwl_writetrylock,
         ReadWoken, WriteWoken, rwl_readunlock, rwl_writeunlock, UnlockInvalid
<1> USE <1>1 DEF IInv, rwl_destroy
<1>n. r_active \in Nat  BY IInvSafe DEF TypeOK
<1>0. r_active = 0 /\ w_active = 0 /\ r_wait = 0 /\ w_wait = 0  BY <1>n
<1>1a. \A u \in Threads : pc[u] \notin {"reading"}
  BY <1>0, CardZero DEF CountersExact, Readers, At
<1>2. \A u \in Threads : pc[u] \notin {"writing"}
  BY <1>0, CardZero DEF CountersExact, Writers, At
<1>3. \A u \in Threads : pc[u] \notin {"rwait", "rwoken"}
  BY <1>0, CardZero DEF CountersExact, At
<1>4. \A u \in Threads : pc[u] \notin {"wwait", "wwoken"}
  BY <1>0, CardZero DEF CountersExact, At
<1> QED  BY <1>1a, <1>2, <1>3, <1>4 DEF Typed, PCs

\* The inductive invariant holds in every reachable state.
THEOREM SpecIInv == Spec => []IInv
BY InitIInv, NextIInv, PTL DEF Spec

\* The lock keeps its types; no counter of rwlock_t goes negative.
THEOREM TypeCorrect == Spec => []TypeOK
BY SpecIInv, IInvSafe, PTL

\* Readers share, a writer is alone: rwl_readlock, rwl_writelock, the
\* trylocks and the unlocks, for any number of threads.
THEOREM Exclusion == Spec => []ReadersWriterExclusion
BY SpecIInv, IInvSafe, PTL

\* r_active, w_active, r_wait and w_wait count what they are meant to; on a
\* destroyed lock the first two may be too large, never too small.
THEOREM ExactCounters == Spec => []CountersExact
BY SpecIInv, IInvSafe, PTL

\* No wakeup of rwl_readunlock or rwl_writeunlock is lost.
THEOREM WakeupsSuffice == Spec => []NoLostWakeup
BY SpecIInv, IInvSafe, PTL

\* rwl_destroy never takes the lock from a thread that holds it or waits for
\* it; whoever is inside afterwards passed the test of rwl->valid before.
THEOREM DestroySafe == Spec => DestroyedUnused
BY SpecIInv, DestroyStep, PTL DEF Spec, DestroyedUnused
----------------------------------------------------------------------------
(* Refinement.                                                             *)

\* Every step of the lock is a step of the abstract lock or changes nobody's
\* hold on it.
LEMMA NextRefines == IInv /\ [Next]_vars => [Abs!Next]_(Abs!avars)
<1> SUFFICES ASSUME IInv, [Next]_vars PROVE [Abs!Next]_(Abs!avars)  OBVIOUS
<1>0. ReadersWriterExclusion /\ CountersExact /\ pc \in [Threads -> PCs]
  BY IInvSafe DEF IInv, Typed
<1>r. r_active \in Nat  BY IInvSafe DEF TypeOK
<1>e. (w_active = 0 => Writers = {}) /\ (r_active = 0 => Readers = {})
  <2>1. IsFiniteSet(Readers) /\ IsFiniteSet(Writers)
    BY WhereFinite DEF Readers, Writers, At
  <2>2. Cardinality(Readers) \in Nat /\ Cardinality(Writers) \in Nat
    BY WhereFinite DEF Readers, Writers, At
  <2> QED  BY <1>0, <1>r, <2>1, <2>2, FS_EmptySet DEF CountersExact
<1> USE DEF Readers, Writers, At, Where, Abs!Next, Abs!avars
<1>1. ASSUME NEW t \in Threads, w_active = 0, pc[t] \in {"rcall", "rtry", "rwoken"},
             pc' = [pc EXCEPT ![t] = "reading"]
      PROVE  Abs!AcquireRead(t)
  BY <1>0, <1>1, <1>e DEF Abs!AcquireRead
<1>2. ASSUME NEW t \in Threads, w_active = 0, ~(r_active > 0),
             pc[t] \in {"wcall", "wtry", "wwoken"}, pc' = [pc EXCEPT ![t] = "writing"]
      PROVE  Abs!AcquireWrite(t)
  BY <1>0, <1>2, <1>e, <1>r DEF Abs!AcquireWrite
<1>3. ASSUME NEW t \in Threads, rwl_readunlock(t)
      PROVE  Abs!ReleaseRead(t)
  <2> DEFINE p == [pc EXCEPT ![t] = "idle"]
  <2>1. pc[t] = "reading" /\ (pc' \in SignalWrite(p) \/ pc' = p)
    BY <1>3 DEF rwl_readunlock
  <2>2. p \in [Threads -> PCs]  BY <1>0 DEF PCs, Calling
  <2>3. \A u \in Threads : \/ pc'[u] = p[u]
                           \/ p[u] = "wwait" /\ pc'[u] = "wwoken"
    BY <2>1, <2>2, SignalWriteEffect
  <2> QED  BY <1>0, <2>1, <2>3 DEF Abs!ReleaseRead
<1>4. ASSUME NEW t \in Threads, rwl_writeunlock(t)
      PROVE  Abs!ReleaseWrite(t)
  <2> DEFINE p == [pc EXCEPT ![t] = "idle"]
  <2>1. /\ pc[t] = "writing"
        /\ pc' \in SignalWrite(p) \/ pc' = BroadcastRead(p) \/ pc' = p
    BY <1>4 DEF rwl_writeunlock, WakeAfterWrite
  <2>2. p \in [Threads -> PCs]  BY <1>0 DEF PCs, Calling
  <2>3. \A u \in Threads : \/ pc'[u] = p[u]
                           \/ p[u] = "wwait" /\ pc'[u] = "wwoken"
                           \/ p[u] = "rwait" /\ pc'[u] = "rwoken"
    <3> HIDE DEF p
    <3>1. CASE pc' \in SignalWrite(p)  BY <3>1, <2>2, SignalWriteEffect
    <3>2. CASE pc' = BroadcastRead(p)  BY <3>2, <2>2, BroadcastReadEffect
    <3>3. CASE pc' = p  BY <3>3
    <3> QED  BY <2>1, <3>1, <3>2, <3>3
  <2> QED  BY <1>0, <2>1, <2>3 DEF Abs!ReleaseWrite
<1>5. ASSUME NEW t \in Threads, pc[t] \in PCs \ {"reading", "writing"},
             NEW s \in PCs \ {"reading", "writing"}, pc' = [pc EXCEPT ![t] = s]
      PROVE  UNCHANGED Abs!avars
  BY <1>0, <1>5
<1>6. ASSUME NEW t \in Threads, rwl_readlock(t) \/ rwl_readtrylock(t) \/ ReadWoken(t)
      PROVE  [Abs!Next]_(Abs!avars)
  <2>1. CASE w_active = 0
    BY <1>1, <1>6, <2>1 DEF rwl_readlock, rwl_readtrylock, ReadWoken, ReadBusy
  <2>2. CASE w_active # 0
    <3>1. /\ pc[t] \in {"rcall", "rtry", "rwoken"}
          /\ \/ pc' = [pc EXCEPT ![t] = "rwait"]
             \/ pc' = [pc EXCEPT ![t] = "idle"]
      BY <1>6, <2>2 DEF rwl_readlock, rwl_readtrylock, ReadWoken, ReadBusy
    <3> QED  BY <1>5, <3>1 DEF PCs, Calling
  <2> QED  BY <2>1, <2>2
<1>7. ASSUME NEW t \in Threads, rwl_writelock(t) \/ rwl_writetrylock(t) \/ WriteWoken(t)
      PROVE  [Abs!Next]_(Abs!avars)
  <2>1. CASE w_active = 0 /\ ~(r_active > 0)
    <3>1. /\ pc[t] \in {"wcall", "wtry", "wwoken"}
          /\ pc' = [pc EXCEPT ![t] = "writing"]
      BY <1>7, <2>1 DEF rwl_writelock, rwl_writetrylock, WriteWoken, WriteBusy
    <3>2. Abs!AcquireWrite(t)  BY <1>2, <2>1, <3>1
    <3> QED  BY <3>2
  <2>2. CASE ~(w_active = 0 /\ ~(r_active > 0))
    <3>1. /\ pc[t] \in {"wcall", "wtry", "wwoken"}
          /\ \/ pc' = [pc EXCEPT ![t] = "wwait"]
             \/ pc' = [pc EXCEPT ![t] = "idle"]
      BY <1>7, <2>2 DEF rwl_writelock, rwl_writetrylock, WriteWoken, WriteBusy
    <3> QED  BY <1>5, <3>1 DEF PCs, Calling
  <2> QED  BY <2>1, <2>2
<1>8. ASSUME NEW t \in Threads, SpuriousWakeup(t)
      PROVE  [Abs!Next]_(Abs!avars)
  BY <1>5, <1>8 DEF SpuriousWakeup, PCs, Calling
<1>9. ASSUME rwl_destroy \/ UNCHANGED vars
      PROVE  [Abs!Next]_(Abs!avars)
  BY <1>9 DEF rwl_destroy, vars
<1>10. ASSUME NEW t \in Threads, Request(t) \/ MutexGone(t)
       PROVE  [Abs!Next]_(Abs!avars)
  <2>1. /\ pc[t] \in PCs \ {"reading", "writing"}
        /\ \E s \in PCs \ {"reading", "writing"} : pc' = [pc EXCEPT ![t] = s]
    BY <1>10 DEF Request, Call, MutexGone, PCs, Calling
  <2> QED  BY <1>5, <2>1
<1>11. ASSUME NEW t \in Threads, UnlockInvalid(t)
       PROVE  Abs!ReleaseRead(t) \/ Abs!ReleaseWrite(t)
  BY <1>0, <1>11 DEF UnlockInvalid, Abs!ReleaseRead, Abs!ReleaseWrite
<1> QED
  BY <1>3, <1>4, <1>6, <1>7, <1>8, <1>9, <1>10, <1>11
  DEF Next, Enter, Woken, Unlock

\* The lock implements the abstract many-readers-or-one-writer lock, for any
\* number of threads.
THEOREM Refinement == Spec => AbsSpec
<1>1. Init => Abs!Init
  BY DEF Init, Abs!Init, Readers, Writers, At, Where
<1> QED  BY <1>1, SpecIInv, NextRefines, PTL DEF Spec, AbsSpec, Abs!Spec
=============================================================================
