----------------------------- MODULE CoastQueue -----------------------------
(***************************************************************************)
(* QueueBase of modules/Queueing/Queue.h: a bounded queue with two         *)
(* counting semaphores, whose Put and Get side can be blocked and which    *)
(* may be emptied or destroyed while callers are inside.                   *)
(*                                                                         *)
(* Put and Get are mirror images; both are modelled by the steps of a      *)
(* caller, whose side says which semaphore and which counter it uses.  A   *)
(* step is one critical section or one semaphore operation of the code.    *)
(***************************************************************************)
EXTENDS Integers, Sequences, FiniteSets

CONSTANTS Putters, Getters,   \* the threads that call Put and Get
          fQueueSize,         \* capacity of the queue
          Elements,           \* what they put
          Modes,              \* subset of {"blocking", "try"}: bTryLock
          CtlOps,             \* what the controlling thread calls
          MaxCtl,             \* bound: number of calls of that thread
          MaxTokens           \* bound: tokens of a semaphore

Callers == Putters \cup Getters

ASSUME QueueAssumption ==
  /\ IsFiniteSet(Putters) /\ IsFiniteSet(Getters)
  /\ Putters \cap Getters = {}
  /\ fQueueSize \in Nat \ {0} /\ MaxCtl \in Nat /\ MaxTokens \in Nat
  /\ Elements # {}
  /\ Modes \subseteq {"blocking", "try"}
  /\ CtlOps \subseteq {"block", "unblock", "empty", "destruct"}

Sides == {"put", "get"}

VARIABLES fContainer,   \* the elements, oldest first
          sema,         \* sema["put"]: fSemaEmptySlots, sema["get"]: fSemaFullSlots
          count,        \* fBlockingPutCount and fBlockingGetCount
          feBlocked,    \* the blocked sides
          fAlive,       \* IsAlive()
          fQueueLock,   \* TRUE while Block holds it across steps
          pc, mode,     \* what each caller is doing, and its bTryLock
          elem,         \* the element each putter brings
          ret,          \* what the last call of each caller returned
          ctl, todo,    \* the controlling thread: step, sides left to release
          dtor,         \* its call of Block is part of ~QueueBase
          calls         \* number of its calls so far

cvars == <<ctl, todo, dtor, calls>>
vars == <<fContainer, sema, count, feBlocked, fAlive, fQueueLock,
          pc, mode, elem, ret, cvars>>

Side(c) == IF c \in Putters THEN "put" ELSE "get"

PCs == {"idle", "try", "enter", "alive", "acquire", "again", "do", "lock", "leave"}
Codes == {"none", "eSuccess", "eEmpty", "eFull", "eBlocked", "eAcquireFailed",
          "eDead", "eEmptyError"}
CtlPCs == {"idle", "lock", "release", "wait", "empty", "kill", "gone"}

\* Type invariant: in particular both semaphores and both counters stay
\* natural numbers.
TypeOK ==
  /\ fContainer \in Seq(Elements)
  /\ sema \in [Sides -> Nat] /\ count \in [Sides -> Nat]
  /\ feBlocked \subseteq Sides
  /\ fAlive \in BOOLEAN /\ fQueueLock \in BOOLEAN
  /\ pc \in [Callers -> PCs] /\ mode \in [Callers -> {"blocking", "try"}]
  /\ elem \in [Putters -> Elements]
  /\ ret \in [Callers -> Codes]
  /\ ctl \in CtlPCs /\ todo \subseteq Sides /\ dtor \in BOOLEAN
  /\ calls \in 0..MaxCtl

Init ==
  /\ fContainer = <<>>
  /\ sema = [s \in Sides |-> IF s = "put" THEN fQueueSize ELSE 0]
  /\ count = [s \in Sides |-> 0]
  /\ feBlocked = {} /\ fAlive = TRUE /\ fQueueLock = FALSE
  /\ pc = [c \in Callers |-> "idle"] /\ mode = [c \in Callers |-> "blocking"]
  /\ elem = [c \in Putters |-> CHOOSE e \in Elements : TRUE]
  /\ ret = [c \in Callers |-> "none"]
  /\ ctl = "idle" /\ todo = {} /\ dtor = FALSE /\ calls = 0

IsBlocked(S) == ~fAlive \/ S \subseteq feBlocked

Acquire(s) == sema[s] > 0 /\ sema' = [sema EXCEPT ![s] = @ - 1]
Release(s) == sema' = [sema EXCEPT ![s] = @ + 1]

Goto(c, p)   == pc' = [pc EXCEPT ![c] = p]
Return(c, r) == ret' = [ret EXCEPT ![c] = r]

\* Only a blocking call has a LockedValueIncrementDecrementEntry to leave.
Finish(c) == Goto(c, IF mode[c] = "try" THEN "idle" ELSE "leave")

----------------------------------------------------------------------------
(* Put and Get.                                                            *)

\* Put or Get up to the outcome of the first IsBlocked.
Call(c, m) ==
  /\ pc[c] = "idle"
  /\ ctl # "gone"
  /\ \/ c \in Putters /\ \E e \in Elements : elem' = [elem EXCEPT ![c] = e]
     \/ c \in Getters /\ UNCHANGED elem
  /\ mode' = [mode EXCEPT ![c] = m]
  /\ IF IsBlocked({Side(c)})
       THEN Return(c, "eBlocked") /\ UNCHANGED pc
       ELSE Return(c, "none") /\ Goto(c, IF m = "try" THEN "try" ELSE "enter")
  /\ UNCHANGED <<fContainer, sema, count, feBlocked, fAlive, fQueueLock, cvars>>

\* Non-blocking call: TryAcquire.
TryAcquire(c) ==
  /\ pc[c] = "try"
  /\ \/ Acquire(Side(c)) /\ Goto(c, "do") /\ UNCHANGED ret
     \/ /\ sema[Side(c)] = 0
        /\ Return(c, IF c \in Putters THEN "eFull" ELSE "eEmpty")
        /\ Goto(c, "idle") /\ UNCHANGED sema
  /\ UNCHANGED <<fContainer, count, feBlocked, fAlive, fQueueLock, mode, elem, cvars>>

\* Blocking call: the LockedValueIncrementDecrementEntry counts the caller.
Enter(c) ==
  /\ pc[c] = "enter"
  /\ count' = [count EXCEPT ![Side(c)] = @ + 1]
  /\ Goto(c, "alive")
  /\ UNCHANGED <<fContainer, sema, feBlocked, fAlive, fQueueLock, mode, elem, ret, cvars>>

\* if (IsAlive() && ...
CheckAlive(c) ==
  /\ pc[c] = "alive"
  /\ IF fAlive
       THEN Goto(c, "acquire") /\ UNCHANGED ret
       ELSE /\ Return(c, IF c \in Putters THEN "eBlocked" ELSE "eAcquireFailed")
            /\ Goto(c, "leave")
  /\ UNCHANGED <<fContainer, sema, count, feBlocked, fAlive, fQueueLock, mode, elem, cvars>>

\* ... && fSema...Acquire()): waits for a token.
AcquireSlot(c) ==
  /\ pc[c] = "acquire"
  /\ Acquire(Side(c))
  /\ Goto(c, "again")
  /\ UNCHANGED <<fContainer, count, feBlocked, fAlive, fQueueLock, mode, elem, ret, cvars>>

\* The second IsAlive(); a dead queue gets its token back.
CheckAgain(c) ==
  /\ pc[c] = "again"
  /\ IF fAlive
       THEN Goto(c, "do") /\ UNCHANGED <<sema, ret>>
       ELSE Release(Side(c)) /\ Return(c, "eDead") /\ Goto(c, "leave")
  /\ UNCHANGED <<fContainer, count, feBlocked, fAlive, fQueueLock, mode, elem, cvars>>

\* Mutant: DoPut and DoGet trust the first IsBlocked.
DoCheckTrusting(c) ==
  /\ pc[c] = "do" /\ Goto(c, "lock")
  /\ UNCHANGED <<fContainer, sema, count, feBlocked, fAlive, fQueueLock, mode, elem, ret, cvars>>

\* The IsBlocked of DoPut and DoGet.
DoCheck(c) ==
  /\ pc[c] = "do"
  /\ IF IsBlocked({Side(c)})
       THEN Return(c, "eBlocked") /\ Finish(c)
       ELSE Goto(c, "lock") /\ UNCHANGED ret
  /\ UNCHANGED <<fContainer, sema, count, feBlocked, fAlive, fQueueLock, mode, elem, cvars>>

\* Mutant: the slot is given back to the wrong semaphore.
DoPutWrongSemaphore(c) ==
  /\ pc[c] = "lock" /\ c \in Putters
  /\ ~fQueueLock
  /\ fContainer' = Append(fContainer, elem[c])
  /\ Release("put")
  /\ Return(c, "eSuccess") /\ Finish(c)
  /\ UNCHANGED <<count, feBlocked, fAlive, fQueueLock, mode, elem, cvars>>

\* Mutant: DoPut wakes no getter.
DoPutSilent(c) ==
  /\ pc[c] = "lock" /\ c \in Putters
  /\ ~fQueueLock
  /\ fContainer' = Append(fContainer, elem[c])
  /\ Return(c, "eSuccess") /\ Finish(c)
  /\ UNCHANGED <<sema, count, feBlocked, fAlive, fQueueLock, mode, elem, cvars>>

\* DoPut under fQueueLock.
DoPut(c) ==
  /\ pc[c] = "lock" /\ c \in Putters
  /\ ~fQueueLock
  /\ fContainer' = Append(fContainer, elem[c])
  /\ Release("get")
  /\ Return(c, "eSuccess") /\ Finish(c)
  /\ UNCHANGED <<count, feBlocked, fAlive, fQueueLock, mode, elem, cvars>>

\* Mutant: the newest element is handed out.
DoGetNewest(c) ==
  /\ pc[c] = "lock" /\ c \in Getters
  /\ ~fQueueLock
  /\ IF fContainer # <<>>
       THEN /\ fContainer' = SubSeq(fContainer, 1, Len(fContainer) - 1)
            /\ Release("put") /\ Return(c, "eSuccess")
       ELSE Return(c, "eEmptyError") /\ UNCHANGED <<fContainer, sema>>
  /\ Finish(c)
  /\ UNCHANGED <<count, feBlocked, fAlive, fQueueLock, mode, elem, cvars>>

\* DoGet under fQueueLock.
DoGet(c) ==
  /\ pc[c] = "lock" /\ c \in Getters
  /\ ~fQueueLock
  /\ IF fContainer # <<>>
       THEN fContainer' = Tail(fContainer) /\ Release("put") /\ Return(c, "eSuccess")
       ELSE Return(c, "eEmptyError") /\ UNCHANGED <<fContainer, sema>>
  /\ Finish(c)
  /\ UNCHANGED <<count, feBlocked, fAlive, fQueueLock, mode, elem, cvars>>

\* Mutant: the entry does not count itself out.
LeaveCounted(c) ==
  /\ pc[c] = "leave"
  /\ Goto(c, "idle")
  /\ ctl' = IF ctl = "wait" /\ Side(c) \in todo THEN "release" ELSE ctl
  /\ UNCHANGED <<fContainer, sema, count, feBlocked, fAlive, fQueueLock, mode, elem, ret,
                 todo, dtor, calls>>

\* The next side whose callers Block has to release: putters first.
Releasing == IF "put" \in todo THEN "put" ELSE "get"

\* ~LockedValueIncrementDecrementEntry: counts down and signals Block.
Leave(c) ==
  /\ pc[c] = "leave"
  /\ count' = [count EXCEPT ![Side(c)] = IF @ > 0 THEN @ - 1 ELSE @]
  /\ Goto(c, "idle")
  /\ ctl' = IF ctl = "wait" /\ Releasing = Side(c) THEN "release" ELSE ctl
  /\ UNCHANGED <<fContainer, sema, feBlocked, fAlive, fQueueLock, mode, elem, ret,
                 todo, dtor, calls>>

----------------------------------------------------------------------------
(* Block, UnBlock, EmptyQueue and the destructor.                          *)

CtlCall(op) == ctl = "idle" /\ op \in CtlOps /\ calls < MaxCtl /\ calls' = calls + 1

\* Block(aSide) and the Block() of ~QueueBase: set the flag.
Block(S, destruct) ==
  /\ CtlCall(IF destruct THEN "destruct" ELSE "block")
  /\ destruct => S = Sides
  /\ fAlive
  /\ feBlocked' = feBlocked \cup S
  /\ todo' = S /\ dtor' = destruct /\ ctl' = "lock"
  /\ UNCHANGED <<fContainer, sema, count, fAlive, fQueueLock, pc, mode, elem, ret>>

\* Block takes fQueueLock and keeps it.
BlockLock ==
  /\ ctl = "lock" /\ ~fQueueLock
  /\ fQueueLock' = TRUE /\ ctl' = "release"
  /\ UNCHANGED <<fContainer, sema, count, feBlocked, fAlive, pc, mode, elem, ret,
                 todo, dtor, calls>>

\* One round of IntReleaseBlockedPutters or IntReleaseBlockedGetters: a
\* token for a caller still inside and a wait, or on to the next side.
IntRelease ==
  /\ ctl = "release" /\ todo # {}
  /\ IF count[Releasing] # 0
       THEN Release(Releasing) /\ ctl' = "wait" /\ UNCHANGED todo
       ELSE todo' = todo \ {Releasing} /\ UNCHANGED <<sema, ctl>>
  /\ UNCHANGED <<fContainer, count, feBlocked, fAlive, fQueueLock, pc, mode, elem, ret,
                 dtor, calls>>

\* Block returns and gives fQueueLock back.
BlockDone ==
  /\ ctl = "release" /\ todo = {}
  /\ fQueueLock' = FALSE
  /\ ctl' = IF dtor THEN "kill" ELSE "idle"
  /\ UNCHANGED <<fContainer, sema, count, feBlocked, fAlive, pc, mode, elem, ret,
                 todo, dtor, calls>>

UnBlock(S) ==
  /\ CtlCall("unblock") /\ fAlive
  /\ feBlocked' = feBlocked \ S
  /\ UNCHANGED <<fContainer, sema, count, fAlive, fQueueLock, pc, mode, elem, ret,
                 ctl, todo, dtor>>

\* IntEmptyQueue: for each element TryAcquire a full slot (which may fail),
\* move the element, release an empty slot.
IntEmptyQueue ==
  LET n == Len(fContainer)
  IN  /\ fContainer' = <<>>
      /\ sema' = [sema EXCEPT !["get"] = IF @ > n THEN @ - n ELSE 0,
                              !["put"] = @ + n]

\* EmptyQueue: if (!IsBlocked()) ...
EmptyQueue ==
  /\ CtlCall("empty")
  /\ ~IsBlocked(Sides)
  /\ ctl' = "empty"
  /\ UNCHANGED <<fContainer, sema, count, feBlocked, fAlive, fQueueLock, pc, mode, elem, ret, todo, dtor>>

\* ... lock fQueueLock and move all elements.
EmptyLocked ==
  /\ ctl = "empty" /\ ~fQueueLock
  /\ IntEmptyQueue
  /\ ctl' = "idle"
  /\ UNCHANGED <<count, feBlocked, fAlive, fQueueLock, pc, mode, elem, ret,
                 todo, dtor, calls>>

\* The rest of ~QueueBase under fQueueLock; then the members are destroyed.
Destruct ==
  /\ ctl = "kill" /\ ~fQueueLock
  /\ fAlive' = FALSE
  /\ IntEmptyQueue
  /\ ctl' = "gone"
  /\ UNCHANGED <<count, feBlocked, fQueueLock, pc, mode, elem, ret, todo, dtor, calls>>

\* The wait of Block may end without a signal.
SpuriousWakeup ==
  /\ ctl = "wait"
  /\ sema[Releasing] < MaxTokens
  /\ ctl' = "release"
  /\ UNCHANGED <<fContainer, sema, count, feBlocked, fAlive, fQueueLock, pc, mode, elem, ret, todo, dtor, calls>>

----------------------------------------------------------------------------
InCall(c) ==
  \/ TryAcquire(c) \/ Enter(c) \/ CheckAlive(c) \/ AcquireSlot(c) \/ CheckAgain(c)
  \/ DoCheck(c) \/ DoPut(c) \/ DoGet(c) \/ Leave(c)

CallerNext == \E c \in Callers : (\E m \in Modes : Call(c, m)) \/ InCall(c)

InCtl == BlockLock \/ IntRelease \/ BlockDone \/ EmptyLocked \/ Destruct

CtlNext ==
  \/ \E S \in SUBSET Sides \ {{}} :
        (\E d \in BOOLEAN : Block(S, d)) \/ UnBlock(S)
  \/ EmptyQueue \/ InCtl \/ SpuriousWakeup

Next == CallerNext \/ CtlNext

Spec == Init /\ [][Next]_vars

\* Putters and getters only: the queue in normal service.
FlowSpec == Init /\ [][CallerNext]_vars

\* Every thread inside a call is scheduled; nobody has to make a call.
FairFlowSpec == FlowSpec /\ \A c \in Callers : WF_vars(InCall(c))

----------------------------------------------------------------------------
(* Properties.                                                             *)

\* The callers of a side that hold a token of their semaphore.
Holding(s) == {c \in Callers : Side(c) = s /\ pc[c] \in {"again", "do", "lock"}}

\* The blocking callers of a side that their counter has to know.
Inside(s) == {c \in Callers : Side(c) = s /\ mode[c] = "blocking"
                              /\ pc[c] \in {"alive", "acquire", "again", "do", "lock", "leave"}}

\* Every slot is accounted for: free, promised to a putter inside Put, or
\* filled; and every filled slot is offered or promised to one getter.
TokensExact ==
  /\ sema["put"] + Cardinality(Holding("put")) + Len(fContainer) = fQueueSize
  /\ sema["get"] + Cardinality(Holding("get")) = Len(fContainer)

\* DoGet: "something must have happened at this point which should not be
\* possible by its design": a getter with a token never finds nothing.
NeverEmptyError == \A c \in Callers : ret[c] # "eEmptyError"

Fifo == INSTANCE BoundedFifo WITH buf <- fContainer, Size <- fQueueSize,
                                  Elements <- Elements

\* The queue is a bounded first-in first-out queue of size fQueueSize.
FifoSpec == Fifo!Spec

\* No wakeup is lost between Put and Get: a getter never waits for ever at a
\* queue with elements unless elements are taken again and again, nor a
\* putter at a queue with room unless elements are put again and again.
ElementsFlow ==
  /\ <>[](fContainer # <<>> /\ \E g \in Getters : pc[g] = "acquire")
       => []<><<\E g \in Getters : DoGet(g)>>_vars
  /\ <>[](Len(fContainer) < fQueueSize /\ \E p \in Putters : pc[p] = "acquire")
       => []<><<\E p \in Putters : DoPut(p)>>_vars

\* fBlockingPutCount and fBlockingGetCount count the blocking callers inside.
CountsExact == \A s \in Sides : count[s] = Cardinality(Inside(s))

\* Once Block(ePutSide) has returned, no blocking Put adds an element before
\* UnBlock, although callers that saw the side open may still be on their
\* way.  (A non-blocking Put past its last IsBlocked is not counted, Block
\* does not wait for it and it may still add its element.)
NothingPutAfterBlock ==
  [][\A p \in Putters :
       ("put" \in feBlocked /\ ctl = "idle" /\ mode[p] = "blocking") => ~DoPut(p)]_vars
=============================================================================
