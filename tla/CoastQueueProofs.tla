-------------------------- MODULE CoastQueueProofs --------------------------
(***************************************************************************)
(* Proofs about CoastQueue for every number of callers and every queue     *)
(* size: in normal service (FlowSpec: Put and Get, both blocking and not)  *)
(* the tokens are exact and the queue is a FIFO; with Block, UnBlock,      *)
(* EmptyQueue and the destructor (Spec) the callers are counted and a      *)
(* blocked side stays quiet.                                               *)
(***************************************************************************)
EXTENDS CoastQueue, FiniteSetTheorems, SequenceTheorems, TLAPS

\* In normal service nothing is blocked, dead or locked for long.
InService == feBlocked = {} /\ fAlive /\ ~fQueueLock /\ ctl = "idle"

IInv == TypeOK /\ InService /\ TokensExact /\ NeverEmptyError

----------------------------------------------------------------------------
(* How the holders of tokens change.                                       *)

\* The holders of tokens can be counted.
LEMMA HoldingFinite ==
  ASSUME NEW s \in Sides
  PROVE  IsFiniteSet(Holding(s)) /\ Cardinality(Holding(s)) \in Nat
<1>1. IsFiniteSet(Callers)
  BY QueueAssumption, FS_Union DEF Callers
<1> QED
  BY <1>1, FS_Subset, FS_CardinalityType DEF Holding

\* A caller that gets a token is one holder more.
LEMMA HolderMore ==
  ASSUME NEW s \in Sides, NEW c, c \notin Holding(s), Holding(s)' = Holding(s) \cup {c}
  PROVE  Cardinality(Holding(s))' = Cardinality(Holding(s)) + 1
BY HoldingFinite, FS_AddElement

\* A caller that uses its token is one holder less.
LEMMA HolderLess ==
  ASSUME NEW s \in Sides, NEW c \in Holding(s), Holding(s)' = Holding(s) \ {c}
  PROVE  /\ Cardinality(Holding(s))' = Cardinality(Holding(s)) - 1
         /\ Cardinality(Holding(s)) >= 1
<1>1. Cardinality(Holding(s))' = Cardinality(Holding(s)) - 1
  BY HoldingFinite, FS_RemoveElement
<1>2. Cardinality(Holding(s)) # 0
  BY HoldingFinite, FS_EmptySet
<1> QED
  BY <1>1, <1>2, HoldingFinite

\* The two equations of TokensExact between free, promised and filled slots
\* and the tokens that are offered to and taken by getters.
Balanced(free, held, full, offered, taken) ==
  free + held + full = fQueueSize /\ offered + taken = full

\* The equations after each of the four moves of a token.
LEMMA BalanceKept ==
  ASSUME NEW free \in Nat, NEW held \in Nat, NEW full \in Nat, NEW offered \in Nat,
         NEW taken \in Nat, Balanced(free, held, full, offered, taken)
  PROVE  /\ Balanced(free - 1, held + 1, full, offered, taken)
         /\ Balanced(free, held, full, offered - 1, taken + 1)
         /\ held >= 1 => full < fQueueSize /\ Balanced(free, held - 1, full + 1, offered + 1, taken)
         /\ taken >= 1 => full >= 1 /\ Balanced(free + 1, held, full - 1, offered, taken - 1)
BY QueueAssumption DEF Balanced

\* The numbers that TokensExact is about.
LEMMA Numbers ==
  ASSUME IInv
  PROVE  /\ sema["put"] \in Nat /\ Cardinality(Holding("put")) \in Nat
         /\ sema["get"] \in Nat /\ Cardinality(Holding("get")) \in Nat
         /\ Len(fContainer) \in Nat
         /\ Balanced(sema["put"], Cardinality(Holding("put")), Len(fContainer), sema["get"],
                     Cardinality(Holding("get")))
<1>1. "put" \in Sides /\ "get" \in Sides
  BY DEF Sides
<1>2. sema["put"] \in Nat /\ sema["get"] \in Nat /\ Len(fContainer) \in Nat
  BY <1>1 DEF IInv, TypeOK
<1>3. Cardinality(Holding("put")) \in Nat /\ Cardinality(Holding("get")) \in Nat
  BY <1>1, HoldingFinite
<1> QED
  BY <1>2, <1>3, Zenon DEF IInv, TokensExact, Balanced

\* A step inside a call that takes and uses no token.
LEMMA TokensStay ==
  ASSUME TokensExact, UNCHANGED <<sema, fContainer>>,
         \A s \in Sides : Holding(s)' = Holding(s)
  PROVE  TokensExact'
BY DEF TokensExact, Sides

\* A step that takes a token.
LEMMA TokenTaken ==
  ASSUME IInv, NEW c \in Callers, pc[c] \in {"try", "acquire"}, Acquire(Side(c)),
         \E p \in {"again", "do"} : Goto(c, p), UNCHANGED fContainer
  PROVE  TokensExact'
<1> DEFINE s == Side(c)
<1>1. s \in Sides /\ \A u \in Sides : u # s => Holding(u)' = Holding(u)
  BY DEF IInv, TypeOK, Goto, Holding, Side, Sides
<1>2. c \notin Holding(s) /\ Holding(s)' = Holding(s) \cup {c}
  BY DEF IInv, TypeOK, Goto, Holding
<1>3. Cardinality(Holding(s))' = Cardinality(Holding(s)) + 1
  BY <1>1, <1>2, HolderMore
<1>4. CASE s = "put"
  <2>1. Holding("get")' = Holding("get")
    BY <1>1, <1>4 DEF Sides
  <2>2. sema'["put"] = sema["put"] - 1 /\ sema'["get"] = sema["get"]
    BY <1>4 DEF Acquire, IInv, TypeOK, Sides
  <2>3. Balanced(sema["put"] - 1, Cardinality(Holding("put")) + 1, Len(fContainer), sema["get"],
                 Cardinality(Holding("get")))
    BY Numbers, BalanceKept
  <2> QED
    BY <1>3, <1>4, <2>1, <2>2, <2>3, Zenon DEF TokensExact, Balanced
<1>5. CASE s = "get"
  <2>1. Holding("put")' = Holding("put")
    BY <1>1, <1>5 DEF Sides
  <2>2. sema'["get"] = sema["get"] - 1 /\ sema'["put"] = sema["put"]
    BY <1>5 DEF Acquire, IInv, TypeOK, Sides
  <2>3. Balanced(sema["put"], Cardinality(Holding("put")), Len(fContainer), sema["get"] - 1,
                 Cardinality(Holding("get")) + 1)
    BY Numbers, BalanceKept
  <2> QED
    BY <1>3, <1>5, <2>1, <2>2, <2>3, Zenon DEF TokensExact, Balanced
<1> QED
  BY <1>1, <1>4, <1>5 DEF Sides

----------------------------------------------------------------------------
(* DoPut and DoGet.                                                        *)

\* A putter with a token finds room, and its slot becomes a filled one.
LEMMA PutTokens ==
  ASSUME IInv, NEW c \in Callers, DoPut(c)
  PROVE  TokensExact' /\ Len(fContainer) < fQueueSize
<1>1. c \in Holding("put") /\ Holding("put")' = Holding("put") \ {c}
      /\ Holding("get")' = Holding("get")
  BY DEF IInv, TypeOK, DoPut, Finish, Goto, Holding, Side
<1>2. Cardinality(Holding("put"))' = Cardinality(Holding("put")) - 1
      /\ Cardinality(Holding("put")) >= 1
  BY <1>1, HolderLess DEF Sides
<1>3. Len(fContainer') = Len(fContainer) + 1
  BY DEF IInv, TypeOK, DoPut
<1>4. sema'["put"] = sema["put"] /\ sema'["get"] = sema["get"] + 1
  BY DEF IInv, TypeOK, DoPut, Release, Sides
<1>5. /\ Len(fContainer) < fQueueSize
      /\ Balanced(sema["put"], Cardinality(Holding("put")) - 1, Len(fContainer) + 1,
                  sema["get"] + 1, Cardinality(Holding("get")))
  BY <1>2, Numbers, BalanceKept
<1> QED
  BY <1>1, <1>2, <1>3, <1>4, <1>5, Zenon DEF TokensExact, Balanced

\* A getter with a token finds an element, and its slot becomes a free one.
LEMMA GetTokens ==
  ASSUME IInv, NEW c \in Callers, DoGet(c)
  PROVE  TokensExact' /\ fContainer # <<>>
<1>1. c \in Holding("get") /\ Holding("get")' = Holding("get") \ {c}
      /\ Holding("put")' = Holding("put")
  BY QueueAssumption DEF IInv, TypeOK, DoGet, Finish, Goto, Holding, Side
<1>2. Cardinality(Holding("get"))' = Cardinality(Holding("get")) - 1
      /\ Cardinality(Holding("get")) >= 1
  BY <1>1, HolderLess DEF Sides
<1>3. /\ Len(fContainer) >= 1
      /\ Balanced(sema["put"] + 1, Cardinality(Holding("put")), Len(fContainer) - 1,
                  sema["get"], Cardinality(Holding("get")) - 1)
  BY <1>2, Numbers, BalanceKept
<1>4. fContainer # <<>>
  BY <1>3
<1>5. Len(fContainer') = Len(fContainer) - 1
  BY <1>3, <1>4 DEF IInv, TypeOK, DoGet
<1>6. sema'["get"] = sema["get"] /\ sema'["put"] = sema["put"] + 1
  BY <1>4 DEF IInv, TypeOK, DoGet, Release, Sides
<1> QED
  BY <1>1, <1>2, <1>3, <1>4, <1>5, <1>6, Zenon DEF TokensExact, Balanced

----------------------------------------------------------------------------
(* The inductive invariant.                                                *)

\* A new queue: all slots are free and nobody is inside.
LEMMA InitIInv == Init => IInv
<1> SUFFICES ASSUME Init PROVE IInv
  OBVIOUS
<1>1. TypeOK
  <2>1. elem \in [Putters -> Elements]
    BY QueueAssumption DEF Init
  <2>2. sema \in [Sides -> Nat] /\ count \in [Sides -> Nat]
    BY QueueAssumption DEF Init, Sides
  <2>3. pc \in [Callers -> PCs] /\ mode \in [Callers -> {"blocking", "try"}]
        /\ ret \in [Callers -> Codes]
    BY DEF Init, PCs, Codes
  <2>4. fAlive \in BOOLEAN /\ fQueueLock \in BOOLEAN /\ dtor \in BOOLEAN
    BY Zenon DEF Init
  <2>5. fContainer \in Seq(Elements) /\ feBlocked \subseteq Sides /\ todo \subseteq Sides
    BY DEF Init
  <2>6. ctl \in CtlPCs /\ calls \in 0..MaxCtl
    BY QueueAssumption DEF Init, CtlPCs
  <2> QED
    BY <2>1, <2>2, <2>3, <2>4, <2>5, <2>6 DEF TypeOK
<1>2. InService
  BY DEF Init, InService
<1>3. TokensExact
  <2>1. Holding("put") = {} /\ Holding("get") = {}
    BY DEF Init, Holding
  <2>2. sema["put"] = fQueueSize /\ sema["get"] = 0 /\ Len(fContainer) = 0
    BY DEF Init, Sides
  <2>3. Cardinality({}) = 0
    BY FS_EmptySet
  <2>4. fQueueSize \in Nat
    BY QueueAssumption
  <2> QED
    BY <2>1, <2>2, <2>3, <2>4 DEF TokensExact
<1>4. NeverEmptyError
  BY DEF Init, NeverEmptyError
<1> QED
  BY <1>1, <1>2, <1>3, <1>4 DEF IInv

\* Put and Get keep the types.
LEMMA NextType == ASSUME IInv, CallerNext PROVE TypeOK'
<1> USE DEF IInv, TypeOK, InService, Goto, Return, PCs, Codes
<1> PICK c \in Callers : (\E m \in Modes : Call(c, m)) \/ InCall(c)
  BY DEF CallerNext
<1>0. Side(c) \in Sides
  BY DEF Side, Sides
<1>1. CASE \E m \in Modes : Call(c, m)
  <2> PICK m \in Modes : Call(c, m)
    BY <1>1
  <2>1. m \in {"blocking", "try"}
    BY QueueAssumption
  <2>2. elem' \in [Putters -> Elements]
    BY DEF Call
  <2> QED
    BY <2>1, <2>2 DEF Call, cvars
<1>2. CASE TryAcquire(c)
  <2>1. sema' \in [Sides -> Nat]
    <3>1. CASE Acquire(Side(c))
      BY <1>0, <3>1 DEF Acquire
    <3> QED
      BY <1>2, <3>1 DEF TryAcquire
  <2>2. pc' \in [Callers -> PCs] /\ ret' \in [Callers -> Codes]
    BY <1>2 DEF TryAcquire
  <2> QED
    BY <1>2, <2>1, <2>2 DEF TryAcquire, cvars
<1>3. CASE Enter(c)
  BY <1>0, <1>3 DEF Enter, cvars
<1>4. CASE CheckAlive(c)
  BY <1>4 DEF CheckAlive, cvars
<1>5. CASE AcquireSlot(c)
  BY <1>0, <1>5 DEF AcquireSlot, Acquire, cvars
<1>6. CASE CheckAgain(c)
  BY <1>6 DEF CheckAgain, cvars
<1>7. CASE DoCheck(c)
  BY <1>7 DEF DoCheck, Finish, cvars
<1>8. CASE DoPut(c)
  BY <1>8 DEF DoPut, Release, Finish, Sides, cvars
<1>9. CASE DoGet(c)
  <2>1. fContainer # <<>>
    BY <1>9, GetTokens
  <2>2. fContainer' \in Seq(Elements)
    <3>1. fContainer \in Seq(Elements) /\ fContainer' = Tail(fContainer)
      BY <1>9, <2>1 DEF DoGet
    <3> QED
      BY <2>1, <3>1, HeadTailProperties
  <2>3. sema' \in [Sides -> Nat]
    BY <1>9, <2>1 DEF DoGet, Release, Sides
  <2>4. pc' \in [Callers -> PCs] /\ ret' \in [Callers -> Codes]
    BY <1>9, <2>1 DEF DoGet, Finish
  <2> QED
    BY <1>9, <2>2, <2>3, <2>4 DEF DoGet, cvars
<1>10. CASE Leave(c)
  BY <1>0, <1>10 DEF Leave
<1> QED
  BY <1>1, <1>2, <1>3, <1>4, <1>5, <1>6, <1>7, <1>8, <1>9, <1>10 DEF InCall

\* Put and Get keep every token accounted for.
LEMMA NextTokens == ASSUME IInv, CallerNext PROVE TokensExact'
<1> PICK c \in Callers : (\E m \in Modes : Call(c, m)) \/ InCall(c)
  BY DEF CallerNext
<1> DEFINE Keeps == UNCHANGED <<sema, fContainer>> /\ \A s \in Sides : Holding(s)' = Holding(s)
<1>0. TokensExact /\ pc \in [Callers -> PCs] /\ InService
  BY DEF IInv, TypeOK
<1>1. CASE \E m \in Modes : Call(c, m)
  <2>1. Keeps
    BY <1>0, <1>1 DEF Call, Goto, Holding
  <2> QED
    BY <1>0, <2>1, TokensStay
<1>2. CASE TryAcquire(c)
  <2>1. CASE Acquire(Side(c)) /\ Goto(c, "do")
    BY <1>2, <2>1, TokenTaken DEF TryAcquire
  <2>2. CASE UNCHANGED sema /\ Goto(c, "idle")
    <3>1. Keeps
      BY <1>0, <1>2, <2>2 DEF TryAcquire, Goto, Holding
    <3> QED
      BY <1>0, <3>1, TokensStay
  <2> QED
    BY <1>2, <2>1, <2>2 DEF TryAcquire
<1>3. CASE Enter(c) \/ CheckAlive(c) \/ CheckAgain(c) \/ DoCheck(c) \/ Leave(c)
  <2>1. Keeps
    <3>1. CASE Enter(c)
      BY <1>0, <3>1 DEF Enter, Goto, Holding
    <3>2. CASE CheckAlive(c)
      BY <1>0, <3>2 DEF CheckAlive, Goto, Holding
    <3>3. CASE CheckAgain(c)
      BY <1>0, <3>3 DEF CheckAgain, Goto, Holding, InService
    <3>4. CASE DoCheck(c)
      <4>1. ~IsBlocked({Side(c)})
        BY <1>0 DEF IsBlocked, InService
      <4> QED
        BY <1>0, <3>4, <4>1 DEF DoCheck, Goto, Holding
    <3>5. CASE Leave(c)
      BY <1>0, <3>5 DEF Leave, Goto, Holding
    <3> QED
      BY <1>3, <3>1, <3>2, <3>3, <3>4, <3>5
  <2> QED
    BY <1>0, <2>1, TokensStay
<1>4. CASE AcquireSlot(c)
  BY <1>4, TokenTaken DEF AcquireSlot
<1>5. CASE DoPut(c)
  BY <1>5, PutTokens
<1>6. CASE DoGet(c)
  BY <1>6, GetTokens
<1> QED
  BY <1>1, <1>2, <1>3, <1>4, <1>5, <1>6 DEF InCall

\* Put and Get keep the invariant of normal service.
LEMMA NextIInv == IInv /\ [CallerNext]_vars => IInv'
<1> SUFFICES ASSUME IInv, [CallerNext]_vars PROVE IInv'
  OBVIOUS
<1>1. CASE UNCHANGED vars
  BY <1>1 DEF vars, cvars, IInv, TypeOK, InService, TokensExact, Holding, NeverEmptyError
<1>2. CASE CallerNext
  <2> PICK c \in Callers : (\E m \in Modes : Call(c, m)) \/ InCall(c)
    BY <1>2 DEF CallerNext
  <2>1. InService'
    <3>1. CASE Leave(c)
      BY <3>1 DEF IInv, InService, Leave
    <3>2. CASE ~Leave(c)
      <4>1. UNCHANGED <<feBlocked, fAlive, fQueueLock, ctl>>
        BY <3>2 DEF InCall, Call, TryAcquire, Enter, CheckAlive, AcquireSlot, CheckAgain,
           DoCheck, DoPut, DoGet, cvars
      <4> QED
        BY <4>1 DEF IInv, InService
    <3> QED
      BY <3>1, <3>2
  <2>2. NeverEmptyError'
    <3>1. ret \in [Callers -> Codes] /\ NeverEmptyError
      BY DEF IInv, TypeOK
    <3>2. CASE DoGet(c)
      BY <3>1, <3>2, GetTokens DEF DoGet, Return, NeverEmptyError
    <3>3. CASE ~DoGet(c)
      BY <3>1, <3>3 DEF NeverEmptyError, Return, InCall, Call, TryAcquire, Enter, CheckAlive,
         AcquireSlot, CheckAgain, DoCheck, DoPut, Leave
    <3> QED
      BY <3>2, <3>3
  <2> QED
    BY <1>2, <2>1, <2>2, NextType, NextTokens DEF IInv
<1> QED
  BY <1>1, <1>2

\* The inductive invariant of normal service, for Put and Get of any number
\* of callers.
THEOREM FlowIInv == FlowSpec => []IInv
<1> QED
  BY InitIInv, NextIInv, PTL DEF FlowSpec

\* The variables of the queue keep their types; in particular the semaphores
\* never go below zero.
THEOREM TypeCorrect == FlowSpec => []TypeOK
<1>1. IInv => TypeOK
  BY DEF IInv
<1> QED
  BY <1>1, FlowIInv, PTL

\* In normal service Put and Get account for every slot, for any number of
\* callers, any queue size and any interleaving of their steps.
THEOREM SlotsAccounted == FlowSpec => []TokensExact
<1>1. IInv => TokensExact
  BY DEF IInv
<1> QED
  BY <1>1, FlowIInv, PTL

\* The branch of DoGet that "should not be possible by its design" is not
\* taken in normal service.
THEOREM GetterFindsElement == FlowSpec => []NeverEmptyError
<1>1. IInv => NeverEmptyError
  BY DEF IInv
<1> QED
  BY <1>1, FlowIInv, PTL

\* In normal service the queue implements the bounded FIFO queue.
THEOREM FlowIsFifo == FlowSpec => FifoSpec
<1>1. Init => Fifo!Init
  BY DEF Init, Fifo!Init
<1>2. IInv /\ [CallerNext]_vars => [Fifo!Next]_fContainer
  <2> SUFFICES ASSUME IInv, [CallerNext]_vars, fContainer' # fContainer PROVE Fifo!Next
    OBVIOUS
  <2> PICK c \in Callers : (\E m \in Modes : Call(c, m)) \/ InCall(c)
    BY DEF CallerNext, vars
  <2>1. DoPut(c) \/ DoGet(c)
    BY DEF InCall, Call, TryAcquire, Enter, CheckAlive, AcquireSlot, CheckAgain, DoCheck, Leave
  <2>2. CASE DoPut(c)
    <3>1. elem[c] \in Elements
      BY <2>2 DEF DoPut, IInv, TypeOK
    <3> QED
      BY <2>2, <3>1, PutTokens DEF DoPut, Fifo!Next, Fifo!Put
  <2>3. CASE DoGet(c)
    BY <2>3, GetTokens DEF DoGet, Fifo!Next, Fifo!Get
  <2> QED
    BY <2>1, <2>2, <2>3
<1> QED
  BY <1>1, <1>2, FlowIInv, PTL DEF FlowSpec, FifoSpec, Fifo!Spec

----------------------------------------------------------------------------
(* The whole queue (Spec): callers and Block, UnBlock, EmptyQueue and the  *)
(* destructor.                                                             *)

\* Where a blocking caller is and where a non-blocking one.
ModesMatch == \A c \in Callers :
  /\ pc[c] \in {"enter", "alive", "acquire", "again", "leave"} => mode[c] = "blocking"
  /\ pc[c] = "try" => mode[c] = "try"

\* Block has sides to release only while it runs.
TodoInBlock == ctl \notin {"lock", "release", "wait"} => todo = {}

\* A side that is blocked and that no Block has to release any more has no
\* blocking caller between its last IsBlocked and the container.
BlockedSideQuiet == \A c \in Callers :
  mode[c] = "blocking" /\ Side(c) \in feBlocked \ todo => pc[c] # "lock"

BInv == TypeOK /\ ModesMatch /\ TodoInBlock /\ BlockedSideQuiet /\ CountsExact

\* The places of a call that the counter of its side covers.
InsidePCs == {"alive", "acquire", "again", "do", "lock", "leave"}

\* The blocking callers can be counted.
LEMMA InsideFinite ==
  ASSUME NEW s \in Sides
  PROVE  IsFiniteSet(Inside(s)) /\ Cardinality(Inside(s)) \in Nat
<1>1. IsFiniteSet(Callers)
  BY QueueAssumption, FS_Union DEF Callers
<1> QED
  BY <1>1, FS_Subset, FS_CardinalityType DEF Inside

\* A step that counts nobody and moves nobody in or out.
LEMMA CountsStay ==
  ASSUME CountsExact, count' = count, \A s \in Sides : Inside(s)' = Inside(s)
  PROVE  CountsExact'
BY DEF CountsExact

\* A step of a caller that stays inside or outside and is not counted.
LEMMA CallerStays ==
  ASSUME BInv, NEW c \in Callers, NEW p \in PCs, Goto(c, p), count' = count,
         \/ mode' = mode /\ (mode[c] = "try" \/ (p \in InsidePCs <=> pc[c] \in InsidePCs))
         \/ pc[c] \notin InsidePCs /\ p \notin InsidePCs
              /\ \E m \in {"blocking", "try"} : mode' = [mode EXCEPT ![c] = m]
  PROVE  CountsExact'
<1>1. \A s \in Sides : Inside(s)' = Inside(s)
  BY DEF BInv, TypeOK, Goto, Inside, InsidePCs
<1> QED
  BY <1>1, CountsStay DEF BInv

\* The steps of the callers keep the counters exact: the one that enters is
\* counted in, the one that leaves is counted out.
LEMMA CallerCounts ==
  ASSUME BInv, CallerNext
  PROVE  CountsExact'
<1> PICK c \in Callers : (\E m \in Modes : Call(c, m)) \/ InCall(c)
  BY DEF CallerNext
<1>0. /\ Side(c) \in Sides /\ pc[c] \in PCs /\ mode[c] \in {"blocking", "try"}
      /\ pc \in [Callers -> PCs] /\ count \in [Sides -> Nat]
      /\ \A s \in Sides : count[s] = Cardinality(Inside(s))
  BY DEF BInv, TypeOK, Side, Sides, CountsExact
<1>1. CASE \E m \in Modes : Call(c, m)
  <2> PICK m \in Modes : Call(c, m)
    BY <1>1
  <2>1. m \in {"blocking", "try"} /\ mode' = [mode EXCEPT ![c] = m] /\ count' = count
        /\ pc[c] = "idle"
    BY QueueAssumption DEF Call
  <2>2. \E p \in {"idle", "try", "enter"} : Goto(c, p)
    BY <1>0 DEF Call, Goto
  <2> QED
    BY <2>1, <2>2, CallerStays DEF InsidePCs, PCs
<1>2. CASE TryAcquire(c)
  <2>1. mode[c] = "try" /\ mode' = mode /\ count' = count
    BY <1>2 DEF BInv, ModesMatch, TryAcquire
  <2>2. \E p \in {"do", "idle"} : Goto(c, p)
    BY <1>2 DEF TryAcquire
  <2> QED
    BY <2>1, <2>2, CallerStays DEF PCs
<1>3. CASE Enter(c)
  <2> DEFINE s == Side(c)
  <2>1. c \notin Inside(s) /\ Inside(s)' = Inside(s) \cup {c}
        /\ \A u \in Sides : u # s => Inside(u)' = Inside(u)
    BY <1>3 DEF BInv, TypeOK, ModesMatch, Enter, Goto, Inside
  <2>2. Cardinality(Inside(s))' = Cardinality(Inside(s)) + 1
    BY <1>0, <2>1, InsideFinite, FS_AddElement
  <2>3. count' = [count EXCEPT ![s] = @ + 1]
    BY <1>3 DEF Enter
  <2> QED
    BY <1>0, <2>1, <2>2, <2>3 DEF CountsExact
<1>4. CASE CheckAlive(c) \/ AcquireSlot(c) \/ CheckAgain(c)
  <2>1. mode' = mode /\ count' = count /\ pc[c] \in InsidePCs
    BY <1>4 DEF CheckAlive, AcquireSlot, CheckAgain, InsidePCs
  <2>2. \E p \in {"acquire", "again", "do", "leave"} : Goto(c, p)
    BY <1>4 DEF CheckAlive, AcquireSlot, CheckAgain
  <2> QED
    BY <2>1, <2>2, CallerStays DEF InsidePCs, PCs
<1>5. CASE DoCheck(c) \/ DoPut(c) \/ DoGet(c)
  <2>1. mode' = mode /\ count' = count /\ pc[c] \in InsidePCs
    BY <1>5 DEF DoCheck, DoPut, DoGet, InsidePCs
  <2>2. Goto(c, "lock") \/ Finish(c)
    BY <1>5 DEF DoCheck, DoPut, DoGet
  <2>3. CASE mode[c] = "try"
    BY <2>1, <2>2, <2>3, CallerStays DEF PCs, Finish
  <2>4. CASE mode[c] # "try"
    <3>1. \E p \in {"lock", "leave"} : Goto(c, p)
      BY <2>2, <2>4 DEF Finish
    <3> QED
      BY <2>1, <3>1, CallerStays DEF PCs, InsidePCs
  <2> QED
    BY <2>3, <2>4
<1>6. CASE Leave(c)
  <2> DEFINE s == Side(c)
  <2>1. c \in Inside(s) /\ Inside(s)' = Inside(s) \ {c}
        /\ \A u \in Sides : u # s => Inside(u)' = Inside(u)
    BY <1>6 DEF BInv, TypeOK, ModesMatch, Leave, Goto, Inside
  <2>2. Cardinality(Inside(s))' = Cardinality(Inside(s)) - 1
    BY <1>0, <2>1, InsideFinite, FS_RemoveElement
  <2>3. Cardinality(Inside(s)) \in Nat /\ Cardinality(Inside(s)) # 0
    BY <1>0, <2>1, InsideFinite, FS_EmptySet
  <2>4. count' = [count EXCEPT ![s] = @ - 1]
    <3>1. count[s] > 0
      BY <1>0, <2>3
    <3> QED
      BY <1>6, <3>1 DEF Leave
  <2> QED
    BY <1>0, <2>1, <2>2, <2>4 DEF CountsExact
<1> QED
  BY <1>1, <1>2, <1>3, <1>4, <1>5, <1>6 DEF InCall

\* The steps of the callers keep what else BInv says.
LEMMA CallerRest ==
  ASSUME BInv, CallerNext
  PROVE  ModesMatch' /\ TodoInBlock' /\ BlockedSideQuiet'
<1> PICK c \in Callers : (\E m \in Modes : Call(c, m)) \/ InCall(c)
  BY DEF CallerNext
<1>0. pc \in [Callers -> PCs] /\ mode \in [Callers -> {"blocking", "try"}]
      /\ ModesMatch /\ TodoInBlock /\ BlockedSideQuiet
  BY DEF BInv, TypeOK
<1>1. CASE \E m \in Modes : Call(c, m)
  <2> PICK m \in Modes : Call(c, m)
    BY <1>1
  <2>1. m \in {"blocking", "try"}
    BY QueueAssumption
  <2>2. ModesMatch'
    BY <1>0, <2>1 DEF Call, Goto, ModesMatch
  <2>3. BlockedSideQuiet'
    BY <1>0 DEF Call, Goto, BlockedSideQuiet, cvars
  <2> QED
    BY <1>0, <2>2, <2>3 DEF Call, TodoInBlock, cvars
<1>2. CASE InCall(c)
  <2>1. ModesMatch'
    BY <1>0, <1>2 DEF ModesMatch, InCall, TryAcquire, Enter, CheckAlive, AcquireSlot,
       CheckAgain, DoCheck, DoPut, DoGet, Leave, Finish, Goto
  <2>2. TodoInBlock'
    BY <1>0, <1>2 DEF TodoInBlock, InCall, TryAcquire, Enter, CheckAlive, AcquireSlot,
       CheckAgain, DoCheck, DoPut, DoGet, Leave, cvars
  <2>3. BlockedSideQuiet'
    <3>1. CASE DoCheck(c)
      BY <1>0, <3>1 DEF DoCheck, IsBlocked, Finish, Goto, BlockedSideQuiet, cvars
    <3>2. CASE ~DoCheck(c)
      BY <1>0, <1>2, <3>2 DEF BlockedSideQuiet, InCall, TryAcquire, Enter, CheckAlive,
         AcquireSlot, CheckAgain, DoPut, DoGet, Leave, Finish, Goto, cvars
    <3> QED
      BY <3>1, <3>2
  <2> QED
    BY <2>1, <2>2, <2>3
<1> QED
  BY <1>1, <1>2

\* The steps of the callers keep the types, also when the queue is blocked,
\* dead or lacks tokens.
LEMMA CallerType == ASSUME BInv, CallerNext PROVE TypeOK'
<1> USE DEF BInv, TypeOK, Goto, Return, PCs, Codes
<1> PICK c \in Callers : (\E m \in Modes : Call(c, m)) \/ InCall(c)
  BY DEF CallerNext
<1>0. Side(c) \in Sides
  BY DEF Side, Sides
<1>1. CASE \E m \in Modes : Call(c, m)
  <2> PICK m \in Modes : Call(c, m)
    BY <1>1
  <2>1. m \in {"blocking", "try"}
    BY QueueAssumption
  <2>2. elem' \in [Putters -> Elements]
    BY DEF Call
  <2> QED
    BY <2>1, <2>2 DEF Call, cvars
<1>2. CASE TryAcquire(c)
  <2>1. sema' \in [Sides -> Nat]
    <3>1. CASE Acquire(Side(c))
      BY <1>0, <3>1 DEF Acquire
    <3> QED
      BY <1>2, <3>1 DEF TryAcquire
  <2>2. pc' \in [Callers -> PCs] /\ ret' \in [Callers -> Codes]
    BY <1>2 DEF TryAcquire
  <2> QED
    BY <1>2, <2>1, <2>2 DEF TryAcquire, cvars
<1>3. CASE Enter(c)
  BY <1>0, <1>3 DEF Enter, cvars
<1>4. CASE CheckAlive(c)
  BY <1>4 DEF CheckAlive, cvars
<1>5. CASE AcquireSlot(c)
  BY <1>0, <1>5 DEF AcquireSlot, Acquire, cvars
<1>6. CASE CheckAgain(c)
  <2>1. sema' \in [Sides -> Nat]
    BY <1>0, <1>6 DEF CheckAgain, Release
  <2>2. pc' \in [Callers -> PCs] /\ ret' \in [Callers -> Codes]
    BY <1>6 DEF CheckAgain
  <2> QED
    BY <1>6, <2>1, <2>2 DEF CheckAgain, cvars
<1>7. CASE DoCheck(c)
  BY <1>7 DEF DoCheck, Finish, cvars
<1>8. CASE DoPut(c)
  BY <1>8 DEF DoPut, Release, Finish, Sides, cvars
<1>9. CASE DoGet(c)
  <2>1. fContainer' \in Seq(Elements)
    <3>1. fContainer \in Seq(Elements)
          /\ ((fContainer # <<>> /\ fContainer' = Tail(fContainer)) \/ fContainer' = fContainer)
      BY <1>9 DEF DoGet
    <3> QED
      BY <3>1, HeadTailProperties
  <2>2. sema' \in [Sides -> Nat]
    BY <1>9 DEF DoGet, Release, Sides
  <2>3. pc' \in [Callers -> PCs] /\ ret' \in [Callers -> Codes]
    BY <1>9 DEF DoGet, Finish
  <2> QED
    BY <1>9, <2>1, <2>2, <2>3 DEF DoGet, cvars
<1>10. CASE Leave(c)
  <2>1. count' \in [Sides -> Nat]
    BY <1>0, <1>10 DEF Leave
  <2>2. ctl' \in CtlPCs
    BY <1>10 DEF Leave, CtlPCs
  <2> QED
    BY <1>10, <2>1, <2>2 DEF Leave
<1> QED
  BY <1>1, <1>2, <1>3, <1>4, <1>5, <1>6, <1>7, <1>8, <1>9, <1>10 DEF InCall

\* Emptying the queue leaves semaphores that count.
LEMMA EmptiedType ==
  ASSUME TypeOK, IntEmptyQueue
  PROVE  fContainer' \in Seq(Elements) /\ sema' \in [Sides -> Nat]
<1>1. Len(fContainer) \in Nat /\ sema \in [Sides -> Nat]
  BY DEF TypeOK
<1>2. sema' \in [Sides -> Nat]
  BY <1>1 DEF IntEmptyQueue, Sides
<1> QED
  BY <1>2 DEF IntEmptyQueue

\* The controlling thread keeps the types.
LEMMA CtlType == ASSUME BInv, CtlNext PROVE TypeOK'
<1> USE DEF BInv, TypeOK, CtlPCs
<1>0. MaxCtl \in Nat
  BY QueueAssumption
<1>1. CASE \E S \in SUBSET Sides \ {{}} : (\E d \in BOOLEAN : Block(S, d)) \/ UnBlock(S)
  <2> PICK S \in SUBSET Sides \ {{}} : (\E d \in BOOLEAN : Block(S, d)) \/ UnBlock(S)
    BY <1>1
  <2>1. calls' \in 0..MaxCtl
    BY <1>0 DEF Block, UnBlock, CtlCall
  <2>2. dtor' \in BOOLEAN /\ todo' \subseteq Sides /\ feBlocked' \subseteq Sides /\ ctl' \in CtlPCs
    BY DEF Block, UnBlock
  <2> QED
    BY <2>1, <2>2 DEF Block, UnBlock
<1>2. CASE EmptyQueue
  <2>1. calls' \in 0..MaxCtl
    BY <1>0, <1>2 DEF EmptyQueue, CtlCall
  <2> QED
    BY <1>2, <2>1 DEF EmptyQueue
<1>3. CASE BlockLock
  BY <1>3 DEF BlockLock
<1>4. CASE IntRelease
  <2>1. sema' \in [Sides -> Nat]
    BY <1>4 DEF IntRelease, Release, Releasing, Sides
  <2> QED
    BY <1>4, <2>1 DEF IntRelease
<1>5. CASE BlockDone
  BY <1>5 DEF BlockDone
<1>6. CASE EmptyLocked
  BY <1>6, EmptiedType DEF EmptyLocked
<1>7. CASE Destruct
  BY <1>7, EmptiedType DEF Destruct
<1>8. CASE SpuriousWakeup
  BY <1>8 DEF SpuriousWakeup
<1> QED
  BY <1>1, <1>2, <1>3, <1>4, <1>5, <1>6, <1>7, <1>8 DEF CtlNext, InCtl

\* The controlling thread keeps the rest: Block strikes a side off only when
\* nobody of it is counted.
LEMMA CtlRest ==
  ASSUME BInv, CtlNext
  PROVE  ModesMatch' /\ TodoInBlock' /\ BlockedSideQuiet' /\ CountsExact'
<1>0. UNCHANGED <<pc, mode, count>>
  BY DEF CtlNext, InCtl, Block, UnBlock, EmptyQueue, BlockLock, IntRelease, BlockDone,
     EmptyLocked, Destruct, SpuriousWakeup
<1>1. ModesMatch' /\ CountsExact'
  BY <1>0 DEF BInv, ModesMatch, CountsExact, Inside
<1>2. TodoInBlock'
  BY DEF BInv, TodoInBlock, CtlNext, InCtl, Block, UnBlock, EmptyQueue, BlockLock, IntRelease,
     BlockDone, EmptyLocked, Destruct, SpuriousWakeup, CtlCall
<1>3. BlockedSideQuiet'
  <2>1. CASE IntRelease
    <3>1. CASE count[Releasing] # 0
      BY <1>0, <2>1, <3>1 DEF IntRelease, BInv, BlockedSideQuiet
    <3>2. CASE count[Releasing] = 0
      <4>1. Releasing \in Sides
        BY DEF Releasing, Sides
      <4>2. Inside(Releasing) = {}
        BY <3>2, <4>1, InsideFinite, FS_EmptySet DEF BInv, CountsExact
      <4>3. \A c \in Callers : Side(c) = Releasing /\ mode[c] = "blocking" => pc[c] # "lock"
        BY <4>2 DEF Inside
      <4>4. todo' = todo \ {Releasing} /\ feBlocked' = feBlocked
        BY <2>1, <3>2 DEF IntRelease
      <4> QED
        BY <1>0, <4>3, <4>4 DEF BInv, BlockedSideQuiet
    <3> QED
      BY <3>1, <3>2
  <2>2. CASE ~IntRelease
    <3>1. feBlocked' \ todo' \subseteq feBlocked \ todo
      BY <2>2 DEF BInv, TodoInBlock, CtlNext, InCtl, Block, UnBlock, EmptyQueue, BlockLock,
         BlockDone, EmptyLocked, Destruct, SpuriousWakeup, CtlCall
    <3> QED
      BY <1>0, <3>1 DEF BInv, BlockedSideQuiet
  <2> QED
    BY <2>1, <2>2
<1> QED
  BY <1>1, <1>2, <1>3

\* A new queue has nobody inside and no side blocked.
LEMMA InitBInv == Init => BInv
<1> SUFFICES ASSUME Init PROVE BInv
  OBVIOUS
<1>1. TypeOK
  BY InitIInv DEF IInv
<1>2. ModesMatch /\ TodoInBlock /\ BlockedSideQuiet
  BY DEF Init, ModesMatch, TodoInBlock, BlockedSideQuiet
<1>3. \A s \in Sides : Inside(s) = {} /\ count[s] = 0
  BY DEF Init, Inside
<1> QED
  BY <1>1, <1>2, <1>3, FS_EmptySet DEF BInv, CountsExact

\* Callers and the controlling thread keep the invariant of the whole queue.
LEMMA NextBInv == BInv /\ [Next]_vars => BInv'
<1> SUFFICES ASSUME BInv, [Next]_vars PROVE BInv'
  OBVIOUS
<1>1. CASE UNCHANGED vars
  BY <1>1 DEF vars, cvars, BInv, TypeOK, ModesMatch, TodoInBlock, BlockedSideQuiet, CountsExact,
     Inside
<1>2. CASE CallerNext
  BY <1>2, CallerType, CallerRest, CallerCounts DEF BInv
<1>3. CASE CtlNext
  BY <1>3, CtlType, CtlRest DEF BInv
<1> QED
  BY <1>1, <1>2, <1>3 DEF Next

\* The inductive invariant of the whole queue.
THEOREM Invariance == Spec => []BInv
<1> QED
  BY InitBInv, NextBInv, PTL DEF Spec

\* The types hold also under Block, UnBlock, EmptyQueue and the destructor.
THEOREM TypeCorrectWhole == Spec => []TypeOK
<1>1. BInv => TypeOK
  BY DEF BInv
<1> QED
  BY <1>1, Invariance, PTL

\* What Block waits for is right: the counters know exactly the blocking
\* callers inside, for any number of callers, so Block misses no caller and
\* waits for none that has left.
THEOREM CallersAreCounted == Spec => []CountsExact
<1>1. BInv => CountsExact
  BY DEF BInv
<1> QED
  BY <1>1, Invariance, PTL

\* No blocking Put that was under way when Block(ePutSide) returned adds its
\* element before UnBlock.
THEOREM BlockedPutsNothing == Spec => NothingPutAfterBlock
<1>1. BInv /\ [Next]_vars =>
        [\A p \in Putters :
           ("put" \in feBlocked /\ ctl = "idle" /\ mode[p] = "blocking") => ~DoPut(p)]_vars
  <2> SUFFICES ASSUME BInv, NEW p \in Putters, "put" \in feBlocked, ctl = "idle",
                      mode[p] = "blocking"
               PROVE  ~DoPut(p)
    OBVIOUS
  <2>1. Side(p) \in feBlocked \ todo /\ p \in Callers
    BY DEF BInv, TodoInBlock, Side, Callers
  <2> QED
    BY <2>1 DEF BInv, BlockedSideQuiet, DoPut
<1> QED
  BY <1>1, Invariance, PTL DEF Spec, NothingPutAfterBlock
=============================================================================
