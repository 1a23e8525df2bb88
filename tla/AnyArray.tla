------------------------------ MODULE AnyArray ------------------------------
(***************************************************************************)
(* AnyArrayImpl with its AnyIndTable and AnyKeyTable (foundation/base):    *)
(* the array behind every Anything.  Elements stay where they were put in  *)
(* fContents; fIndexTable gives the place of each position and fEmptyTable *)
(* the places to use next; fHashTable gives the position of each name, by  *)
(* open addressing with marks for deleted entries.                         *)
(*                                                                         *)
(* Arrays are functions from 0.  The tables are kept as far as they are    *)
(* ever read: fIndexTable below fSize and fEmptyTable from fSize on, whose *)
(* end is the capacity of the index table.  Its own fSize is always that   *)
(* of the array.  Assert is empty, as in a production build.               *)
(***************************************************************************)
EXTENDS Integers, Sequences, FiniteSets, FiniteSetsExt

Seqs == INSTANCE SequencesExt

CONSTANTS Keys, Values,
          MaxSize, MaxCalls,  \* bounds: number of elements, number of calls
          IFAHash,          \* the hash value of each name
          cInitCapacity,    \* smallest capacity of a key table
          InitCapacity,     \* first capacity of an array
          ARRAY_BUF_SIZE

NoKey == 0
Null  == 0

ASSUME ArrayAssumption ==
  /\ Keys \subseteq Nat \ {0} /\ IsFiniteSet(Keys)
  /\ Values # {} /\ Null \notin Values /\ MaxSize \in Nat \ {0} /\ MaxCalls \in Nat
  /\ IFAHash \in [Keys -> Nat]
  /\ cInitCapacity \in Nat /\ InitCapacity \in Nat \ {0} /\ ARRAY_BUF_SIZE \in Nat \ {0}

VARIABLES
  any,     \* the array; its fKeys is <<>> before there is a key table
  lost,    \* a name was written outside the buffers: anything may follow
  \* History, for the properties:
  stale,   \* places of unnamed elements that still have the name of a removed one
  mixed,   \* such an array was sorted or cloned
  calls    \* number of calls so far

vars == <<any, lost, stale, mixed, calls>>

Empty == [key |-> NoKey, val |-> Null]

\* The number of elements of an array that starts at 0.
Size(f) == Cardinality(DOMAIN f)

----------------------------------------------------------------------------
(* AnyKeyTable                                                             *)

\* The smallest odd number from x on without an odd divisor.
IFANextPrime(x) ==
  IF x <= 3 THEN 3
  ELSE Min({p \in x..(2 * x) :
              p % 2 = 1 /\ \A n \in {m \in 3..p : m % 2 = 1 /\ m * m <= p} : p % n # 0})

InitTable(cap) ==
  [i \in 0..(IFANextPrime(IF cap < cInitCapacity THEN cInitCapacity ELSE cap) - 1) |-> -1]

fThreshold(table) == (3 * Size(table)) \div 4

KeyAt(a, l) == a.fContents[a.fIndexTable[l]].key

\* The first entry from the hash value on that is free, has the key or, to
\* append, is marked as deleted; -1 if there is none.
DoHash(table, a, key, append) ==
  LET cap  == Size(table)
      hash == IFAHash[key] % cap
      hits == {d \in 0..(cap - 1) :
                 LET l == table[(hash + d) % cap]
                 IN  l = -1 \/ (l = -2 /\ append) \/ (l >= 0 /\ KeyAt(a, l) = key)}
  IN  IF hits = {} THEN -1 ELSE (hash + Min(hits)) % cap

\* Every entry gets a new place in a table of at least newCap entries.
Rehash(table, a, newCap) ==
  Seqs!FoldLeft(LAMBDA t, l : IF l < 0 THEN t ELSE [t EXCEPT ![DoHash(t, a, KeyAt(a, l), FALSE)] = l],
           InitTable(newCap), [i \in 1..Size(table) |-> table[i - 1]])

\* The table in which a key is entered: rehashed when the array is too large.
TableToAppend(table, a) ==
  IF a.fSize > fThreshold(table) THEN Rehash(table, a, 2 * Size(table)) ELSE table

\* AnyKeyTable::Append
AppendKey(table, a, key, atIndex) ==
  LET t == TableToAppend(table, a) IN [t EXCEPT ![DoHash(t, a, key, TRUE)] = atIndex]

\* Mutant: the entry that is removed becomes a free one.
UpdateRemovedFrees(table, from) ==
  [i \in DOMAIN table |-> IF table[i] = from THEN -1 ELSE
                          IF table[i] > from THEN table[i] - 1 ELSE table[i]]

\* Update(fromIndex): position from was removed.
UpdateRemoved(table, from) ==
  [i \in DOMAIN table |-> IF table[i] = from THEN -2 ELSE
                          IF table[i] > from THEN table[i] - 1 ELSE table[i]]

\* Update(fromIndex, size): size elements were inserted at position from.
UpdateInserted(table, from, size) ==
  [i \in DOMAIN table |-> IF table[i] >= from THEN table[i] + size ELSE table[i]]

----------------------------------------------------------------------------
(* AnyIndTable and the buffers of AnyArrayImpl                             *)

\* Mutant: the places of removed elements are not used again.
IndTableForgets(a, slot) ==
  LET cap    == a.fSize + Size(a.fEmptyTable)
      newCap == IF slot < cap THEN cap ELSE 2 * (IF slot >= 2 * cap THEN slot ELSE cap)
  IN  [fIndexTable |-> [i \in 0..slot |-> IF i < a.fSize THEN a.fIndexTable[i] ELSE i],
       fEmptyTable |-> [i \in (slot + 1)..(newCap - 1) |-> i]]

\* The index table with at least slot + 1 entries: AnyIndTable::At(slot), which
\* may Expand and takes over the places in fEmptyTable.
IndTable(a, slot) ==
  LET cap    == a.fSize + Size(a.fEmptyTable)
      newCap == IF slot < cap THEN cap ELSE 2 * (IF slot >= 2 * cap THEN slot ELSE cap)
      place(i) == IF i < cap THEN a.fEmptyTable[i] ELSE i
  IN  [fIndexTable |-> [i \in 0..slot |-> IF i < a.fSize THEN a.fIndexTable[i] ELSE place(i)],
       fEmptyTable |-> [i \in (slot + 1)..(newCap - 1) |-> place(i)]]

AdjustCapacity(cap) == ((cap + ARRAY_BUF_SIZE - 1) \div ARRAY_BUF_SIZE) * ARRAY_BUF_SIZE

\* Mutant: the buffers are expanded when the array is too large for them, and
\* not already when it fills them.
BuffersLate(contents, newsize) ==
  LET cap    == Size(contents)
      newCap == IF newsize <= cap THEN cap
                ELSE AdjustCapacity(IF newsize > 2 * cap THEN newsize ELSE 2 * cap)
  IN  [i \in 0..(newCap - 1) |-> IF i < cap THEN contents[i] ELSE Empty]

\* The buffers for newsize elements, expanded when these fill them.
Buffers(contents, newsize) ==
  LET cap    == Size(contents)
      newCap == IF newsize < cap THEN cap
                ELSE AdjustCapacity(IF newsize > 2 * cap THEN newsize ELSE 2 * cap)
  IN  [i \in 0..(newCap - 1) |-> IF i < cap THEN contents[i] ELSE Empty]

\* At(slot): the array is expanded as necessary.
Grow(a, slot) ==
  IF slot < a.fSize THEN a
  ELSE LET ind == IndTable(a, slot)
       IN  [a EXCEPT !.fSize = slot + 1,
                     !.fIndexTable = ind.fIndexTable, !.fEmptyTable = ind.fEmptyTable,
                     !.fContents = Buffers(a.fContents, slot + 1)]

SetAt(a, slot, v) ==
  LET g == Grow(a, slot) IN [g EXCEPT !.fContents[g.fIndexTable[slot]].val = v]

\* The key table, made on the first use of a name.
KeyTable(a) == IF a.fKeys = <<>> THEN InitTable(cInitCapacity) ELSE a.fKeys

FindIndex(a, key) ==
  IF a.fKeys = <<>> THEN -1
  ELSE LET i == DoHash(a.fKeys, a, key, FALSE) IN IF i = -1 THEN -1 ELSE a.fKeys[i]

\* The place of the next element.
NextPlace(a) == IndTable(a, a.fSize).fIndexTable[a.fSize]

\* At(key) for a key that is not there: a place is taken and named, then the
\* array is expanded.  Without a name (DeepClone) no key is entered.
AppendAt(a, key, v) ==
  LET place == NextPlace(a)
      named == [a EXCEPT !.fContents[place].key = key]
      g     == Grow([named EXCEPT !.fKeys =
                       IF key = NoKey THEN KeyTable(a) ELSE AppendKey(KeyTable(a), a, key, a.fSize)],
                    a.fSize)
  IN  [g EXCEPT !.fContents[place].val = v]

----------------------------------------------------------------------------
(* The operations of Anything on an array                                  *)

Array == [fContents |-> [i \in 0..(AdjustCapacity(InitCapacity) - 1) |-> Empty],
          fKeys |-> <<>>, fSize |-> 0,
          fIndexTable |-> [i \in {} |-> 0],
          fEmptyTable |-> [i \in 0..(AdjustCapacity(InitCapacity) - 1) |-> i]]

Init == any = Array /\ lost = FALSE /\ stale = {} /\ mixed = FALSE /\ calls = 0

\* An unnamed element that takes the place of a removed one has its name.
Unnamed(new) ==
  stale' = stale \cup {new.fIndexTable[i] : i \in
             {j \in 0..(new.fSize - 1) : /\ new.fIndexTable[j] \notin Seqs!Range(any.fIndexTable)
                                         /\ new.fContents[new.fIndexTable[j]].key # NoKey}}

\* Anything::DoAt(key)
Put(k, v) ==
  /\ IF FindIndex(any, k) = -1
       THEN /\ any.fSize < MaxSize /\ NextPlace(any) \in DOMAIN any.fContents
            /\ any' = AppendAt(any, k, v)
       ELSE any' = SetAt(any, FindIndex(any, k), v)
  /\ UNCHANGED <<lost, stale, mixed>>

\* DoAt(key) when the buffers are full: At names a place that is not there.
PutOutside(k) ==
  /\ FindIndex(any, k) = -1 /\ NextPlace(any) \notin DOMAIN any.fContents
  /\ lost' = TRUE
  /\ UNCHANGED <<any, stale, mixed>>

\* Anything::DoAt(i)
PutAt(i, v) ==
  /\ any' = SetAt(any, i, v)
  /\ Unnamed(any')
  /\ UNCHANGED <<lost, mixed>>

\* AnyKeyAssoc() is assigned without its empty key: the place keeps its name.
Remove(i) ==
  LET place == any.fIndexTable[i]
      last  == any.fSize - 1
  IN  /\ any' = [any EXCEPT
        !.fContents[place].val = Null,
        !.fIndexTable = [j \in 0..(last - 1) |-> any.fIndexTable[IF j < i THEN j ELSE j + 1]],
        !.fEmptyTable = [j \in last..(last + Size(@)) |-> IF j = last THEN place ELSE @[j]],
        !.fKeys = IF @ = <<>> THEN @ ELSE UpdateRemoved(@, i),
        !.fSize = last]
      /\ stale' = stale \ {place}
      /\ UNCHANGED <<lost, mixed>>

\* InsertReserve: room is made at the end and rotated to pos.
InsertReserve(a, pos, n) ==
  LET g == Grow(a, a.fSize + n - 1)
  IN  [g EXCEPT
        !.fIndexTable = [j \in 0..(g.fSize - 1) |->
             @[IF j < pos THEN j ELSE IF j < pos + n THEN a.fSize + (j - pos) ELSE j - n]],
        !.fKeys = IF @ = <<>> THEN @ ELSE UpdateInserted(@, pos, n)]

\* Anything::do_insert
Insert(pos, n, v) ==
  /\ any' = LET room == IF pos >= any.fSize THEN any ELSE InsertReserve(any, pos, n)
            IN  Seqs!FoldLeft(LAMBDA a, i : SetAt(a, i, v), room, [j \in 1..n |-> pos + j - 1])
  /\ Unnamed(any')
  /\ UNCHANGED <<lost, mixed>>

\* Mutant: of equal names the one to the right comes first.
MergeRightFirst(a, sign, left, right) ==
  LET key(p) == sign * a.fContents[p].key
      L == Len(left)  R == Len(right)
      m[i \in 0..L, j \in 0..R] ==
        IF i = L THEN SubSeq(right, j + 1, R)
        ELSE IF j = R THEN SubSeq(left, i + 1, L)
        ELSE IF key(left[i + 1]) < key(right[j + 1]) THEN <<left[i + 1]>> \o m[i + 1, j]
        ELSE <<right[j + 1]>> \o m[i, j + 1]
  IN  m[0, 0]

\* MergeByComparer of two runs of places.
Merge(a, sign, left, right) ==
  LET key(p) == sign * a.fContents[p].key
      L == Len(left)  R == Len(right)
      m[i \in 0..L, j \in 0..R] ==
        IF i = L THEN SubSeq(right, j + 1, R)
        ELSE IF j = R THEN SubSeq(left, i + 1, L)
        ELSE IF key(left[i + 1]) <= key(right[j + 1]) THEN <<left[i + 1]>> \o m[i + 1, j]
        ELSE <<right[j + 1]>> \o m[i, j + 1]
  IN  m[0, 0]

\* MergeSortByComparer: the places of positions low to high in their new order.
MergeSort(a, sign) ==
  LET n == a.fSize
      s[low \in 0..n, high \in -1..n] ==
        IF low > high THEN <<>>
        ELSE IF low = high THEN <<a.fIndexTable[low]>>
        ELSE LET middle == (low + high) \div 2
             IN  Merge(a, sign, s[low, middle], s[middle + 1, high])
  IN  s[0, n - 1]

\* RecreateKeyTable: the table is cleared and every name entered again.
RecreateKeyTable(a) ==
  IF a.fKeys = <<>> THEN a
  ELSE [a EXCEPT !.fKeys =
          Seqs!FoldLeft(LAMBDA t, i : IF KeyAt(a, i) = NoKey THEN t ELSE AppendKey(t, a, KeyAt(a, i), i),
                   [i \in DOMAIN a.fKeys |-> -1], [j \in 1..a.fSize |-> j - 1])]

\* SortByKey (1) and SortReverseByKey (-1)
Sort(sign) ==
  LET order == MergeSort(any, sign)
  IN  /\ any' = RecreateKeyTable([any EXCEPT !.fIndexTable = [i \in DOMAIN @ |-> order[i + 1]]])
      /\ mixed' = (mixed \/ stale # {}) /\ stale' = {}
      /\ UNCHANGED lost

\* DoDeepClone: the clone takes the place of the array.  A name that it already
\* has is assigned through its position as if it was a place.
DeepClone ==
  /\ any' = Seqs!FoldLeft(LAMBDA c, i :
             LET k == KeyAt(any, i)
                 v == any.fContents[any.fIndexTable[i]].val
                 f == IF k = NoKey THEN -1 ELSE FindIndex(c, k)
             IN  IF f = -1 THEN AppendAt(c, k, v) ELSE [c EXCEPT !.fContents[f].val = v],
           Array, [j \in 1..any.fSize |-> j - 1])
  /\ mixed' = (mixed \/ stale # {}) /\ stale' = {}
  /\ UNCHANGED lost

Step ==
  \/ \E k \in Keys, v \in Values : Put(k, v)
  \/ \E k \in Keys : PutOutside(k)
  \/ \E i \in 0..(MaxSize - 1), v \in Values : PutAt(i, v)
  \/ \E i \in 0..(any.fSize - 1) : Remove(i)
  \/ \E i \in 0..any.fSize, n \in 1..(MaxSize - any.fSize), v \in Values : Insert(i, n, v)
  \/ \E sign \in {1, -1} : Sort(sign)
  \/ DeepClone

Next ==
  /\ ~lost /\ calls < MaxCalls
  /\ calls' = calls + 1
  /\ Step

Spec == Init /\ [][Next]_vars

----------------------------------------------------------------------------
(* Properties                                                              *)

\* Type invariant.
TypeOK ==
  /\ any.fSize \in 0..MaxSize
  /\ any.fIndexTable \in [0..(any.fSize - 1) -> Nat]
  /\ DOMAIN any.fEmptyTable = any.fSize..(any.fSize + Size(any.fEmptyTable) - 1)
  /\ any.fContents \in [0..(Size(any.fContents) - 1) ->
                          [key : Keys \cup {NoKey}, val : Values \cup {Null}]]
  /\ any.fKeys # <<>> =>
       any.fKeys \in [0..(Size(any.fKeys) - 1) -> {-1, -2} \cup 0..(any.fSize - 1)]
  /\ lost \in BOOLEAN /\ mixed \in BOOLEAN /\ stale \subseteq DOMAIN any.fContents
  /\ calls \in 0..MaxCalls

\* No two positions share a place, and every place in use is inside the
\* buffers, as is, unless the elements fill the buffers, the place of the next
\* element, which At(key) names before it expands them: freed places, places
\* never used and two capacities that grow by different rules fit together.
PlacesInBuffers ==
  LET ind == IndTable(any, any.fSize).fIndexTable
  IN  /\ \A i, j \in 0..any.fSize : i # j => ind[i] # ind[j]
      /\ \A i \in 0..any.fSize :
           i < any.fSize \/ any.fSize < Size(any.fContents) => ind[i] \in DOMAIN any.fContents

\* The elements come to fill the buffers, so that the next name is written
\* outside of them, only by a call that makes the array at least twice as large
\* as its buffers (any[7L] on an array for 4), and never by one after the other.
FullOnlyByJump ==
  [][any'.fSize = Size(any'.fContents) /\ any.fSize < Size(any.fContents)
       => any'.fSize >= 2 * Size(any.fContents)]_vars

\* A name is found at the position that was given it, and a name that no
\* position was given is not found, whatever was removed, inserted or rehashed:
\* the name that an unnamed element takes over from a removed one is not found,
\* though SlotName returns it.  Excepted is an array that was sorted or cloned
\* with such elements, whose key table then has their names.
NamesFound ==
  ~mixed =>
    \A k \in Keys :
      LET at == {i \in 0..(any.fSize - 1) :
                   KeyAt(any, i) = k /\ any.fIndexTable[i] \notin stale}
      IN  /\ Cardinality(at) <= 1
          /\ FindIndex(any, k) = IF at = {} THEN -1 ELSE CHOOSE i \in at : TRUE

\* The array is the list it promises to be, operation by operation, apart from
\* the names that unnamed elements take over from removed ones and until it is
\* sorted or cloned with such names.
AsList ==
  [i \in 1..any.fSize |->
     [any.fContents[any.fIndexTable[i - 1]] EXCEPT
        !.key = IF any.fIndexTable[i - 1] \in stale THEN NoKey ELSE @]]
List == INSTANCE AnyList WITH list <- AsList
ListSpec == List!Init /\ [][mixed' \/ [List!Next]_AsList]_vars

=============================================================================
