------------------------------ MODULE AnyList ------------------------------
(***************************************************************************)
(* What an Anything of array type promises: an ordered list of elements,   *)
(* each with a value and possibly a slot name of its own, that is read and *)
(* changed by position or by name.                                         *)
(***************************************************************************)
EXTENDS Integers, Sequences, FiniteSets

CONSTANTS Keys,      \* slot names: positive numbers, in their order
          Values,    \* what is stored
          MaxSize    \* bound: number of elements

NoKey == 0      \* the empty name
Null  == 0      \* the value of an element nobody has set

VARIABLE list

Init == list = <<>>

\* The position of name k, counted from 0, or -1.
Position(k) ==
  IF \E i \in 1..Len(list) : list[i].key = k
    THEN (CHOOSE i \in 1..Len(list) : list[i].key = k) - 1
    ELSE -1

\* any[k] = v
Put(k, v) ==
  list' = IF Position(k) >= 0 THEN [list EXCEPT ![Position(k) + 1].val = v]
          ELSE Append(list, [key |-> k, val |-> v])

\* any[i] = v: the list becomes as long as needed.
PutAt(i, v) ==
  list' = [j \in 1..(IF i < Len(list) THEN Len(list) ELSE i + 1) |->
             [key |-> IF j <= Len(list) THEN list[j].key ELSE NoKey,
              val |-> IF j = i + 1 THEN v ELSE IF j <= Len(list) THEN list[j].val ELSE Null]]

Remove(i) ==
  list' = [j \in 1..(Len(list) - 1) |-> list[IF j <= i THEN j ELSE j + 1]]

\* n times v before position i.
Insert(i, n, v) ==
  list' = SubSeq(list, 1, i) \o [j \in 1..n |-> [key |-> NoKey, val |-> v]]
            \o SubSeq(list, i + 1, Len(list))

\* The elements in the order of their names; equal names keep their order.
Sort(sign) ==
  LET Before(i, j) == \/ sign * list[i].key < sign * list[j].key
                      \/ list[i].key = list[j].key /\ i < j
      rank(i) == 1 + Cardinality({j \in 1..Len(list) : Before(j, i)})
  IN  list' = [r \in 1..Len(list) |-> list[CHOOSE i \in 1..Len(list) : rank(i) = r]]

Next ==
  \/ \E v \in Values : (\E k \in Keys : Put(k, v)) \/ (\E i \in 0..(MaxSize - 1) : PutAt(i, v))
  \/ \E i \in 0..(Len(list) - 1) : Remove(i)
  \/ \E i \in 0..Len(list), n \in 1..(MaxSize - Len(list)), v \in Values : Insert(i, n, v)
  \/ \E sign \in {1, -1} : Sort(sign)

Spec == Init /\ [][Next]_list
=============================================================================
