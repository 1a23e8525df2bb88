--------------------------- MODULE ModulesProofs ---------------------------
(***************************************************************************)
(* Proofs about Modules, for every configuration and number of resets, and *)
(* about Sessions, the module of an application that keeps most state, for *)
(* every number of requests, resets and disabled sessions.                 *)
(***************************************************************************)
EXTENDS Modules, Sessions, FiniteSetTheorems, TLAPS

----------------------------------------------------------------------------
(* The invariant: how far an iteration has come, and what it has left      *)
(* behind.  Between two iterations the modules that are on are those of    *)
(* the global configuration, apart from the ones that failed to finish.    *)

\* Where an iteration stands in its list.
IndexInList ==
  /\ phase \in Forward => fIndex \in 1..(Len(modules) + 1)
  /\ phase \in Backward => fIndex \in 0..Len(modules)

\* The list that is iterated over.
ListKnown ==
  /\ phase = "install" => modules = fgConfig
  /\ phase = "resetTerminate" => modules = fgConfig
  /\ phase = "resetInstall" => modules = newConfig

\* An iteration that initialises has switched on what is before its position,
\* and nothing else is on.
InitialisedSoFar ==
  phase \in Forward =>
    /\ on \ failed \subseteq Before(fIndex)
    /\ ret = 0 => Before(fIndex) \cap Mandatory \subseteq on

\* An iteration that finishes has nothing on behind it, except what failed.
FinishedSoFar ==
  /\ phase \in Backward => After(fIndex) \cap on \subseteq failed
  /\ phase = "resetTerminate" => on \ failed \subseteq Before(fIndex + 1)

\* A mandatory module that failed to finish ends the reset and the server.
MandatoryFinished ==
  (phase \in Forward \cup {"run"} \/ (phase = "resetTerminate" /\ ret = 0))
    => failed \cap Mandatory = {}

IInv == /\ TypeOK /\ IndexInList /\ ListKnown /\ InitialisedSoFar /\ FinishedSoFar
        /\ MandatoryFinished /\ RunningModules

\* A list is a sequence of modules.
LEMMA ListTypes ==
  ASSUME NEW list \in Lists
  PROVE  /\ list \in Seq(AllModules) /\ Len(list) \in Nat
         /\ \A j \in 1..Len(list) : list[j] \in AllModules
BY ModulesAssumption DEF Lists

\* The sets before and after a position when the iteration moves on.
LEMMA Moving ==
  ASSUME modules \in Lists, NEW k \in 1..Len(modules)
  PROVE  /\ Before(k + 1) = Before(k) \cup {modules[k]}
         /\ After(k - 1) = After(k) \cup {modules[k]}
<1>1. Len(modules) \in Nat  BY ListTypes
<1>2. 1..k = (1..(k - 1)) \cup {k}  BY <1>1
<1>3. k..Len(modules) = ((k + 1)..Len(modules)) \cup {k}  BY <1>1
<1>4. Before(k + 1) = Before(k) \cup {modules[k]}
  <2>1. k + 1 - 1 = k  OBVIOUS
  <2> QED  BY <1>2, <2>1 DEF Before
<1>5. After(k - 1) = After(k) \cup {modules[k]}
  <2>1. k - 1 + 1 = k  OBVIOUS
  <2> QED  BY <1>3, <2>1 DEF After
<1> QED  BY <1>4, <1>5

\* At the two ends of the list.
LEMMA Ends ==
  ASSUME modules \in Lists
  PROVE  /\ Before(1) = {} /\ After(Len(modules)) = {}
         /\ Before(Len(modules) + 1) = Names(modules)
<1>1. Len(modules) \in Nat  BY ListTypes
<1>2. 1..(1 - 1) = {} /\ (Len(modules) + 1)..Len(modules) = {}  BY <1>1
<1>3. Len(modules) + 1 - 1 = Len(modules)  BY <1>1
<1>4. Before(1) = {}  BY <1>2 DEF Before
<1>5. After(Len(modules)) = {}  BY <1>2 DEF After
<1>6. Before(Len(modules) + 1) = Names(modules)  BY <1>3 DEF Before, Names
<1> QED  BY <1>4, <1>5, <1>6

\* The invariant holds at first.
LEMMA InitIInv == Init => IInv
<1> SUFFICES ASSUME Init PROVE IInv  OBVIOUS
<1>1. modules \in Lists /\ fgConfig \in Lists /\ newConfig \in Lists  BY DEF Init, Lists
<1>2. Len(modules) \in Nat  BY <1>1, ListTypes
<1>3. TypeOK  BY <1>1, <1>2, ModulesAssumption DEF Init, TypeOK, Forward
<1>4. IndexInList /\ ListKnown
  BY <1>2 DEF Init, IndexInList, ListKnown, Forward, Backward
<1>5. Before(fIndex) = {}  BY <1>1, Ends DEF Init
<1>6. InitialisedSoFar  BY <1>5 DEF Init, InitialisedSoFar
<1>7. FinishedSoFar /\ MandatoryFinished /\ RunningModules
  BY DEF Init, FinishedSoFar, MandatoryFinished, RunningModules, Backward
<1> QED  BY <1>3, <1>4, <1>6, <1>7 DEF IInv

----------------------------------------------------------------------------
(* The steps.                                                              *)

\* The next module is initialised, or fails.
LEMMA CallInitIInv ==
  ASSUME IInv, NEW ok \in BOOLEAN, CallInit(ok)
  PROVE  /\ IInv'
         /\ fIndex \in 1..Len(modules)
         /\ modules' = modules
         /\ on' \subseteq on \cup {modules[fIndex]} /\ on \subseteq on'
         /\ Before(fIndex) \cap Mandatory \subseteq on
         /\ on \ failed \subseteq Before(fIndex)
<1> USE DEF IInv
<1> DEFINE m == modules[fIndex]
           done == IF ok THEN {m} \cap registered ELSE {}
<1>1. /\ phase \in Forward /\ HasMore /\ ret = 0
      /\ on' = on \cup done /\ failed' = failed \ done
      /\ registered' = registered
      /\ ret' = (IF MayGoOn(m, ok) THEN 0 ELSE -1)
      /\ fIndex' = fIndex + 1
      /\ UNCHANGED <<phase, modules, fgConfig, newConfig, resets>>
  BY DEF CallInit, Advance
<1>2. phase \notin Backward /\ phase # "run" /\ phase # "resetTerminate"
  BY <1>1 DEF Forward, Backward
<1>3. modules \in Lists /\ Len(modules) \in Nat  BY ListTypes DEF TypeOK
<1>4. fIndex \in 1..Len(modules)
  BY <1>1, <1>3 DEF IndexInList, HasMore
<1>5. done \subseteq {m} /\ done \subseteq registered  OBVIOUS
<1>6. ret' = 0 /\ m \in Mandatory => m \in on'
  BY <1>1 DEF MayGoOn
<1>7. ret' \in {0, -1}  BY <1>1
<1> HIDE DEF done
<1>8. TypeOK'
  <2>1. fIndex' \in 0..(Len(modules') + 1)  BY <1>1, <1>3, <1>4
  <2>2. on' \subseteq registered' /\ failed' \subseteq on' /\ registered' \subseteq Registered
    BY <1>1, <1>5 DEF TypeOK
  <2> QED  BY <1>1, <1>7, <2>1, <2>2 DEF TypeOK
<1>9. IndexInList' /\ ListKnown'
  <2>1. fIndex' \in 1..(Len(modules') + 1)  BY <1>1, <1>3, <1>4
  <2> QED  BY <1>1, <1>2, <2>1 DEF IndexInList, ListKnown
<1>10. Before(fIndex)' = Before(fIndex) \cup {m}
  <2>1. Before(fIndex)' = Before(fIndex + 1)  BY <1>1 DEF Before
  <2> QED  BY <1>3, <1>4, <2>1, Moving
<1>11. on \ failed \subseteq Before(fIndex) /\ Before(fIndex) \cap Mandatory \subseteq on
  BY <1>1 DEF InitialisedSoFar
<1> HIDE DEF m
<1>12. InitialisedSoFar'
  <2>1. on' \ failed' \subseteq Before(fIndex)'  BY <1>1, <1>5, <1>10, <1>11
  <2>2. ret' = 0 => Before(fIndex)' \cap Mandatory \subseteq on'
    BY <1>1, <1>6, <1>10, <1>11
  <2> QED  BY <2>1, <2>2 DEF InitialisedSoFar
<1>13. FinishedSoFar' /\ RunningModules'
  BY <1>1, <1>2 DEF FinishedSoFar, RunningModules
<1>14. MandatoryFinished'  BY <1>1 DEF MandatoryFinished
<1> QED  BY <1>1, <1>4, <1>5, <1>8, <1>9, <1>11, <1>12, <1>13, <1>14 DEF m

\* The next module is finished, or fails.
LEMMA CallFinisIInv ==
  ASSUME IInv, NEW ok \in BOOLEAN, CallFinis(ok)
  PROVE  /\ IInv'
         /\ fIndex \in 1..Len(modules)
         /\ modules' = modules
         /\ on \subseteq on' \cup {modules[fIndex]} /\ on' \subseteq on
         /\ After(fIndex) \cap on \subseteq failed
<1> USE DEF IInv
<1> DEFINE m == modules[fIndex]
           kept == IF ok THEN {} ELSE {m} \cap Static \cap on
<1>1. /\ phase \in Backward /\ HasMore /\ ret = 0
      /\ on' = (on \ {m}) \cup kept /\ failed' = (failed \ {m}) \cup kept
      /\ registered' = registered \ ({m} \ Static)
      /\ ret' = (IF MayGoOn(m, ok) THEN 0 ELSE -1)
      /\ fIndex' = fIndex - 1
      /\ UNCHANGED <<phase, modules, fgConfig, newConfig, resets>>
  BY DEF CallFinis, Advance, Forward, Backward
<1>2. phase \notin Forward /\ phase # "run"  BY <1>1 DEF Forward, Backward
<1>3. modules \in Lists /\ Len(modules) \in Nat  BY ListTypes DEF TypeOK
<1>4. fIndex \in 1..Len(modules)
  BY <1>1, <1>2, <1>3 DEF IndexInList, HasMore
<1>5. kept \subseteq {m} /\ kept \subseteq Static /\ kept \subseteq on  OBVIOUS
<1>6. ret' \in {0, -1} /\ (ret' = 0 => kept \cap Mandatory = {})  BY <1>1 DEF MayGoOn
<1> HIDE DEF kept
<1>7. TypeOK'
  <2>1. fIndex' \in 0..(Len(modules') + 1)  BY <1>1, <1>3, <1>4
  <2>2. on' \subseteq registered' /\ failed' \subseteq on' /\ registered' \subseteq Registered
    BY <1>1, <1>5 DEF TypeOK
  <2> QED  BY <1>1, <1>6, <2>1, <2>2 DEF TypeOK
<1>8. IndexInList' /\ ListKnown'
  <2>1. fIndex' \in 0..Len(modules')  BY <1>1, <1>3, <1>4
  <2> QED  BY <1>1, <1>2, <2>1 DEF IndexInList, ListKnown
<1>9. After(fIndex)' = After(fIndex) \cup {m}
  <2>1. After(fIndex)' = After(fIndex - 1)  BY <1>1 DEF After
  <2> QED  BY <1>3, <1>4, <2>1, Moving
<1>10. Before(fIndex + 1) = Before(fIndex + 1)' \cup {m}
  <2>1. fIndex' + 1 = fIndex  BY <1>1, <1>4
  <2>2. Before(fIndex + 1)' = Before(fIndex)  BY <1>1, <2>1 DEF Before
  <2> QED  BY <1>3, <1>4, <2>2, Moving
<1>11. After(fIndex) \cap on \subseteq failed  BY <1>1 DEF FinishedSoFar
<1>12. phase = "resetTerminate" => on \ failed \subseteq Before(fIndex + 1)
  BY DEF FinishedSoFar
<1> HIDE DEF m
<1>13. FinishedSoFar'
  <2>1. After(fIndex)' \cap on' \subseteq failed'  BY <1>1, <1>5, <1>9, <1>11
  <2>2. phase = "resetTerminate" => on' \ failed' \subseteq Before(fIndex + 1)'
    BY <1>1, <1>5, <1>10, <1>12
  <2> QED  BY <1>1, <2>1, <2>2 DEF FinishedSoFar
<1>14. InitialisedSoFar' /\ RunningModules'
  BY <1>1, <1>2 DEF InitialisedSoFar, RunningModules
<1>15. MandatoryFinished'  BY <1>1, <1>2, <1>6 DEF MandatoryFinished
<1> QED  BY <1>1, <1>4, <1>5, <1>7, <1>8, <1>11, <1>13, <1>14, <1>15 DEF m

\* An iteration begins: it stands at the end of its list that it begins at.
LEMMA ForEachBegins ==
  ASSUME NEW kind \in Forward \cup Backward, NEW list \in Lists, ForEach(kind, list)
  PROVE  /\ modules' \in Lists /\ fIndex' \in 0..(Len(modules') + 1) /\ ret' \in {0, -1}
         /\ IndexInList'
         /\ kind \in Forward => Before(fIndex)' = {}
         /\ kind \in Backward => After(fIndex)' = {} /\ Before(fIndex + 1)' = Names(list)
<1>1. phase' = kind /\ modules' = list /\ ret' = 0  BY DEF ForEach
<1>2. Len(list) \in Nat  BY ListTypes
<1>3. CASE kind \in Forward
  <2>1. fIndex' = 1 /\ kind \notin Backward  BY <1>3 DEF ForEach, Forward, Backward
  <2>2. (modules \in Lists)' /\ (Before(1) = {})'
    BY <1>1, <1>2, 1..(1 - 1) = {} DEF Before
  <2>3. Before(fIndex)' = {}  BY <2>1, <2>2 DEF Before
  <2> QED  BY <1>1, <1>2, <1>3, <2>1, <2>3 DEF IndexInList
<1>4. CASE kind \in Backward
  <2>1. fIndex' = Len(list) /\ kind \notin Forward  BY <1>4 DEF ForEach, Forward, Backward
  <2>2. (Len(list) + 1)..Len(list) = {} /\ Len(list) + 1 - 1 = Len(list)  BY <1>2
  <2>3. After(fIndex)' = {}  BY <1>1, <2>1, <2>2 DEF After
  <2>4. Before(fIndex + 1)' = Names(list)  BY <1>1, <2>1, <2>2 DEF Before, Names
  <2> QED  BY <1>1, <1>2, <1>4, <2>1, <2>3, <2>4 DEF IndexInList
<1> QED  BY <1>3, <1>4

\* The other steps preserve the invariant, and switch nothing on or off.
LEMMA BooterIInv ==
  ASSUME IInv,
         \/ Booted \/ ResetTerminated \/ ResetDone \/ Halted \/ Halt \/ ResetUnreadable
         \/ \E list \in NewLists : Reset(list)
  PROVE  IInv' /\ on' = on /\ (phase \in Forward /\ fIndex' # fIndex => FALSE)
<1> USE DEF IInv
<1>0. TypeOK /\ modules \in Lists /\ fgConfig \in Lists /\ newConfig \in Lists /\ Len(modules) \in Nat
  BY ListTypes DEF TypeOK
<1>1. CASE Booted
  <2>1. /\ phase = "install" /\ phase' = (IF ret = 0 THEN "run" ELSE "exit")
        /\ IterationEnds
        /\ UNCHANGED <<modules, fIndex, ret, fgConfig, newConfig, registered, on, failed, resets>>
    BY <1>1 DEF Booted
  <2>2. phase' \notin Forward \cup Backward  BY <2>1 DEF Forward, Backward
  <2>3. TypeOK'  BY <2>1 DEF TypeOK
  <2>4. ret = 0 => /\ on \ failed \subseteq Names(fgConfig)
                   /\ Names(fgConfig) \cap Mandatory \subseteq on \ failed
    <3> SUFFICES ASSUME ret = 0
                 PROVE  /\ on \ failed \subseteq Names(fgConfig)
                        /\ Names(fgConfig) \cap Mandatory \subseteq on \ failed
      OBVIOUS
    <3>1. fIndex = Len(modules) + 1
      BY <1>0, <2>1 DEF IterationEnds, HasMore, IndexInList, Forward
    <3>2. on \ failed \subseteq Before(fIndex) /\ Before(fIndex) \cap Mandatory \subseteq on
      BY <2>1 DEF InitialisedSoFar, Forward
    <3>3. modules = fgConfig  BY <2>1 DEF ListKnown
    <3>4. failed \cap Mandatory = {}  BY <2>1 DEF MandatoryFinished, Forward
    <3> QED  BY <1>0, <3>1, <3>2, <3>3, <3>4, Ends
  <2>5. RunningModules'  BY <2>1, <2>4 DEF RunningModules, Names
  <2>6. IndexInList' /\ ListKnown' /\ InitialisedSoFar' /\ FinishedSoFar'
    BY <2>2 DEF IndexInList, ListKnown, InitialisedSoFar, FinishedSoFar, Forward, Backward
  <2>7. MandatoryFinished'  BY <2>1 DEF MandatoryFinished, Forward
  <2> QED  BY <2>1, <2>3, <2>5, <2>6, <2>7
<1>2. CASE ResetTerminated
  <2>1. /\ phase = "resetTerminate" /\ IterationEnds /\ ret = 0
        /\ ForEach("resetInstall", newConfig)
        /\ UNCHANGED <<fgConfig, newConfig, registered, on, failed, resets>>
    BY <1>2 DEF ResetTerminated
  <2>2. phase' = "resetInstall" /\ modules' = newConfig  BY <2>1 DEF ForEach
  <2>3. "resetInstall" \in Forward /\ "resetInstall" \notin Backward  BY DEF Forward, Backward
  <2>4. /\ fIndex' \in 0..(Len(modules') + 1) /\ ret' \in {0, -1}
        /\ IndexInList' /\ Before(fIndex)' = {}
    BY <1>0, <2>1, <2>3, ForEachBegins
  <2>5. TypeOK'  BY <1>0, <2>1, <2>2, <2>3, <2>4 DEF TypeOK
  <2>6. on \ failed = {}
    <3>1. fIndex = 0
      BY <1>0, <2>1 DEF IterationEnds, HasMore, IndexInList, Forward, Backward
    <3>2. on \ failed \subseteq Before(1)  BY <2>1, <3>1 DEF FinishedSoFar
    <3> QED  BY <1>0, <3>2, Ends
  <2>7. InitialisedSoFar'  BY <2>1, <2>4, <2>6 DEF InitialisedSoFar
  <2>8. ListKnown' /\ FinishedSoFar' /\ RunningModules'
    BY <2>1, <2>2, <2>3 DEF ListKnown, FinishedSoFar, RunningModules
  <2>9. phase \notin Forward  BY <2>1 DEF Forward
  <2>10. MandatoryFinished'  BY <2>1 DEF MandatoryFinished
  <2> QED  BY <2>1, <2>4, <2>5, <2>7, <2>8, <2>9, <2>10
<1>3. CASE ResetDone
  <2>1. /\ IterationEnds
        /\ phase = "resetInstall" \/ (phase = "resetTerminate" /\ ret = -1)
        /\ fgConfig' = newConfig
        /\ phase' = (IF ret = 0 THEN "run" ELSE "shutdown")
        /\ UNCHANGED <<modules, fIndex, ret, newConfig, registered, on, failed, resets>>
    BY <1>3 DEF ResetDone
  <2>2. phase' \notin Forward \cup Backward  BY <2>1 DEF Forward, Backward
  <2>3. TypeOK'  BY <1>0, <2>1 DEF TypeOK
  <2>4. ret = 0 => /\ on \ failed \subseteq Names(newConfig)
                   /\ Names(newConfig) \cap Mandatory \subseteq on \ failed
    <3> SUFFICES ASSUME ret = 0
                 PROVE  /\ on \ failed \subseteq Names(newConfig)
                        /\ Names(newConfig) \cap Mandatory \subseteq on \ failed
      OBVIOUS
    <3>1. phase = "resetInstall"  BY <2>1
    <3>2. fIndex = Len(modules) + 1
      BY <1>0, <2>1, <3>1 DEF IterationEnds, HasMore, IndexInList, Forward
    <3>3. on \ failed \subseteq Before(fIndex) /\ Before(fIndex) \cap Mandatory \subseteq on
      BY <3>1 DEF InitialisedSoFar, Forward
    <3>4. modules = newConfig  BY <3>1 DEF ListKnown
    <3>5. failed \cap Mandatory = {}  BY <3>1 DEF MandatoryFinished, Forward
    <3> QED  BY <1>0, <3>2, <3>3, <3>4, <3>5, Ends
  <2>5. RunningModules'  BY <2>1, <2>4 DEF RunningModules, Names
  <2>6. IndexInList' /\ ListKnown' /\ InitialisedSoFar' /\ FinishedSoFar'
    BY <2>2 DEF IndexInList, ListKnown, InitialisedSoFar, FinishedSoFar, Forward, Backward
  <2>7. MandatoryFinished'  BY <2>1 DEF MandatoryFinished, Forward
  <2> QED  BY <2>1, <2>3, <2>5, <2>6, <2>7
<1>4. CASE Halted \/ ResetUnreadable
  <2>1. /\ phase' \in {"halted", "shutdown"} /\ resets' \in 0..NumResets
        /\ UNCHANGED <<modules, fIndex, ret, fgConfig, newConfig, registered, on, failed>>
    BY <1>4, ModulesAssumption DEF Halted, ResetUnreadable, TypeOK
  <2>2. phase' \notin Forward \cup Backward  BY <2>1 DEF Forward, Backward
  <2>3. TypeOK'  BY <2>1 DEF TypeOK
  <2>4. /\ IndexInList' /\ ListKnown' /\ InitialisedSoFar' /\ FinishedSoFar'
        /\ MandatoryFinished' /\ RunningModules'
    BY <2>1, <2>2 DEF IndexInList, ListKnown, InitialisedSoFar, FinishedSoFar, MandatoryFinished,
                      RunningModules, Forward, Backward
  <2> QED  BY <2>1, <2>3, <2>4
<1>5. CASE Halt
  <2>1. /\ phase \in {"run", "shutdown"} /\ ForEach("terminate", BootList)
        /\ UNCHANGED <<fgConfig, newConfig, registered, on, failed, resets>>
    BY <1>5 DEF Halt
  <2>2. phase' = "terminate"  BY <2>1 DEF ForEach
  <2>3. "terminate" \in Backward /\ "terminate" \notin Forward  BY DEF Forward, Backward
  <2>4. BootList \in Lists  BY DEF Lists
  <2>5. /\ modules' \in Lists /\ fIndex' \in 0..(Len(modules') + 1) /\ ret' \in {0, -1}
        /\ IndexInList' /\ After(fIndex)' = {}
    BY <2>1, <2>3, <2>4, ForEachBegins
  <2>6. TypeOK'  BY <2>1, <2>2, <2>3, <2>5 DEF TypeOK
  <2>7. FinishedSoFar'  BY <2>2, <2>5 DEF FinishedSoFar
  <2>8. ListKnown' /\ InitialisedSoFar' /\ MandatoryFinished' /\ RunningModules'
    BY <2>2, <2>3 DEF ListKnown, InitialisedSoFar, MandatoryFinished, RunningModules
  <2>9. phase \notin Forward  BY <2>1 DEF Forward
  <2> QED  BY <2>1, <2>5, <2>6, <2>7, <2>8, <2>9
<1>6. ASSUME NEW list \in NewLists, Reset(list)
      PROVE  IInv' /\ on' = on /\ phase \notin Forward
  <2>1. /\ phase = "run" /\ resets < NumResets
        /\ resets' = resets + 1 /\ newConfig' = list
        /\ ForEach("resetTerminate", fgConfig)
        /\ UNCHANGED <<fgConfig, registered, on, failed>>
    BY <1>6 DEF Reset
  <2>2. phase' = "resetTerminate" /\ modules' = fgConfig  BY <2>1 DEF ForEach
  <2>3. "resetTerminate" \in Backward /\ "resetTerminate" \notin Forward  BY DEF Forward, Backward
  <2>4. /\ modules' \in Lists /\ fIndex' \in 0..(Len(modules') + 1) /\ ret' \in {0, -1}
        /\ IndexInList' /\ After(fIndex)' = {} /\ Before(fIndex + 1)' = Names(fgConfig)
    BY <1>0, <2>1, <2>3, ForEachBegins
  <2>5. resets' \in 0..NumResets  BY <2>1, ModulesAssumption DEF TypeOK
  <2>6. TypeOK'  BY <2>1, <2>2, <2>3, <2>4, <2>5 DEF TypeOK, Lists
  <2>7. on \ failed \subseteq Names(fgConfig)  BY <2>1 DEF RunningModules
  <2>8. FinishedSoFar'  BY <2>1, <2>2, <2>4, <2>7 DEF FinishedSoFar
  <2>9. ListKnown' /\ InitialisedSoFar' /\ MandatoryFinished' /\ RunningModules'
    BY <2>1, <2>2, <2>3 DEF ListKnown, InitialisedSoFar, MandatoryFinished, RunningModules
  <2>10. phase \notin Forward  BY <2>1 DEF Forward
  <2> QED  BY <2>1, <2>4, <2>6, <2>8, <2>9, <2>10
<1> QED  BY <1>1, <1>2, <1>3, <1>4, <1>5, <1>6

\* What the steps of Next are.
LEMMA NextSteps ==
  ASSUME Next
  PROVE  \/ \E ok \in BOOLEAN : CallInit(ok)
         \/ \E ok \in BOOLEAN : CallFinis(ok)
         \/ Booted \/ ResetTerminated \/ ResetDone \/ Halted \/ Halt \/ ResetUnreadable
         \/ \E list \in NewLists : Reset(list)
BY DEF Next

\* The inductive invariant holds in every reachable state.
THEOREM Invariance == Spec => []IInv
<1>1. IInv /\ [Next]_vars => IInv'
  <2> SUFFICES ASSUME IInv, [Next]_vars PROVE IInv'  OBVIOUS
  <2>1. CASE Next  BY <2>1, NextSteps, CallInitIInv, CallFinisIInv, BooterIInv
  <2>2. CASE UNCHANGED vars
    BY <2>2 DEF vars, IInv, TypeOK, IndexInList, ListKnown, InitialisedSoFar, FinishedSoFar,
                MandatoryFinished, RunningModules, Before, After, Names
  <2> QED  BY <2>1, <2>2
<1> QED  BY <1>1, InitIInv, PTL DEF Spec

----------------------------------------------------------------------------
(* The theorems.                                                           *)

\* Type correctness: in particular only registered modules are on.
THEOREM TypeCorrect == Spec => []TypeOK
<1>1. IInv => TypeOK  BY DEF IInv
<1> QED  BY <1>1, Invariance, PTL

\* No module is initialised a second time without having been finished, for
\* any configurations and any number of resets, unless one list names it twice.
THEOREM InitialisedOnce == Spec => NotInitialisedTwice
<1> DEFINE A == (phase \in Forward /\ fIndex' # fIndex) =>
                   modules[fIndex] \notin (on \ failed) \ Before(fIndex)
<1>1. IInv /\ [Next]_vars => [A]_vars
  <2> SUFFICES ASSUME IInv, Next, phase \in Forward, fIndex' # fIndex
               PROVE  on \ failed \subseteq Before(fIndex)
    OBVIOUS
  <2>1. ASSUME NEW ok \in BOOLEAN, CallInit(ok) PROVE on \ failed \subseteq Before(fIndex)
    BY <2>1, CallInitIInv
  <2>2. ASSUME NEW ok \in BOOLEAN, CallFinis(ok) PROVE FALSE
    BY <2>2 DEF CallFinis, Forward, Backward
  <2> QED  BY <2>1, <2>2, NextSteps, BooterIInv
<1> QED  BY <1>1, Invariance, PTL DEF Spec, NotInitialisedTwice

\* Modules are switched on after the mandatory ones before them in the list,
\* and off before the ones that precede them.
THEOREM ModulesNest == Spec => NestedOrder
<1> DEFINE A == /\ \A m \in on' \ on : \E i \in 1..Len(modules) :
                     modules[i] = m /\ Before(i) \cap Mandatory \subseteq on
                /\ \A m \in on \ on' : \E i \in 1..Len(modules) :
                     modules[i] = m /\ After(i) \cap on \subseteq failed
<1>1. IInv /\ [Next]_vars => [A]_vars
  <2> SUFFICES ASSUME IInv, Next PROVE A  OBVIOUS
  <2>1. ASSUME NEW ok \in BOOLEAN, CallInit(ok) PROVE A
    <3>1. /\ fIndex \in 1..Len(modules) /\ on \subseteq on'
          /\ on' \subseteq on \cup {modules[fIndex]}
          /\ Before(fIndex) \cap Mandatory \subseteq on
      BY <2>1, CallInitIInv
    <3> QED  BY <3>1
  <2>2. ASSUME NEW ok \in BOOLEAN, CallFinis(ok) PROVE A
    <3>1. /\ fIndex \in 1..Len(modules) /\ on' \subseteq on
          /\ on \subseteq on' \cup {modules[fIndex]}
          /\ After(fIndex) \cap on \subseteq failed
      BY <2>2, CallFinisIInv
    <3> QED  BY <3>1
  <2> QED  BY <2>1, <2>2, NextSteps, BooterIInv
<1> QED  BY <1>1, Invariance, PTL DEF Spec, NestedOrder

\* Whatever lists the resets bring, the server runs with the mandatory modules
\* of its configuration on and with nothing on that it does not name, but what
\* failed to finish.
THEOREM RunsConfigured == Spec => []RunningModules
<1>1. IInv => RunningModules  BY DEF IInv
<1> QED  BY <1>1, Invariance, PTL

----------------------------------------------------------------------------
(* Sessions.  The invariant: the mutex, the references and the contexts    *)
(* agree; fSessionsMutex is held where the code says so, and what a        *)
(* cleanup has yet to do is in the lists; every session that was made is   *)
(* in exactly one place; a request that has yet to make its session has    *)
(* been counted for it.                                                    *)

\* A context refers to a session exactly while its thread holds the session's
\* mutex, and only requests have such a context.
ContextHolds ==
  /\ \A t \in Threads, o \in Objects : fMutex[o] = t <=> ctx[t] = o
  /\ \A o \in Objects : fRefCount[o] = IF fMutex[o] = Nobody THEN 0 ELSE 1
  /\ \A t \in Threads : t \notin Requests => ctx[t] = NoObj

\* What the local variables of a thread say at each place.
LocalsKnown ==
  /\ \A t \in Threads : session[t] \in 0..created /\ ctx[t] \in 0..created
  /\ \A t \in Threads : pc[t] = "add" => /\ t \in Requests /\ id[t] \in Ids /\ sessions2Delete[t] = {}
                                         /\ session[t] # NoObj /\ session[t] = ctx[t]
  /\ \A r \in Requests : /\ sessions2Delete[r] # {} => pc[r] \in {"cleaning", "make", "end", "undefined"}
                         /\ ctx[r] \notin sessions2Delete[r]

\* The places at which a thread holds fSessionsMutex.
MutexHeld ==
  /\ \A t \in Threads : pc[t] \in {"lookup", "refresh", "cleaning", "terminate"} => fSessionsMutex = t
  /\ \A t \in {Handler, Main} : pc[t] = "end" => fSessionsMutex = t
  /\ \A t \in Threads : pc[t] = "cleaning" => t \in Requests \cup {Cleaner}

\* The sessions in both lists.
Listed == Active(fSessions) \cup fDisabledSessions

\* What the cleanup that holds fSessionsMutex has yet to do; its own context
\* does not refer to what it takes.
CleaningKnown ==
  /\ todo \subseteq Listed /\ found \in Listed \cup {NoObj} /\ found \notin todo
  /\ todo # {} \/ found # NoObj =>
       \E t \in Threads : fSessionsMutex = t /\ pc[t] \in {"cleaning", "undefined"}
  /\ \A t \in Threads : pc[t] = "cleaning" /\ found # NoObj => ctx[t] # found

\* What thread t has in its hands: the session it makes, those it deletes.
Hands(t) == {o \in Objects : o \in sessions2Delete[t] \/ (pc[t] = "add" /\ session[t] = o)}

\* No session has two places.
PlacesApart ==
  /\ \A i, j \in Ids : fSessions[i] = fSessions[j] => i = j \/ fSessions[i] = NoObj
  /\ \A t, u \in Threads, o \in Objects : o \in Hands(t) /\ o \in Hands(u) => t = u
  /\ \A t \in Threads, o \in Objects :
       o \in Hands(t) => o \notin Active(fSessions) /\ o \notin fDisabledSessions /\ o \notin deleted
  /\ \A o \in fDisabledSessions : o \notin Active(fSessions) /\ o \notin deleted
  /\ \A o \in deleted : o \notin Active(fSessions)

\* Only sessions that were made have a place, and every one of them has.
PlacesFound ==
  \A o \in Objects : o \in 1..created <=>
    \/ o \in Active(fSessions) \/ o \in fDisabledSessions \/ o \in deleted
    \/ \E t \in Threads : o \in Hands(t)

\* The requests that may still make a session.
MakePlaces == {"lookup", "refresh", "push", "prepare", "count", "cleanup", "cleaning", "make"}
Making == {r \in Requests : pc[r] \in MakePlaces}

\* A request makes at most one session.
OneSessionEach == created + Cardinality(Making) <= requests

SInv ==
  /\ SessionsTypeOK /\ ContextHolds /\ LocalsKnown /\ MutexHeld /\ CleaningKnown
  /\ PlacesApart /\ PlacesFound /\ OneSessionEach

\* The threads are different ones.
LEMMA ThreadsDiffer ==
  /\ Cleaner \in Threads /\ Admin \in Threads /\ Handler \in Threads /\ Main \in Threads
  /\ Cleaner \notin Requests /\ Admin \notin Requests /\ Handler \notin Requests /\ Main \notin Requests
  /\ Requests \subseteq Threads /\ Nobody \notin Threads
BY SessionsAssumption DEF Threads

\* The threads that handle no requests are different ones.
LEMMA OthersDiffer == Cleaner \notin {Admin, Handler, Main} /\ Admin \notin {Handler, Main} /\ Handler # Main
BY SessionsAssumption

\* The ids and the session objects.
LEMMA ObjectsAndIds ==
  /\ NumRequests \in Nat /\ NoObj \notin Objects /\ NoId \notin Ids
  /\ Objects \subseteq Ids /\ Objects \subseteq Nat
  /\ \A c \in Nat : c + 1 <= NumRequests => c + 1 \in Objects
<1>1. NumRequests \in Nat /\ Given \cap Nat = {}  BY SessionsAssumption
<1>2. 0 \in Nat /\ 0 \notin 1..NumRequests  BY <1>1
<1>3. 1..NumRequests \subseteq Nat  BY <1>1
<1>4. \A c \in Nat : c + 1 <= NumRequests => c + 1 \in 1..NumRequests  BY <1>1
<1> QED  BY <1>1, <1>2, <1>3, <1>4 DEF Objects, Ids, NoObj, NoId

\* The sessions of a list are session objects.
LEMMA ActiveObjects ==
  ASSUME NEW sessions \in [Ids -> Objects \cup {NoObj}]
  PROVE  Active(sessions) \subseteq Objects
BY ObjectsAndIds DEF Active

----------------------------------------------------------------------------
(* Mutex, references and contexts.                                         *)

\* InitSession moves a context from one session to another that is free or
\* its own, and leaves nothing locked behind it.
LEMMA InitSessionHolds ==
  ASSUME SessionsTypeOK, ContextHolds,
         NEW t \in Threads, NEW o \in Objects \cup {NoObj}, InitSession(t, o),
         o # NoObj => t \in Requests /\ CanLock(t, o)
  PROVE  /\ ContextHolds'
         /\ ctx' \in [Threads -> Objects \cup {NoObj}]
         /\ fMutex' \in [Objects -> Threads \cup {Nobody}]
         /\ fRefCount' \in [Objects -> Nat]
         /\ \A u \in Threads : ctx'[u] = IF u = t THEN o ELSE ctx[u]
<1>1. /\ ctx \in [Threads -> Objects \cup {NoObj}]
      /\ fMutex \in [Objects -> Threads \cup {Nobody}]
      /\ fRefCount \in [Objects -> Nat]
  BY DEF SessionsTypeOK
<1>2. NoObj \notin Objects /\ Nobody \notin Threads  BY ObjectsAndIds, ThreadsDiffer
<1>3. \A u \in Threads : ctx'[u] = IF u = t THEN o ELSE ctx[u]
  BY <1>1 DEF InitSession
<1>4. ctx' \in [Threads -> Objects \cup {NoObj}]  BY <1>1 DEF InitSession
<1>5. \A s \in Objects : fMutex'[s] = IF s = o THEN t ELSE IF s = ctx[t] THEN Nobody ELSE fMutex[s]
  BY DEF InitSession
<1>6. fMutex' \in [Objects -> Threads \cup {Nobody}]  BY <1>1 DEF InitSession
<1>7. \A s \in Objects : fMutex[s] = t <=> ctx[t] = s  BY DEF ContextHolds
<1>8. o # NoObj => fMutex[o] \in {Nobody, t}  BY DEF CanLock
<1>9. \A u \in Threads, s \in Objects : fMutex'[s] = u <=> ctx'[u] = s
  <2> SUFFICES ASSUME NEW u \in Threads, NEW s \in Objects  PROVE fMutex'[s] = u <=> ctx'[u] = s
    OBVIOUS
  <2>1. fMutex[s] = u <=> ctx[u] = s  BY DEF ContextHolds
  <2>2. CASE s = o
    <3>1. fMutex[s] = Nobody \/ fMutex[s] = t  BY <2>2, <1>8, <1>2
    <3> QED  BY <3>1, <2>1, <2>2, <1>2, <1>3, <1>5, <1>7
  <2>3. CASE s # o /\ s = ctx[t]
    <3>1. fMutex[s] = t  BY <2>3, <1>7
    <3>2. fMutex'[s] = Nobody  BY <2>3, <1>5
    <3> QED  BY <3>1, <3>2, <2>1, <2>3, <1>2, <1>3
  <2>4. CASE s # o /\ s # ctx[t]
    <3>1. fMutex'[s] = fMutex[s]  BY <2>4, <1>5
    <3> QED  BY <3>1, <2>1, <2>4, <1>3
  <2> QED  BY <2>2, <2>3, <2>4
<1>10. \A s \in Objects : /\ fRefCount'[s] \in Nat
                          /\ fRefCount'[s] = IF fMutex'[s] = Nobody THEN 0 ELSE 1
  <2> SUFFICES ASSUME NEW s \in Objects
               PROVE  /\ fRefCount'[s] \in Nat
                      /\ fRefCount'[s] = IF fMutex'[s] = Nobody THEN 0 ELSE 1
    OBVIOUS
  <2>1. fRefCount[s] = IF fMutex[s] = Nobody THEN 0 ELSE 1  BY DEF ContextHolds
  <2>2. fRefCount'[s] =
          fRefCount[s] + (IF o # ctx[t] THEN (IF s = o THEN 1 ELSE IF s = ctx[t] THEN -1 ELSE 0) ELSE 0)
    BY DEF InitSession
  <2>3. CASE s = o /\ o # ctx[t]
    <3>1. fMutex[s] = Nobody  BY <2>3, <1>8, <1>7, <1>2
    <3> QED  BY <3>1, <2>1, <2>2, <2>3, <1>5, <1>2
  <2>4. CASE s # o /\ s = ctx[t]
    <3>1. fMutex[s] # Nobody  BY <2>4, <1>7, <1>2
    <3> QED  BY <3>1, <2>1, <2>2, <2>4, <1>5, <1>2
  <2>5. CASE s = o /\ o = ctx[t]
    <3>1. fMutex[s] # Nobody  BY <2>5, <1>7, <1>2
    <3> QED  BY <3>1, <2>1, <2>2, <2>5, <1>5, <1>2
  <2>6. CASE s # o /\ s # ctx[t]
    BY <2>1, <2>2, <2>6, <1>5
  <2> QED  BY <2>3, <2>4, <2>5, <2>6
<1>11. fRefCount' = [s \in Objects |-> fRefCount'[s]]  BY DEF InitSession
<1>12. fRefCount' \in [Objects -> Nat]  BY <1>10, <1>11
<1>13. \A u \in Threads : u \notin Requests => ctx'[u] = NoObj
  <2>1. t \notin Requests => o = NoObj  OBVIOUS
  <2> QED  BY <2>1, <1>3 DEF ContextHolds
<1>14. ContextHolds'  BY <1>9, <1>10, <1>13 DEF ContextHolds
<1> QED  BY <1>3, <1>4, <1>6, <1>12, <1>14

\* A context that stays as it is holds what it held.
LEMMA ContextKept ==
  ASSUME ContextHolds, UNCHANGED <<ctx, fMutex, fRefCount>>
  PROVE  ContextHolds'
BY DEF ContextHolds

----------------------------------------------------------------------------
(* Places.                                                                 *)

\* A step that moves no session between places leaves the places as they are.
LEMMA PlacesUnmoved ==
  ASSUME PlacesApart, PlacesFound,
         UNCHANGED <<fSessions, fDisabledSessions, created, deleted, sessions2Delete>>,
         \A t \in Threads : pc'[t] = "add" <=> pc[t] = "add",
         \A t \in Threads : pc[t] = "add" => session'[t] = session[t]
  PROVE  PlacesApart' /\ PlacesFound'
<1>1. \A t \in Threads : Hands(t)' = Hands(t)  BY DEF Hands
<1>2. Active(fSessions') = Active(fSessions)  OBVIOUS
<1> QED  BY <1>1, <1>2 DEF PlacesApart, PlacesFound

----------------------------------------------------------------------------
(* Counting.                                                               *)

\* The requests that may still make a session are finitely many.
LEMMA MakingFinite ==
  ASSUME NEW S \in SUBSET Requests
  PROVE  IsFiniteSet(S) /\ Cardinality(S) \in Nat
BY SessionsAssumption, FS_Subset, FS_CardinalityType

\* A step after which no other request makes a session.
LEMMA CountKept ==
  ASSUME OneSessionEach, SessionsTypeOK, Making' \subseteq Making,
         UNCHANGED <<created, requests>>
  PROVE  OneSessionEach'
<1>1. Making \in SUBSET Requests /\ Making' \in SUBSET Requests  BY DEF Making, MakePlaces
<1>2. IsFiniteSet(Making) /\ Cardinality(Making) \in Nat /\ Cardinality(Making') \in Nat
  BY <1>1, MakingFinite
<1>3. Cardinality(Making') <= Cardinality(Making)  BY <1>2, FS_Subset
<1>4. NumRequests \in Nat  BY SessionsAssumption
<1>5. created \in Nat /\ requests \in Nat  BY <1>4 DEF SessionsTypeOK
<1>6. created + Cardinality(Making) <= requests  BY DEF OneSessionEach
<1>7. created' + Cardinality(Making') <= requests'  BY <1>2, <1>3, <1>5, <1>6
<1> QED  BY <1>7 DEF OneSessionEach

----------------------------------------------------------------------------
(* The places of a thread.                                                 *)

\* The names of the places of a thread.
PCs == {"idle", "lookup", "refresh", "push", "prepare", "count", "cleanup", "cleaning", "make", "add",
        "render", "end", "notify", "undefined", "lock", "terminate", "over"}

\* Going to another place.
LEMMA GotoTypes ==
  ASSUME SessionsTypeOK, NEW t \in Threads, NEW next \in PCs, Goto(t, next)
  PROVE  /\ pc' \in [Threads -> PCs]
         /\ \A u \in Threads : pc'[u] = IF u = t THEN next ELSE pc[u]
<1>1. pc \in [Threads -> PCs]  BY DEF SessionsTypeOK, PCs
<1> QED  BY <1>1 DEF Goto

(* fSessionsMutex.                                                         *)

\* A step of a thread t that leaves fSessionsMutex alone and is no part of a
\* cleanup.
LEMMA MutexKept ==
  ASSUME MutexHeld, CleaningKnown, NEW t \in Threads, NEW next,
         UNCHANGED <<fSessionsMutex, todo, found>>, Listed \subseteq Listed',
         \A u \in Threads : pc'[u] = IF u = t THEN next ELSE pc[u],
         next \notin {"lookup", "refresh", "cleaning", "terminate"},
         t \in {Handler, Main} => next # "end",
         pc[t] \in {"cleaning", "undefined"} => next = "undefined",
         \A u \in Threads : u # t => ctx'[u] = ctx[u]
  PROVE  MutexHeld' /\ CleaningKnown'
<1>1. MutexHeld'  BY ThreadsDiffer DEF MutexHeld
<1>2. todo' \subseteq Listed' /\ found' \in Listed' \cup {NoObj} /\ found' \notin todo'
  BY DEF CleaningKnown
<1>3. todo' # {} \/ found' # NoObj =>
        \E u \in Threads : fSessionsMutex' = u /\ pc'[u] \in {"cleaning", "undefined"}
  BY DEF CleaningKnown
<1>4. \A u \in Threads : pc'[u] = "cleaning" /\ found' # NoObj => ctx'[u] # found'
  BY DEF CleaningKnown
<1> QED  BY <1>1, <1>2, <1>3, <1>4 DEF CleaningKnown

\* A step of a thread t that has fSessionsMutex or finds it free and is no part
\* of a cleanup: no cleanup is under way.  It may move the cleaner as well.
LEMMA MutexPassed ==
  ASSUME MutexHeld, CleaningKnown, NEW t \in Threads, NEW next,
         UNCHANGED <<todo, found>>, fSessionsMutex \in {Nobody, t},
         pc[t] \notin {"cleaning", "undefined"}, next # "cleaning",
         \A u \in Threads : IF u = t THEN pc'[u] = next ELSE pc'[u] = pc[u] \/ pc'[u] \in {"idle", "over"},
         next \in {"lookup", "refresh", "terminate"} => fSessionsMutex' = t,
         t \in {Handler, Main} /\ next = "end" => fSessionsMutex' = t
  PROVE  MutexHeld' /\ CleaningKnown'
<1>1. todo = {} /\ found = NoObj
  <2> SUFFICES ASSUME todo # {} \/ found # NoObj  PROVE FALSE  OBVIOUS
  <2>1. PICK u \in Threads : fSessionsMutex = u /\ pc[u] \in {"cleaning", "undefined"}
    BY DEF CleaningKnown
  <2> QED  BY <2>1, ThreadsDiffer
<1>2. \A u \in Threads : u # t => /\ pc[u] \notin {"lookup", "refresh", "cleaning", "terminate"}
                                  /\ u \in {Handler, Main} => pc[u] # "end"
  BY ThreadsDiffer DEF MutexHeld
<1>3. \A u \in Threads : u # t => /\ pc'[u] \notin {"lookup", "refresh", "cleaning", "terminate"}
                                  /\ u \in {Handler, Main} => pc'[u] # "end"
  BY <1>2
<1>4. MutexHeld'  BY <1>3, ThreadsDiffer DEF MutexHeld
<1> QED  BY <1>1, <1>4 DEF CleaningKnown

----------------------------------------------------------------------------
(* The steps that move no session.                                         *)

\* The invariant over a step that changes no list and makes no session.
LEMMA QuietStep ==
  ASSUME SInv, SessionsTypeOK', ContextHolds', LocalsKnown', MutexHeld', CleaningKnown',
         UNCHANGED <<fSessions, fDisabledSessions, created, deleted, sessions2Delete, requests>>,
         \A t \in Threads : pc'[t] = "add" <=> pc[t] = "add",
         \A t \in Threads : pc[t] = "add" => session'[t] = session[t],
         Making' \subseteq Making
  PROVE  SInv'
<1>1. PlacesApart' /\ PlacesFound'  BY PlacesUnmoved DEF SInv
<1>2. OneSessionEach'  BY CountKept DEF SInv
<1> QED  BY <1>1, <1>2 DEF SInv

\* LookupSession starts a request, which may make a session.
LEMMA LookupStep ==
  ASSUME SInv, NEW r \in Requests, LookupSession(r)
  PROVE  SInv'
<1> USE DEF SInv
<1>1. r \in Threads /\ pc[r] = "idle"  BY ThreadsDiffer DEF LookupSession
<1>2. PICK i \in Given \cup 1..created \cup {NoId}, next \in {"count", "lookup", "refresh"},
           s \in Objects \cup {NoObj} :
        /\ id' = [id EXCEPT ![r] = i]
        /\ session' = [session EXCEPT ![r] = s]
        /\ s \in Active(fSessions) \cup {NoObj}
        /\ Goto(r, next)
        /\ fSessionsMutex' \in {Nobody, r}
        /\ next # "count" => fSessionsMutex' = r
  <2>1. PICK i \in Given \cup 1..created \cup {NoId} :
          LET s == IF i = NoId THEN NoObj ELSE fSessions[i]
          IN  /\ id' = [id EXCEPT ![r] = i]
              /\ session' = [session EXCEPT ![r] = s]
              /\ Goto(r, IF s = NoObj THEN "count" ELSE IF fMutex[s] = Nobody THEN "lookup" ELSE "refresh")
              /\ fSessionsMutex' = IF s = NoObj THEN Nobody ELSE r
    BY DEF LookupSession
  <2> DEFINE s    == IF i = NoId THEN NoObj ELSE fSessions[i]
             next == IF s = NoObj THEN "count" ELSE IF fMutex[s] = Nobody THEN "lookup" ELSE "refresh"
  <2>2. created \in 0..NumRequests  BY DEF SessionsTypeOK
  <2>3. NumRequests \in Nat  BY SessionsAssumption
  <2>4. 1..created \subseteq Objects  BY <2>2, <2>3 DEF Objects
  <2>5. i # NoId => i \in Ids  BY <2>4 DEF Ids
  <2>6. fSessions \in [Ids -> Objects \cup {NoObj}]  BY DEF SessionsTypeOK
  <2>7. s \in Objects \cup {NoObj} /\ s \in Active(fSessions) \cup {NoObj}
    BY <2>5, <2>6 DEF Active
  <2>8. next \in {"count", "lookup", "refresh"}  OBVIOUS
  <2>9. fSessionsMutex' \in {Nobody, r} /\ (next # "count" => fSessionsMutex' = r)  BY <2>1
  <2>10. id' = [id EXCEPT ![r] = i] /\ session' = [session EXCEPT ![r] = s] /\ Goto(r, next)
    BY <2>1
  <2> HIDE DEF s, next
  <2> QED  BY <2>7, <2>8, <2>9, <2>10
<1>3. next \in PCs  BY <1>2 DEF PCs
<1>4. /\ pc' \in [Threads -> PCs]
      /\ \A u \in Threads : pc'[u] = IF u = r THEN next ELSE pc[u]
  BY <1>1, <1>2, <1>3, GotoTypes
<1>5. NumRequests \in Nat  BY SessionsAssumption
<1>6. created \in Nat /\ requests \in Nat /\ created <= NumRequests  BY <1>5 DEF SessionsTypeOK
<1>7. s \in 0..created
  <2>1. s # NoObj => s \in Objects /\ s \in 1..created  BY <1>2, ObjectsAndIds DEF PlacesFound
  <2> QED  BY <2>1, <1>6, <1>2 DEF NoObj
<1>8. SessionsTypeOK'
  <2>1. i \in Ids \cup {NoId}
    <3>1. 1..created \subseteq Objects  BY <1>5, <1>6 DEF Objects
    <3> QED  BY <1>2, <3>1 DEF Ids
  <2>2. id' \in [Threads -> Ids \cup {NoId}]  BY <2>1, <1>1, <1>2 DEF SessionsTypeOK
  <2>3. session' \in [Threads -> Objects \cup {NoObj}]  BY <1>1, <1>2 DEF SessionsTypeOK
  <2>4. requests' \in 0..NumRequests  BY <1>5, <1>6 DEF LookupSession
  <2>5. fSessionsMutex' \in Threads \cup {Nobody}  BY <1>1, <1>2
  <2> QED
    BY <2>2, <2>3, <2>4, <2>5, <1>4 DEF LookupSession, SessionsTypeOK, PCs, sessionVars, cleanupVars
<1>9. ContextHolds'  BY ContextKept DEF LookupSession, sessionVars
<1>10. LocalsKnown'
  <2>1. \A u \in Threads : session'[u] = IF u = r THEN s ELSE session[u]
    BY <1>1, <1>2 DEF SessionsTypeOK
  <2>2. \A u \in Threads : u # r => id'[u] = id[u]  BY <1>1, <1>2 DEF SessionsTypeOK
  <2>3. UNCHANGED <<created, ctx, sessions2Delete>>  BY DEF LookupSession, sessionVars
  <2>4. sessions2Delete[r] = {}  BY <1>1 DEF LocalsKnown
  <2>5. \A t \in Threads : session'[t] \in 0..created' /\ ctx'[t] \in 0..created'
    BY <2>1, <2>3, <1>7 DEF LocalsKnown
  <2>6. \A t \in Threads : pc'[t] = "add" => pc[t] = "add" /\ t # r  BY <1>4, <1>2
  <2> QED  BY <2>1, <2>2, <2>3, <2>4, <2>5, <2>6, <1>1, <1>4, ThreadsDiffer DEF LocalsKnown
<1>11. PlacesApart' /\ PlacesFound'
  <2>1. \A t \in Threads : pc'[t] = "add" <=> pc[t] = "add"  BY <1>1, <1>2, <1>4
  <2>2. \A t \in Threads : pc[t] = "add" => session'[t] = session[t]
    BY <1>1, <1>2 DEF SessionsTypeOK
  <2>3. UNCHANGED <<fSessions, fDisabledSessions, created, deleted, sessions2Delete>>
    BY DEF LookupSession, sessionVars
  <2> QED  BY <2>1, <2>2, <2>3, PlacesUnmoved
<1>12. OneSessionEach'
  <2>1. Making' = Making \cup {r} /\ r \notin Making
    BY <1>1, <1>2, <1>4, ThreadsDiffer DEF Making, MakePlaces
  <2>2. Making \in SUBSET Requests  BY DEF Making
  <2>3. IsFiniteSet(Making) /\ Cardinality(Making) \in Nat  BY <2>2, MakingFinite
  <2>4. Cardinality(Making') = Cardinality(Making) + 1  BY <2>1, <2>3, FS_AddElement
  <2>5. created' = created /\ requests' = requests + 1  BY DEF LookupSession, sessionVars
  <2>6. created + Cardinality(Making) <= requests  BY DEF OneSessionEach
  <2>7. created' + Cardinality(Making') <= requests'  BY <2>3, <2>4, <2>5, <2>6, <1>6
  <2> QED  BY <2>7 DEF OneSessionEach
<1>13. MutexHeld' /\ CleaningKnown'
  <2>1. fSessionsMutex = Nobody /\ UNCHANGED <<todo, found>>  BY DEF LookupSession, cleanupVars
  <2> QED  BY <2>1, <1>1, <1>2, <1>4, ThreadsDiffer, MutexPassed
<1> QED  BY <1>8, <1>9, <1>10, <1>11, <1>12, <1>13

\* The invariant over a step that only moves thread t on, to a place where it
\* neither has a new session in its hands nor starts over.
LEMMA MoveOnStep ==
  ASSUME SInv, SessionsTypeOK', ContextHolds', MutexHeld', CleaningKnown',
         NEW t \in Threads, NEW next \in PCs,
         UNCHANGED <<fSessions, fDisabledSessions, created, deleted, sessions2Delete, requests>>,
         pc[t] # "add", next # "add",
         \A u \in Threads : pc'[u] = IF u = t THEN next ELSE pc[u],
         \A u \in Threads : u # t => session'[u] = session[u] /\ id'[u] = id[u] /\ ctx'[u] = ctx[u],
         session'[t] \in 0..created, ctx'[t] \in 0..created,
         t \in Requests => /\ sessions2Delete[t] # {} => next \in {"cleaning", "make", "end", "undefined"}
                           /\ ctx'[t] \notin sessions2Delete[t]
                           /\ next \in MakePlaces => t \in Making
  PROVE  SInv'
<1>1. \A u \in Threads : pc'[u] = "add" <=> pc[u] = "add"  OBVIOUS
<1>2. \A u \in Threads : pc[u] = "add" => session'[u] = session[u]  OBVIOUS
<1>3. Making' \subseteq Making
  <2> SUFFICES ASSUME NEW u \in Requests, u \in Making'  PROVE u \in Making
    BY DEF Making, MakePlaces
  <2>1. u \in Threads  BY ThreadsDiffer
  <2>2. pc'[u] \in MakePlaces  BY DEF Making, MakePlaces
  <2> QED  BY <2>1, <2>2 DEF Making, MakePlaces
<1>4. LocalsKnown'
  <2>1. \A u \in Threads : session'[u] \in 0..created' /\ ctx'[u] \in 0..created'
    BY DEF SInv, LocalsKnown
  <2>2. \A u \in Threads : pc'[u] = "add" => /\ u \in Requests /\ id'[u] \in Ids /\ sessions2Delete'[u] = {}
                                             /\ session'[u] # NoObj /\ session'[u] = ctx'[u]
    BY DEF SInv, LocalsKnown
  <2>3. \A u \in Requests :
          /\ sessions2Delete'[u] # {} => pc'[u] \in {"cleaning", "make", "end", "undefined"}
          /\ ctx'[u] \notin sessions2Delete'[u]
    BY ThreadsDiffer DEF SInv, LocalsKnown
  <2> QED  BY <2>1, <2>2, <2>3 DEF LocalsKnown
<1> QED  BY <1>1, <1>2, <1>3, <1>4, QuietStep

\* A context gets the session that was looked up.
LEMMA PushStep ==
  ASSUME SInv, NEW r \in Requests, PushSession(r)
  PROVE  SInv'
<1> USE DEF SInv
<1>1. r \in Threads /\ pc[r] = "push" /\ Goto(r, "prepare") /\ "prepare" \in PCs
  BY ThreadsDiffer DEF PushSession, PCs
<1>2. pc' \in [Threads -> PCs] /\ \A u \in Threads : pc'[u] = IF u = r THEN "prepare" ELSE pc[u]
  BY <1>1, GotoTypes
<1>3. session[r] \in Objects \cup {NoObj}  BY <1>1 DEF SessionsTypeOK
<1>4. InitSession(r, session[r]) /\ CanLock(r, session[r])  BY DEF PushSession
<1>5. /\ ContextHolds'
      /\ ctx' \in [Threads -> Objects \cup {NoObj}]
      /\ fMutex' \in [Objects -> Threads \cup {Nobody}]
      /\ fRefCount' \in [Objects -> Nat]
      /\ \A u \in Threads : ctx'[u] = IF u = r THEN session[r] ELSE ctx[u]
  BY <1>1, <1>3, <1>4, InitSessionHolds
<1>6. SessionsTypeOK'
  BY <1>2, <1>5 DEF PushSession, SessionsTypeOK, PCs, listVars, boundVars, cleanupVars
<1>7. UNCHANGED <<fSessions, fDisabledSessions, created, deleted, sessions2Delete, requests, session, id>>
  BY DEF PushSession, listVars, boundVars
<1>8. session[r] \in 0..created /\ sessions2Delete[r] = {}  BY <1>1 DEF LocalsKnown
<1>9. r \in Making  BY <1>1 DEF Making, MakePlaces
<1>10. MutexHeld' /\ CleaningKnown'
  <2>1. UNCHANGED <<fSessionsMutex, todo, found>> /\ Listed' = Listed
    BY DEF PushSession, listVars, cleanupVars, Listed
  <2> QED  BY <2>1, <1>1, <1>2, <1>5, ThreadsDiffer, MutexKept
<1> QED  BY <1>1, <1>2, <1>5, <1>6, <1>7, <1>8, <1>9, <1>10, MoveOnStep DEF MakePlaces

\* PrepareSession goes on to the page or to a new session.
LEMMA PrepareStep ==
  ASSUME SInv, NEW r \in Requests, PrepareSession(r)
  PROVE  SInv'
<1> USE DEF SInv
<1>1. PICK verified \in BOOLEAN : /\ Goto(r, IF verified THEN "render" ELSE "count")
                                  /\ id' = [id EXCEPT ![r] = IF verified THEN @ ELSE NoId]
  BY DEF PrepareSession
<1> DEFINE next == IF verified THEN "render" ELSE "count"
<1>2. r \in Threads /\ pc[r] = "prepare" /\ Goto(r, next) /\ next \in PCs
  BY <1>1, ThreadsDiffer DEF PrepareSession, PCs
<1>3. next \in {"render", "count"}  OBVIOUS
<1> HIDE DEF next
<1>4. pc' \in [Threads -> PCs] /\ \A u \in Threads : pc'[u] = IF u = r THEN next ELSE pc[u]
  BY <1>2, GotoTypes
<1>5. ContextHolds'  BY ContextKept DEF PrepareSession
<1>6. id' \in [Threads -> Ids \cup {NoId}] /\ \A u \in Threads : u # r => id'[u] = id[u]
  BY <1>1, <1>2 DEF SessionsTypeOK
<1>7. fresh' \in [Objects -> BOOLEAN]
  <2>1. fresh \in [Objects -> BOOLEAN]  BY DEF SessionsTypeOK
  <2>2. fresh' = [fresh EXCEPT ![session[r]] = fresh[session[r]] \/ ~fTerminated[session[r]]]
    BY DEF PrepareSession
  <2> QED  BY <2>1, <2>2
<1>8. SessionsTypeOK'
  BY <1>4, <1>6, <1>7 DEF PrepareSession, SessionsTypeOK, PCs, listVars, boundVars, cleanupVars
<1>9. UNCHANGED <<fSessions, fDisabledSessions, created, deleted, sessions2Delete, requests, session, ctx>>
  BY DEF PrepareSession, listVars, boundVars
<1>10. session[r] \in 0..created /\ ctx[r] \in 0..created /\ sessions2Delete[r] = {}
  BY <1>2 DEF LocalsKnown
<1>11. r \in Making  BY <1>2 DEF Making, MakePlaces
<1>12. MutexHeld' /\ CleaningKnown'
  <2>1. UNCHANGED <<fSessionsMutex, todo, found>> /\ Listed' = Listed
    BY DEF PrepareSession, listVars, cleanupVars, Listed
  <2> QED  BY <2>1, <1>2, <1>3, <1>4, <1>9, ThreadsDiffer, MutexKept
<1> QED  BY <1>2, <1>3, <1>4, <1>5, <1>6, <1>8, <1>9, <1>10, <1>11, <1>12, MoveOnStep DEF MakePlaces

\* MakeSession looks whether there is room.
LEMMA MakeStep ==
  ASSUME SInv, NEW r \in Requests, MakeSession(r)
  PROVE  SInv'
<1> USE DEF SInv
<1> DEFINE next == IF Cardinality(Active(fSessions)) >= fMaxSessionsAllowed THEN "cleanup" ELSE "make"
<1>1. next \in {"cleanup", "make"}  OBVIOUS
<1>2. r \in Threads /\ pc[r] = "count" /\ Goto(r, next) /\ next \in PCs
  BY ThreadsDiffer DEF MakeSession, PCs
<1> HIDE DEF next
<1>3. pc' \in [Threads -> PCs] /\ \A u \in Threads : pc'[u] = IF u = r THEN next ELSE pc[u]
  BY <1>2, GotoTypes
<1>4. ContextHolds'  BY ContextKept DEF MakeSession, sessionVars
<1>5. SessionsTypeOK'
  BY <1>3 DEF MakeSession, SessionsTypeOK, PCs, listVars, sessionVars, boundVars, cleanupVars
<1>6. UNCHANGED <<fSessions, fDisabledSessions, created, deleted, sessions2Delete, requests, session, id, ctx>>
  BY DEF MakeSession, listVars, sessionVars, boundVars
<1>7. session[r] \in 0..created /\ ctx[r] \in 0..created /\ sessions2Delete[r] = {}
  BY <1>2 DEF LocalsKnown
<1>8. r \in Making  BY <1>2 DEF Making, MakePlaces
<1>9. MutexHeld' /\ CleaningKnown'
  <2>1. UNCHANGED <<fSessionsMutex, todo, found>> /\ Listed' = Listed
    BY DEF MakeSession, listVars, cleanupVars, Listed
  <2> QED  BY <2>1, <1>1, <1>2, <1>3, <1>6, ThreadsDiffer, MutexKept
<1> QED  BY <1>1, <1>2, <1>3, <1>4, <1>5, <1>6, <1>7, <1>8, <1>9, MoveOnStep DEF MakePlaces

\* A cleanup that finds the lists empty.
LEMMA NothingStep ==
  ASSUME SInv, NEW r \in Requests, NothingToClean(r)
  PROVE  SInv'
<1> USE DEF SInv
<1>1. r \in Threads /\ pc[r] = "cleanup" /\ Goto(r, "make") /\ "make" \in PCs
  BY ThreadsDiffer DEF NothingToClean, PCs
<1>2. pc' \in [Threads -> PCs] /\ \A u \in Threads : pc'[u] = IF u = r THEN "make" ELSE pc[u]
  BY <1>1, GotoTypes
<1>3. ContextHolds'  BY ContextKept DEF NothingToClean, sessionVars
<1>4. SessionsTypeOK'
  BY <1>2 DEF NothingToClean, SessionsTypeOK, PCs, listVars, sessionVars, boundVars, cleanupVars
<1>5. UNCHANGED <<fSessions, fDisabledSessions, created, deleted, sessions2Delete, requests, session, id, ctx>>
  BY DEF NothingToClean, listVars, sessionVars, boundVars
<1>6. session[r] \in 0..created /\ ctx[r] \in 0..created /\ sessions2Delete[r] = {}
  BY <1>1 DEF LocalsKnown
<1>7. r \in Making  BY <1>1 DEF Making, MakePlaces
<1>8. MutexHeld' /\ CleaningKnown'
  <2>1. UNCHANGED <<fSessionsMutex, todo, found>> /\ Listed' = Listed
    BY DEF NothingToClean, listVars, cleanupVars, Listed
  <2> QED  BY <2>1, <1>1, <1>2, <1>5, ThreadsDiffer, MutexKept
<1> QED  BY <1>1, <1>2, <1>3, <1>4, <1>5, <1>6, <1>7, <1>8, MoveOnStep DEF MakePlaces

\* IsTerminated of a session that is looked up.
LEMMA LookupTerminatedStep ==
  ASSUME SInv, NEW r \in Requests, LookupTerminated(r)
  PROVE  SInv'
<1> USE DEF SInv
<1> DEFINE terminated == fMutex[session[r]] = Nobody /\ fTerminated[session[r]]
           next       == IF terminated THEN "count" ELSE "refresh"
           s          == IF terminated THEN NoObj ELSE session[r]
<1>1. /\ Goto(r, next) /\ session' = [session EXCEPT ![r] = s]
      /\ fSessionsMutex' = IF terminated THEN Nobody ELSE r
  BY DEF LookupTerminated
<1>2. next \in {"count", "refresh"} /\ next \in PCs  BY DEF PCs
<1>3. s \in {NoObj, session[r]}  OBVIOUS
<1>4. fSessionsMutex' \in {Nobody, r} /\ (next = "refresh" => fSessionsMutex' = r)  BY <1>1
<1> HIDE DEF terminated, next, s
<1>5. r \in Threads /\ pc[r] = "lookup" /\ fSessionsMutex = r
  BY ThreadsDiffer DEF LookupTerminated, MutexHeld
<1>6. pc' \in [Threads -> PCs] /\ \A u \in Threads : pc'[u] = IF u = r THEN next ELSE pc[u]
  BY <1>1, <1>2, <1>5, GotoTypes
<1>7. session[r] \in 0..created /\ ctx[r] \in 0..created /\ sessions2Delete[r] = {}
  BY <1>5 DEF LocalsKnown
<1>8. NoObj \in 0..created
  <2>1. NumRequests \in Nat  BY SessionsAssumption
  <2> QED  BY <2>1 DEF NoObj, SessionsTypeOK
<1>9. /\ session' \in [Threads -> Objects \cup {NoObj}] /\ session'[r] \in 0..created
      /\ \A u \in Threads : u # r => session'[u] = session[u]
  BY <1>1, <1>3, <1>5, <1>7, <1>8 DEF SessionsTypeOK
<1>10. UNCHANGED <<fSessions, fDisabledSessions, created, deleted, sessions2Delete, requests, id, ctx, todo, found>>
  BY DEF LookupTerminated, sessionVars, boundVars, cleanupVars
<1>11. SessionsTypeOK'
  BY <1>4, <1>5, <1>6, <1>9 DEF LookupTerminated, SessionsTypeOK, PCs, sessionVars, boundVars, cleanupVars
<1>12. ContextHolds'  BY ContextKept DEF LookupTerminated, sessionVars
<1>13. r \in Making  BY <1>5 DEF Making, MakePlaces
<1>14. MutexHeld' /\ CleaningKnown'  BY <1>2, <1>4, <1>5, <1>6, <1>10, ThreadsDiffer, MutexPassed
<1> QED  BY <1>2, <1>5, <1>6, <1>7, <1>9, <1>10, <1>11, <1>12, <1>13, <1>14, MoveOnStep DEF MakePlaces

\* ResetTimeAndFlags of a session that is looked up.
LEMMA LookupRefreshStep ==
  ASSUME SInv, NEW r \in Requests, LookupRefresh(r)
  PROVE  SInv'
<1> USE DEF SInv
<1>1. /\ r \in Threads /\ pc[r] = "refresh" /\ fSessionsMutex = r
      /\ Goto(r, "push") /\ "push" \in PCs /\ fSessionsMutex' = Nobody
  BY ThreadsDiffer DEF LookupRefresh, MutexHeld, PCs
<1>2. pc' \in [Threads -> PCs] /\ \A u \in Threads : pc'[u] = IF u = r THEN "push" ELSE pc[u]
  BY <1>1, GotoTypes
<1>3. UNCHANGED <<fSessions, fDisabledSessions, created, deleted, sessions2Delete, requests, session, id, ctx,
                  todo, found>>
  BY DEF LookupRefresh, boundVars, cleanupVars
<1>4. fresh' \in [Objects -> BOOLEAN] /\ fTerminated' \in [Objects -> BOOLEAN]  BY DEF LookupRefresh
<1>5. SessionsTypeOK'
  BY <1>1, <1>2, <1>4 DEF LookupRefresh, SessionsTypeOK, PCs, boundVars, cleanupVars
<1>6. ContextHolds'  BY ContextKept DEF LookupRefresh
<1>7. session[r] \in 0..created /\ ctx[r] \in 0..created /\ sessions2Delete[r] = {}
  BY <1>1 DEF LocalsKnown
<1>8. r \in Making  BY <1>1 DEF Making, MakePlaces
<1>9. MutexHeld' /\ CleaningKnown'  BY <1>1, <1>2, <1>3, ThreadsDiffer, MutexPassed
<1> QED  BY <1>1, <1>2, <1>3, <1>5, <1>6, <1>7, <1>8, <1>9, MoveOnStep DEF MakePlaces

\* The context of a request that ends lets its session go.
LEMMA EndStep ==
  ASSUME SInv, NEW r \in Requests, EndRequest(r)
  PROVE  SInv'
<1> USE DEF SInv
<1>1. /\ r \in Threads /\ pc[r] \in {"render", "end"} /\ Goto(r, "idle") /\ "idle" \in PCs
      /\ sessions2Delete[r] = {}
  BY ThreadsDiffer DEF EndRequest, PCs
<1>2. pc' \in [Threads -> PCs] /\ \A u \in Threads : pc'[u] = IF u = r THEN "idle" ELSE pc[u]
  BY <1>1, GotoTypes
<1>3. InitSession(r, NoObj)  BY DEF EndRequest
<1>4. /\ ContextHolds'
      /\ ctx' \in [Threads -> Objects \cup {NoObj}]
      /\ fMutex' \in [Objects -> Threads \cup {Nobody}]
      /\ fRefCount' \in [Objects -> Nat]
      /\ \A u \in Threads : ctx'[u] = IF u = r THEN NoObj ELSE ctx[u]
  BY <1>1, <1>3, InitSessionHolds
<1>5. /\ session' \in [Threads -> Objects \cup {NoObj}] /\ id' \in [Threads -> Ids \cup {NoId}]
      /\ session'[r] = NoObj
      /\ \A u \in Threads : u # r => session'[u] = session[u] /\ id'[u] = id[u]
  BY <1>1 DEF EndRequest, SessionsTypeOK
<1>6. fresh' \in [Objects -> BOOLEAN]  BY DEF EndRequest
<1>7. SessionsTypeOK'
  BY <1>2, <1>4, <1>5, <1>6 DEF EndRequest, SessionsTypeOK, PCs, listVars, boundVars, cleanupVars
<1>8. UNCHANGED <<fSessions, fDisabledSessions, created, deleted, sessions2Delete, requests>>
  BY DEF EndRequest, listVars, boundVars
<1>9. NoObj \in 0..created
  <2>1. NumRequests \in Nat  BY SessionsAssumption
  <2> QED  BY <2>1 DEF NoObj, SessionsTypeOK
<1>10. MutexHeld' /\ CleaningKnown'
  <2>1. UNCHANGED <<fSessionsMutex, todo, found>> /\ Listed' = Listed
    BY DEF EndRequest, listVars, cleanupVars, Listed
  <2> QED  BY <2>1, <1>1, <1>2, <1>4, ThreadsDiffer, MutexKept
<1> QED  BY <1>1, <1>2, <1>4, <1>5, <1>7, <1>8, <1>9, <1>10, MoveOnStep DEF MakePlaces

\* Who has a session in its hands does not use a freed one.
LEMMA UseFreedStep ==
  ASSUME SInv, NEW r \in Requests, UseFreed(r)
  PROVE  SInv'
<1> USE DEF SInv
<1>1. r \in Threads /\ Goto(r, "undefined") /\ "undefined" \in PCs
  BY ThreadsDiffer DEF UseFreed, PCs
<1>2. pc' \in [Threads -> PCs] /\ \A u \in Threads : pc'[u] = IF u = r THEN "undefined" ELSE pc[u]
  BY <1>1, GotoTypes
<1>3. ContextHolds'  BY ContextKept DEF UseFreed, sessionVars
<1>4. SessionsTypeOK'
  BY <1>2 DEF UseFreed, SessionsTypeOK, PCs, listVars, sessionVars, boundVars, cleanupVars
<1>5. UNCHANGED <<fSessions, fDisabledSessions, created, deleted, sessions2Delete, requests, session, id, ctx>>
  BY DEF UseFreed, listVars, sessionVars, boundVars
<1>6. session[r] \in 0..created /\ ctx[r] \in 0..created /\ ctx[r] \notin sessions2Delete[r]
  BY <1>1 DEF LocalsKnown
<1>7. pc[r] # "add"
  <2> SUFFICES ASSUME pc[r] = "add"  PROVE FALSE  OBVIOUS
  <2>1. session[r] # NoObj /\ session[r] = ctx[r]  BY <1>1 DEF LocalsKnown
  <2>2. session[r] \in Objects  BY <2>1, <1>1 DEF SessionsTypeOK
  <2>3. session[r] \in Hands(r)  BY <2>2 DEF Hands
  <2>4. session[r] \notin deleted  BY <2>2, <2>3, <1>1 DEF PlacesApart
  <2>5. Uses(r) = {session[r]}  BY <2>1 DEF Uses
  <2> QED  BY <2>4, <2>5 DEF UseFreed
<1>8. MutexHeld' /\ CleaningKnown'
  <2>1. UNCHANGED <<fSessionsMutex, todo, found>> /\ Listed' = Listed
    BY DEF UseFreed, listVars, cleanupVars, Listed
  <2> QED  BY <2>1, <1>1, <1>2, <1>5, ThreadsDiffer, MutexKept
<1> QED  BY <1>1, <1>2, <1>3, <1>4, <1>5, <1>6, <1>7, <1>8, MoveOnStep DEF MakePlaces

\* The invariant over a step that leaves threads and lists alone.
LEMMA StillStep ==
  ASSUME SInv, SessionsTypeOK', ContextHolds',
         UNCHANGED <<fSessions, fDisabledSessions, fSessionsMutex, created, deleted, sessions2Delete,
                     requests, pc, id, session, ctx, todo, found>>
  PROVE  SInv'
<1>1. LocalsKnown'  BY DEF SInv, LocalsKnown
<1>2. Making' \subseteq Making  BY DEF Making, MakePlaces
<1>3. Listed' = Listed  BY DEF Listed
<1>4. MutexHeld' /\ CleaningKnown'  BY <1>3 DEF SInv, MutexHeld, CleaningKnown
<1> QED  BY <1>1, <1>2, <1>4, QuietStep

\* What is to be deleted was made.
LEMMA TakenMade ==
  ASSUME SInv, NEW t \in Threads
  PROVE  sessions2Delete[t] \subseteq 1..created /\ sessions2Delete[t] \subseteq Objects
<1>1. sessions2Delete[t] \subseteq Objects  BY DEF SInv, SessionsTypeOK
<1>2. sessions2Delete[t] \subseteq Hands(t)  BY <1>1 DEF Hands
<1> QED  BY <1>1, <1>2 DEF SInv, PlacesFound

\* The destructor of a session runs.
LEMMA DestroyStep ==
  ASSUME SInv, NEW t \in Threads, DestroySession(t)
  PROVE  SInv'
<1> USE DEF SInv
<1>1. PICK o \in sessions2Delete[t] : destroyed' = destroyed \cup {o}  BY DEF DestroySession
<1>2. o \in 1..created  BY TakenMade
<1>3. deleted' \subseteq destroyed' /\ destroyed' \subseteq 1..created'
  BY <1>1, <1>2 DEF DestroySession, SessionsTypeOK
<1>4. SessionsTypeOK'  BY <1>3 DEF DestroySession, SessionsTypeOK, listVars, boundVars, cleanupVars
<1>5. ContextHolds'  BY ContextKept DEF DestroySession
<1> QED  BY <1>4, <1>5, StillStep DEF DestroySession, listVars, boundVars, cleanupVars

\* Time passes.
LEMMA TimeoutStep ==
  ASSUME SInv, NEW o \in Objects, Timeout(o)
  PROVE  SInv'
<1> USE DEF SInv
<1>1. fresh' \in [Objects -> BOOLEAN]  BY DEF Timeout, SessionsTypeOK
<1>2. SessionsTypeOK'  BY <1>1 DEF Timeout, SessionsTypeOK, listVars, boundVars, cleanupVars
<1>3. ContextHolds'  BY ContextKept DEF Timeout
<1> QED  BY <1>2, <1>3, StillStep DEF Timeout, listVars, boundVars, cleanupVars

\* A thread that handles no request has no session in its hands.
LEMMA OthersMakeNone ==
  ASSUME SInv, NEW t \in {Cleaner, Admin, Handler, Main}
  PROVE  pc[t] # "add" /\ t \in Threads /\ t \notin Requests
BY ThreadsDiffer DEF SInv, LocalsKnown

\* The end of DisableSession.
LEMMA DisableNotifyStep ==
  ASSUME SInv, DisableNotify
  PROVE  SInv'
<1> USE DEF SInv
<1> DEFINE next == IF session[Admin] \in deleted THEN "undefined" ELSE "idle"
<1>1. next \in {"undefined", "idle"} /\ next \in PCs  BY DEF PCs
<1>2. Goto(Admin, next)  BY DEF DisableNotify
<1> HIDE DEF next
<1>3. pc[Admin] # "add" /\ Admin \in Threads /\ Admin \notin Requests  BY OthersMakeNone
<1>4. pc' \in [Threads -> PCs] /\ \A u \in Threads : pc'[u] = IF u = Admin THEN next ELSE pc[u]
  BY <1>1, <1>2, <1>3, GotoTypes
<1>5. /\ session' \in [Threads -> Objects \cup {NoObj}] /\ session'[Admin] = NoObj
      /\ \A u \in Threads : u # Admin => session'[u] = session[u]
  BY <1>3 DEF DisableNotify, SessionsTypeOK
<1>6. SessionsTypeOK'
  BY <1>4, <1>5 DEF DisableNotify, SessionsTypeOK, PCs, listVars, sessionVars, boundVars, cleanupVars
<1>7. ContextHolds'  BY ContextKept DEF DisableNotify, sessionVars
<1>8. UNCHANGED <<fSessions, fDisabledSessions, created, deleted, sessions2Delete, requests, id, ctx>>
  BY DEF DisableNotify, listVars, sessionVars, boundVars
<1>9. ctx[Admin] \in 0..created  BY <1>3 DEF LocalsKnown
<1>10. NoObj \in 0..created
  <2>1. NumRequests \in Nat  BY SessionsAssumption
  <2> QED  BY <2>1 DEF NoObj, SessionsTypeOK
<1>11. MutexHeld' /\ CleaningKnown'
  <2>1. UNCHANGED <<fSessionsMutex, todo, found>> /\ Listed' = Listed /\ pc[Admin] = "notify"
    BY DEF DisableNotify, listVars, cleanupVars, Listed
  <2>2. Admin \notin {Handler, Main}  BY OthersDiffer
  <2> QED  BY <2>1, <2>2, <1>1, <1>3, <1>4, <1>8, MutexKept
<1> QED  BY <1>1, <1>3, <1>4, <1>5, <1>6, <1>7, <1>8, <1>9, <1>10, <1>11, MoveOnStep

\* ResetFinis or Finis is called.
LEMMA ResetCallStep ==
  ASSUME SInv, NEW t \in {Handler, Main}, NEW kind \in {"reset", "finis"}, ResetCall(t, kind)
  PROVE  SInv'
<1> USE DEF SInv
<1>1. pc[t] # "add" /\ t \in Threads /\ t \notin Requests  BY OthersMakeNone
<1>2. pc[t] = "idle" /\ Goto(t, "lock") /\ "lock" \in PCs  BY DEF ResetCall, PCs
<1>3. pc' \in [Threads -> PCs] /\ \A u \in Threads : pc'[u] = IF u = t THEN "lock" ELSE pc[u]
  BY <1>1, <1>2, GotoTypes
<1>4. events' \in 0..NumEvents
  <2>1. NumEvents \in Nat /\ events \in 0..NumEvents  BY SessionsAssumption DEF SessionsTypeOK
  <2>2. CASE kind = "reset"  BY <2>1, <2>2 DEF ResetCall
  <2>3. CASE kind # "reset"  BY <2>1, <2>3 DEF ResetCall
  <2> QED  BY <2>2, <2>3
<1>5. reset' \in {"no", "reset", "failed", "finis", "down"}  BY DEF ResetCall, SessionsTypeOK
<1>6. SessionsTypeOK'
  BY <1>3, <1>4, <1>5 DEF ResetCall, SessionsTypeOK, PCs, listVars, sessionVars, cleanupVars
<1>7. ContextHolds'  BY ContextKept DEF ResetCall, sessionVars
<1>8. UNCHANGED <<fSessions, fDisabledSessions, created, deleted, sessions2Delete, requests, id, ctx, session>>
  BY DEF ResetCall, listVars, sessionVars
<1>9. session[t] \in 0..created /\ ctx[t] \in 0..created  BY <1>1 DEF LocalsKnown
<1>10. MutexHeld' /\ CleaningKnown'
  <2>1. UNCHANGED <<fSessionsMutex, todo, found>> /\ Listed' = Listed
    BY DEF ResetCall, listVars, cleanupVars, Listed
  <2> QED  BY <2>1, <1>1, <1>2, <1>3, <1>8, MutexKept
<1> QED  BY <1>1, <1>2, <1>3, <1>6, <1>7, <1>8, <1>9, <1>10, MoveOnStep

\* The invariant over a step of a reset, which moves the handler or the main
\* thread and the cleaner on.
LEMMA ReInitStep ==
  ASSUME SInv, SessionsTypeOK', ContextHolds',
         UNCHANGED <<fSessions, fDisabledSessions, created, deleted, sessions2Delete, requests,
                     id, session, ctx>>,
         MutexHeld', CleaningKnown',
         \A u \in Threads : pc'[u] = pc[u] \/ (u \in {Cleaner, Handler, Main} /\ pc'[u] # "add")
  PROVE  SInv'
<1>1. \A u \in Requests : pc'[u] = pc[u]  BY ThreadsDiffer
<1>2. \A u \in Threads : pc'[u] = "add" <=> pc[u] = "add"
  <2> SUFFICES ASSUME NEW u \in Threads  PROVE pc'[u] = "add" <=> pc[u] = "add"  OBVIOUS
  <2>1. u \in {Cleaner, Handler, Main} => pc[u] # "add"  BY OthersMakeNone
  <2> QED  BY <2>1
<1>3. LocalsKnown'  BY <1>1, <1>2 DEF SInv, LocalsKnown
<1>4. Making' \subseteq Making  BY <1>1 DEF Making, MakePlaces
<1> QED  BY <1>2, <1>3, <1>4, QuietStep

\* EnterReInit, ResetFinis, ResetInit, and a reset that fails.
LEMMA ResetSteps ==
  ASSUME SInv,
         \/ \E t \in {Handler, Main} : EnterReInit(t) \/ TerminateCleaner(t)
         \/ ResetInit \/ ResetFails
  PROVE  SInv'
<1> USE DEF SInv
<1>1. pc \in [Threads -> PCs]  BY DEF SessionsTypeOK, PCs
<1>2. pc' \in [Threads -> PCs]
  BY <1>1 DEF EnterReInit, TerminateCleaner, ResetInit, ResetFails, Goto, PCs
<1>3. fSessionsMutex' \in Threads \cup {Nobody} /\ reset' \in {"no", "reset", "failed", "finis", "down"}
  BY ThreadsDiffer DEF EnterReInit, TerminateCleaner, ResetInit, ResetFails, SessionsTypeOK, listVars
<1>4. /\ UNCHANGED <<fSessions, fDisabledSessions, sessionVars, boundVars, sessions2Delete, id, session, ctx>>
      /\ UNCHANGED <<todo, found>>
  BY DEF EnterReInit, TerminateCleaner, ResetInit, ResetFails, listVars, cleanupVars
<1>5. SessionsTypeOK'  BY <1>2, <1>3, <1>4 DEF SessionsTypeOK, PCs, sessionVars, boundVars
<1>6. ContextHolds'  BY <1>4, ContextKept DEF sessionVars
<1>7. \A u \in Threads : pc'[u] = pc[u] \/ (u \in {Cleaner, Handler, Main} /\ pc'[u] # "add")
  BY <1>1 DEF EnterReInit, TerminateCleaner, ResetInit, ResetFails, Goto
<1>8. MutexHeld' /\ CleaningKnown'
  <2>0. Handler \in Threads /\ Main \in Threads /\ Cleaner \in Threads /\ Cleaner \notin {Handler, Main}
    BY ThreadsDiffer, OthersDiffer
  <2>1. ASSUME NEW t \in {Handler, Main}, EnterReInit(t)  PROVE MutexHeld' /\ CleaningKnown'
    <3>1. pc[t] = "lock" /\ fSessionsMutex = Nobody /\ fSessionsMutex' = t /\ t \in Threads
      BY <2>0, <2>1 DEF EnterReInit
    <3>2. \A u \in Threads : pc'[u] = IF u = t THEN "terminate" ELSE pc[u]
      BY <1>1, <2>1 DEF EnterReInit, Goto
    <3> QED  BY <3>1, <3>2, <1>4, MutexPassed
  <2>2. ASSUME NEW t \in {Handler, Main}, TerminateCleaner(t)  PROVE MutexHeld' /\ CleaningKnown'
    <3>1. /\ pc[t] = "terminate" /\ t \in Threads
          /\ pc' = [pc EXCEPT ![t] = "end", ![Cleaner] = "over"]
          /\ fSessionsMutex' = fSessionsMutex
      BY <2>0, <2>2 DEF TerminateCleaner, listVars
    <3>2. fSessionsMutex = t  BY <3>1 DEF MutexHeld
    <3>3. \A u \in Threads : IF u = t THEN pc'[u] = "end" ELSE pc'[u] = pc[u] \/ pc'[u] \in {"idle", "over"}
      BY <1>1, <3>1, <2>0
    <3> QED  BY <3>1, <3>2, <3>3, <1>4, MutexPassed
  <2>3. CASE ResetInit
    <3>1. /\ pc[Handler] = "end" /\ pc' = [pc EXCEPT ![Handler] = "idle", ![Cleaner] = "idle"]
          /\ fSessionsMutex = Handler
      BY <2>3 DEF ResetInit, MutexHeld
    <3>2. \A u \in Threads : IF u = Handler THEN pc'[u] = "idle"
                                            ELSE pc'[u] = pc[u] \/ pc'[u] \in {"idle", "over"}
      BY <1>1, <3>1, <2>0
    <3> QED  BY <3>1, <3>2, <1>4, <2>0, MutexPassed
  <2>4. CASE ResetFails
    <3>1. pc[Handler] = "end" /\ pc' = [pc EXCEPT ![Handler] = "over"] /\ fSessionsMutex = Handler
      BY <2>4 DEF ResetFails, Goto, MutexHeld
    <3>2. \A u \in Threads : IF u = Handler THEN pc'[u] = "over"
                                            ELSE pc'[u] = pc[u] \/ pc'[u] \in {"idle", "over"}
      BY <1>1, <3>1, <2>0
    <3> QED  BY <3>1, <3>2, <1>4, <2>0, MutexPassed
  <2> QED  BY <2>1, <2>2, <2>3, <2>4
<1> QED  BY <1>4, <1>5, <1>6, <1>7, <1>8, ReInitStep DEF sessionVars, boundVars

----------------------------------------------------------------------------
(* The steps that move sessions.                                           *)

\* A session that was destroyed is freed.
LEMMA FreeStep ==
  ASSUME SInv, NEW t \in Threads, FreeSession(t)
  PROVE  SInv'
<1> USE DEF SInv
<1> DEFINE D == sessions2Delete[t] \cap destroyed
<1>1. /\ deleted' = deleted \cup D
      /\ sessions2Delete' = [sessions2Delete EXCEPT ![t] = @ \ D]
      /\ fresh' \in [Objects -> BOOLEAN] /\ fTerminated' \in [Objects -> BOOLEAN]
      /\ UNCHANGED <<fSessions, fDisabledSessions, fSessionsMutex, created, destroyed, fMutex, fRefCount,
                     pc, id, session, ctx, todo, found, boundVars, reset>>
  BY DEF FreeSession, listVars, cleanupVars
<1>2. D # {} /\ pc[t] # "add"  BY DEF FreeSession, LocalsKnown
<1>3. sessions2Delete \in [Threads -> SUBSET Objects]  BY DEF SessionsTypeOK
<1>4. sessions2Delete' \in [Threads -> SUBSET Objects]  BY <1>1, <1>3
<1>5. \A u \in Threads : sessions2Delete'[u] = IF u = t THEN sessions2Delete[t] \ D ELSE sessions2Delete[u]
  BY <1>1, <1>3
<1>6. SessionsTypeOK'
  <2>1. deleted' \subseteq destroyed'  BY <1>1 DEF SessionsTypeOK
  <2> QED  BY <2>1, <1>1, <1>4 DEF SessionsTypeOK, boundVars
<1>7. ContextHolds'  BY <1>1, ContextKept
<1>8. LocalsKnown'
  <2>1. \A u \in Threads : sessions2Delete'[u] \subseteq sessions2Delete[u]  BY <1>5
  <2> QED  BY <2>1, <1>1, ThreadsDiffer DEF LocalsKnown
<1>9. \A u \in Threads : Hands(u)' = IF u = t THEN Hands(t) \ D ELSE Hands(u)
  BY <1>1, <1>2, <1>5 DEF Hands
<1>10. D \subseteq Hands(t) /\ D \subseteq Objects  BY <1>3 DEF Hands
<1> HIDE DEF D
<1>11. PlacesApart'
  <2>1. \A i, j \in Ids : fSessions'[i] = fSessions'[j] => i = j \/ fSessions'[i] = NoObj
    BY <1>1 DEF PlacesApart
  <2>2. \A u, v \in Threads, o \in Objects : o \in Hands(u)' /\ o \in Hands(v)' => u = v
    BY <1>9 DEF PlacesApart
  <2>3. \A u \in Threads, o \in Objects :
          o \in Hands(u)' => o \notin Active(fSessions)' /\ o \notin fDisabledSessions' /\ o \notin deleted'
    BY <1>1, <1>9, <1>10 DEF PlacesApart
  <2>4. \A o \in fDisabledSessions' : o \notin Active(fSessions)' /\ o \notin deleted'
    BY <1>1, <1>10 DEF PlacesApart
  <2>5. \A o \in deleted' : o \notin Active(fSessions)'  BY <1>1, <1>10 DEF PlacesApart
  <2> QED  BY <2>1, <2>2, <2>3, <2>4, <2>5 DEF PlacesApart
<1>12. PlacesFound'
  <2> SUFFICES ASSUME NEW o \in Objects
               PROVE  o \in 1..created' <=>
                        \/ o \in Active(fSessions)' \/ o \in fDisabledSessions' \/ o \in deleted'
                        \/ \E u \in Threads : o \in Hands(u)'
    BY DEF PlacesFound
  <2>1. o \in 1..created <=>
          \/ o \in Active(fSessions) \/ o \in fDisabledSessions \/ o \in deleted
          \/ \E u \in Threads : o \in Hands(u)
    BY DEF PlacesFound
  <2>2. (\E u \in Threads : o \in Hands(u)) <=> o \in D \/ \E u \in Threads : o \in Hands(u)'
    BY <1>9, <1>10
  <2> QED  BY <2>1, <2>2, <1>1
<1>13. Making' \subseteq Making /\ UNCHANGED <<created, requests>>  BY <1>1 DEF Making, MakePlaces, boundVars
<1>14. OneSessionEach'  BY <1>13, CountKept
<1>15. Listed' = Listed  BY <1>1 DEF Listed
<1>16. MutexHeld' /\ CleaningKnown'  BY <1>1, <1>15 DEF MutexHeld, CleaningKnown
<1> QED  BY <1>6, <1>7, <1>8, <1>11, <1>12, <1>14, <1>16

\* A session is made, by a request that has not made one.
LEMMA DoMakeStep ==
  ASSUME SInv, NEW r \in Requests, DoMakeSession(r)
  PROVE  SInv'
<1> USE DEF SInv
<1> DEFINE n == created + 1
<1>1. /\ pc[r] = "make" /\ sessions2Delete[r] = {} /\ r \in Threads
      /\ created' = n /\ session' = [session EXCEPT ![r] = n] /\ InitSession(r, n)
      /\ id' = [id EXCEPT ![r] = IF @ = NoId THEN n ELSE @]
      /\ Goto(r, "add") /\ "add" \in PCs
      /\ UNCHANGED <<fSessions, fDisabledSessions, fSessionsMutex, destroyed, deleted, fresh, fTerminated,
                     sessions2Delete, todo, found, boundVars, requests, reset>>
  BY ThreadsDiffer DEF DoMakeSession, PCs, listVars, boundVars, cleanupVars
<1>2. NumRequests \in Nat  BY SessionsAssumption
<1>3. created \in Nat /\ requests \in Nat /\ requests <= NumRequests  BY <1>2 DEF SessionsTypeOK
<1>4. pc' \in [Threads -> PCs] /\ \A u \in Threads : pc'[u] = IF u = r THEN "add" ELSE pc[u]
  BY <1>1, GotoTypes
<1>5. OneSessionEach' /\ n <= NumRequests
  <2>1. Making' = Making \ {r} /\ r \in Making  BY <1>1, <1>4, ThreadsDiffer DEF Making, MakePlaces
  <2>2. Making \in SUBSET Requests  BY DEF Making, MakePlaces
  <2>3. IsFiniteSet(Making) /\ Cardinality(Making) \in Nat  BY <2>2, MakingFinite
  <2>4. IsFiniteSet(Making \ {r}) /\ Cardinality(Making \ {r}) = Cardinality(Making) - 1
    BY <2>1, <2>3, FS_RemoveElement
  <2>5. Cardinality(Making \ {r}) \in Nat  BY <2>4, FS_CardinalityType
  <2>6. created + Cardinality(Making) <= requests  BY DEF OneSessionEach
  <2>7. n <= requests  BY <2>3, <2>4, <2>5, <2>6, <1>3
  <2>8. Cardinality(Making') = Cardinality(Making) - 1  BY <2>1, <2>4
  <2>9. created' + Cardinality(Making') <= requests'  BY <2>3, <2>8, <2>6, <1>1, <1>3
  <2> QED  BY <2>7, <2>9, <1>2, <1>3 DEF OneSessionEach
<1>6. n \in Objects /\ n # NoObj /\ n \notin 1..created /\ n \in Ids
  BY <1>2, <1>3, <1>5 DEF Objects, NoObj, Ids
<1>7. CanLock(r, n)
  <2> SUFFICES ASSUME fMutex[n] # Nobody  PROVE FALSE  BY DEF CanLock
  <2>1. fMutex[n] \in Threads  BY <1>6 DEF SessionsTypeOK
  <2>2. ctx[fMutex[n]] = n  BY <2>1, <1>6 DEF ContextHolds
  <2>3. ctx[fMutex[n]] \in 0..created  BY <2>1 DEF LocalsKnown
  <2> QED  BY <2>2, <2>3, <1>3
<1>8. /\ ContextHolds'
      /\ ctx' \in [Threads -> Objects \cup {NoObj}]
      /\ fMutex' \in [Objects -> Threads \cup {Nobody}]
      /\ fRefCount' \in [Objects -> Nat]
      /\ \A u \in Threads : ctx'[u] = IF u = r THEN n ELSE ctx[u]
  BY <1>1, <1>6, <1>7, InitSessionHolds
<1>9. /\ session' \in [Threads -> Objects \cup {NoObj}]
      /\ \A u \in Threads : session'[u] = IF u = r THEN n ELSE session[u]
  BY <1>1, <1>6 DEF SessionsTypeOK
<1>10. id' \in [Threads -> Ids \cup {NoId}] /\ id'[r] \in Ids /\ \A u \in Threads : u # r => id'[u] = id[u]
  BY <1>1, <1>6 DEF SessionsTypeOK
<1>11. SessionsTypeOK'
  <2>1. created' \in 0..NumRequests  BY <1>1, <1>2, <1>3, <1>5
  <2>2. 1..created \subseteq 1..created'  BY <1>1, <1>3
  <2>3. deleted' \subseteq destroyed' /\ destroyed' \subseteq 1..created'
    BY <2>2, <1>1 DEF SessionsTypeOK
  <2> QED  BY <2>1, <2>3, <1>1, <1>4, <1>8, <1>9, <1>10 DEF SessionsTypeOK, PCs, boundVars
<1>12. LocalsKnown'
  <2>1. \A u \in Threads : session'[u] \in 0..created' /\ ctx'[u] \in 0..created'
    BY <1>1, <1>3, <1>8, <1>9 DEF LocalsKnown
  <2>2. \A u \in Threads : pc'[u] = "add" => /\ u \in Requests /\ id'[u] \in Ids /\ sessions2Delete'[u] = {}
                                             /\ session'[u] # NoObj /\ session'[u] = ctx'[u]
    BY <1>1, <1>4, <1>6, <1>8, <1>9, <1>10 DEF LocalsKnown
  <2>3. \A u \in Requests :
          /\ sessions2Delete'[u] # {} => pc'[u] \in {"cleaning", "make", "end", "undefined"}
          /\ ctx'[u] \notin sessions2Delete'[u]
    BY <1>1, <1>4, <1>8, ThreadsDiffer DEF LocalsKnown
  <2> QED  BY <2>1, <2>2, <2>3 DEF LocalsKnown
<1>13. \A u \in Threads : Hands(u)' = IF u = r THEN {n} ELSE Hands(u)
  BY <1>1, <1>4, <1>6, <1>9 DEF Hands
<1>14. \A o \in Objects : o \in 1..created' <=> o \in 1..created \/ o = n
  BY <1>1, <1>3, <1>2 DEF Objects
<1>15. /\ n \notin Active(fSessions) /\ n \notin fDisabledSessions /\ n \notin deleted
       /\ \A u \in Threads : n \notin Hands(u)
  BY <1>6 DEF PlacesFound
<1>16. Hands(r) = {}  BY <1>1 DEF Hands
<1> HIDE DEF n
<1>17. PlacesApart'
  <2>1. \A i, j \in Ids : fSessions'[i] = fSessions'[j] => i = j \/ fSessions'[i] = NoObj
    BY <1>1 DEF PlacesApart
  <2>2. \A u, v \in Threads, o \in Objects : o \in Hands(u)' /\ o \in Hands(v)' => u = v
    BY <1>13, <1>15 DEF PlacesApart
  <2>3. \A u \in Threads, o \in Objects :
          o \in Hands(u)' => o \notin Active(fSessions)' /\ o \notin fDisabledSessions' /\ o \notin deleted'
    BY <1>1, <1>13, <1>15 DEF PlacesApart
  <2>4. \A o \in fDisabledSessions' : o \notin Active(fSessions)' /\ o \notin deleted'
    BY <1>1 DEF PlacesApart
  <2>5. \A o \in deleted' : o \notin Active(fSessions)'  BY <1>1 DEF PlacesApart
  <2> QED  BY <2>1, <2>2, <2>3, <2>4, <2>5 DEF PlacesApart
<1>18. PlacesFound'
  <2> SUFFICES ASSUME NEW o \in Objects
               PROVE  o \in 1..created' <=>
                        \/ o \in Active(fSessions)' \/ o \in fDisabledSessions' \/ o \in deleted'
                        \/ \E u \in Threads : o \in Hands(u)'
    BY DEF PlacesFound
  <2>1. o \in 1..created <=>
          \/ o \in Active(fSessions) \/ o \in fDisabledSessions \/ o \in deleted
          \/ \E u \in Threads : o \in Hands(u)
    BY DEF PlacesFound
  <2>2. (\E u \in Threads : o \in Hands(u)') <=> o = n \/ \E u \in Threads : o \in Hands(u)
    BY <1>1, <1>13, <1>16
  <2> QED  BY <2>1, <2>2, <1>1, <1>14
<1>19. MutexHeld' /\ CleaningKnown'
  <2>1. Listed' = Listed  BY <1>1 DEF Listed
  <2> QED  BY <2>1, <1>1, <1>4, <1>8, ThreadsDiffer, MutexKept
<1> QED  BY <1>5, <1>8, <1>11, <1>12, <1>17, <1>18, <1>19

\* A session goes from the hands of its request to the list; a session that
\* was there under its id is disabled.
LEMMA AddStep ==
  ASSUME SInv, NEW r \in Requests, AddSession(r)
  PROVE  SInv'
<1> USE DEF SInv
<1> DEFINE x   == session[r]
           i   == id[r]
           old == {fSessions[i]} \ {NoObj}
<1>1. /\ pc[r] = "add" /\ r \in Threads
      /\ fDisabledSessions' = fDisabledSessions \cup old
      /\ fSessions' = [fSessions EXCEPT ![i] = x]
      /\ Goto(r, "render") /\ "render" \in PCs
      /\ UNCHANGED <<fSessionsMutex, sessionVars, created, deleted, id, session, ctx, sessions2Delete,
                     todo, found, boundVars, requests, reset>>
  BY ThreadsDiffer DEF AddSession, PCs, sessionVars, boundVars, cleanupVars
<1>2. i \in Ids /\ sessions2Delete[r] = {} /\ x \in Objects /\ x # NoObj
  BY <1>1 DEF LocalsKnown, SessionsTypeOK
<1>3. pc' \in [Threads -> PCs] /\ \A u \in Threads : pc'[u] = IF u = r THEN "render" ELSE pc[u]
  BY <1>1, GotoTypes
<1>4. fSessions \in [Ids -> Objects \cup {NoObj}]  BY DEF SessionsTypeOK
<1>5. old \subseteq Objects /\ old \subseteq Active(fSessions)  BY <1>2, <1>4 DEF Active
<1>6. SessionsTypeOK'
  <2>1. fSessions' \in [Ids -> Objects \cup {NoObj}]  BY <1>1, <1>2, <1>4
  <2>2. fDisabledSessions' \subseteq Objects  BY <1>1, <1>5 DEF SessionsTypeOK
  <2> QED  BY <2>1, <2>2, <1>1, <1>3 DEF SessionsTypeOK, PCs, sessionVars, boundVars
<1>7. ContextHolds'  BY <1>1, ContextKept DEF sessionVars
<1>8. LocalsKnown'
  <2>1. \A u \in Threads : pc'[u] = "add" => pc[u] = "add"  BY <1>3
  <2>2. \A u \in Requests :
          /\ sessions2Delete'[u] # {} => pc'[u] \in {"cleaning", "make", "end", "undefined"}
          /\ ctx'[u] \notin sessions2Delete'[u]
    BY <1>1, <1>2, <1>3, ThreadsDiffer DEF LocalsKnown
  <2> QED  BY <2>1, <2>2, <1>1 DEF LocalsKnown
<1>9. \A u \in Threads : Hands(u)' = IF u = r THEN {} ELSE Hands(u)
  BY <1>1, <1>2, <1>3 DEF Hands
<1>10. Hands(r) = {x}  BY <1>1, <1>2 DEF Hands
<1>11. Active(fSessions)' = (Active(fSessions) \ {fSessions[i]}) \cup {x}
  <2>0. \A j \in Ids : \A k \in Ids : fSessions[j] = fSessions[k] => j = k \/ fSessions[j] = NoObj
    BY DEF PlacesApart
  <2> HIDE DEF x, i
  <2>1. Active(fSessions') = (Active(fSessions) \ {fSessions[i]}) \cup ({x} \ {NoObj})
    BY <2>0, <1>1, <1>2, <1>4 DEF Active
  <2> QED  BY <2>1, <1>1, <1>2
<1>12. Active(fSessions)' = (Active(fSessions) \ old) \cup {x}  BY <1>11 DEF Active
<1>13. \A j \in Ids : fSessions'[j] = IF j = i THEN x ELSE fSessions[j]  BY <1>1, <1>4
<1>14. \A j \in Ids : fSessions[j] # x
  <2>1. x \notin Active(fSessions)  BY <1>1, <1>2, <1>10 DEF PlacesApart
  <2> QED  BY <2>1, <1>2 DEF Active
<1> HIDE DEF x, i, old
<1>15. PlacesApart'
  <2>1. \A j, k \in Ids : fSessions'[j] = fSessions'[k] => j = k \/ fSessions'[j] = NoObj
    BY <1>2, <1>13, <1>14 DEF PlacesApart
  <2>2. \A u, v \in Threads, o \in Objects : o \in Hands(u)' /\ o \in Hands(v)' => u = v
    BY <1>1, <1>2, <1>5, <1>9, <1>10, <1>12 DEF PlacesApart
  <2>3. \A u \in Threads, o \in Objects :
          o \in Hands(u)' => o \notin Active(fSessions)' /\ o \notin fDisabledSessions' /\ o \notin deleted'
    BY <1>1, <1>2, <1>5, <1>9, <1>10, <1>12 DEF PlacesApart
  <2>4. \A o \in fDisabledSessions' : o \notin Active(fSessions)' /\ o \notin deleted'
    BY <1>1, <1>2, <1>5, <1>9, <1>10, <1>12 DEF PlacesApart
  <2>5. \A o \in deleted' : o \notin Active(fSessions)'
    BY <1>1, <1>2, <1>5, <1>9, <1>10, <1>12 DEF PlacesApart
  <2> QED  BY <2>1, <2>2, <2>3, <2>4, <2>5 DEF PlacesApart
<1>16. PlacesFound'
  <2> SUFFICES ASSUME NEW o \in Objects
               PROVE  o \in 1..created' <=>
                        \/ o \in Active(fSessions)' \/ o \in fDisabledSessions' \/ o \in deleted'
                        \/ \E u \in Threads : o \in Hands(u)'
    BY DEF PlacesFound
  <2>1. o \in 1..created <=>
          \/ o \in Active(fSessions) \/ o \in fDisabledSessions \/ o \in deleted
          \/ \E u \in Threads : o \in Hands(u)
    BY DEF PlacesFound
  <2>2. (\E u \in Threads : o \in Hands(u)) <=> o = x \/ \E u \in Threads : o \in Hands(u)'
    BY <1>1, <1>9, <1>10
  <2> QED  BY <2>1, <2>2, <1>1, <1>5, <1>12
<1>17. Making' \subseteq Making  BY <1>3, ThreadsDiffer DEF Making, MakePlaces
<1>18. OneSessionEach'  BY <1>1, <1>17, CountKept
<1>19. MutexHeld' /\ CleaningKnown'
  <2>1. Listed \subseteq Listed'  BY <1>1, <1>12 DEF Listed
  <2> QED  BY <2>1, <1>1, <1>3, ThreadsDiffer, MutexKept
<1> QED  BY <1>6, <1>7, <1>8, <1>15, <1>16, <1>18, <1>19

\* A session goes from the list to the disabled sessions.
LEMMA DisableStep ==
  ASSUME SInv, NEW i \in Ids, DisableSession(i)
  PROVE  SInv'
<1> USE DEF SInv
<1> DEFINE x == fSessions[i]
<1>1. /\ x # NoObj
      /\ pc[Admin] = "idle" /\ events < NumEvents /\ events' = events + 1
      /\ fDisabledSessions' = fDisabledSessions \cup {x}
      /\ fSessions' = [fSessions EXCEPT ![i] = NoObj]
      /\ session' = [session EXCEPT ![Admin] = x]
      /\ Goto(Admin, "notify") /\ "notify" \in PCs
      /\ UNCHANGED <<fSessionsMutex, sessionVars, created, deleted, id, ctx, sessions2Delete,
                     todo, found, requests, reset>>
  BY DEF DisableSession, PCs, sessionVars, cleanupVars
<1>2. pc[Admin] # "add" /\ Admin \in Threads /\ Admin \notin Requests  BY OthersMakeNone
<1>3. pc' \in [Threads -> PCs] /\ \A u \in Threads : pc'[u] = IF u = Admin THEN "notify" ELSE pc[u]
  BY <1>1, <1>2, GotoTypes
<1>4. fSessions \in [Ids -> Objects \cup {NoObj}]  BY DEF SessionsTypeOK
<1>5. x \in Objects /\ x \in Active(fSessions)  BY <1>1, <1>4 DEF Active
<1>6. /\ session' \in [Threads -> Objects \cup {NoObj}]
      /\ \A u \in Threads : session'[u] = IF u = Admin THEN x ELSE session[u]
  BY <1>1, <1>2, <1>5 DEF SessionsTypeOK
<1>7. SessionsTypeOK'
  <2>1. fSessions' \in [Ids -> Objects \cup {NoObj}]  BY <1>1, <1>4
  <2>2. fDisabledSessions' \subseteq Objects  BY <1>1, <1>5 DEF SessionsTypeOK
  <2>3. events' \in 0..NumEvents
    <3>1. NumEvents \in Nat  BY SessionsAssumption
    <3> QED  BY <3>1, <1>1 DEF SessionsTypeOK
  <2> QED  BY <2>1, <2>2, <2>3, <1>1, <1>3, <1>6 DEF SessionsTypeOK, PCs, sessionVars
<1>8. ContextHolds'  BY <1>1, ContextKept DEF sessionVars
<1>9. LocalsKnown'
  <2>1. \A u \in Threads : pc'[u] = "add" => pc[u] = "add" /\ u # Admin  BY <1>2, <1>3
  <2>2. \A u \in Requests : pc'[u] = pc[u]  BY <1>2, <1>3, ThreadsDiffer
  <2>3. x \in 0..created
    <3>1. x \in 1..created  BY <1>5 DEF PlacesFound
    <3>2. NumRequests \in Nat  BY SessionsAssumption
    <3> QED  BY <3>1, <3>2 DEF SessionsTypeOK
  <2> HIDE DEF x
  <2>4. \A u \in Threads : session'[u] \in 0..created' /\ ctx'[u] \in 0..created'
    BY <2>3, <1>1, <1>6 DEF LocalsKnown
  <2> QED  BY <2>1, <2>2, <2>4, <1>1, <1>6 DEF LocalsKnown
<1>10. \A u \in Threads : Hands(u)' = Hands(u)
  BY <1>1, <1>2, <1>3, <1>6 DEF Hands
<1>11. Active(fSessions)' = Active(fSessions) \ {x}
  <2>0. \A j \in Ids : \A k \in Ids : fSessions[j] = fSessions[k] => j = k \/ fSessions[j] = NoObj
    BY DEF PlacesApart
  <2>1. Active(fSessions') = (Active(fSessions) \ {fSessions[i]}) \cup ({NoObj} \ {NoObj})
    BY <2>0, <1>1, <1>4 DEF Active
  <2> QED  BY <2>1, <1>1
<1>12. \A j \in Ids : fSessions'[j] = IF j = i THEN NoObj ELSE fSessions[j]  BY <1>1, <1>4
<1> HIDE DEF x
<1>13. PlacesApart'
  <2>1. \A j, k \in Ids : fSessions'[j] = fSessions'[k] => j = k \/ fSessions'[j] = NoObj
    BY <1>12 DEF PlacesApart
  <2>2. \A u, v \in Threads, o \in Objects : o \in Hands(u)' /\ o \in Hands(v)' => u = v
    BY <1>1, <1>5, <1>10, <1>11 DEF PlacesApart
  <2>3. \A u \in Threads, o \in Objects :
          o \in Hands(u)' => o \notin Active(fSessions)' /\ o \notin fDisabledSessions' /\ o \notin deleted'
    BY <1>1, <1>5, <1>10, <1>11 DEF PlacesApart
  <2>4. \A o \in fDisabledSessions' : o \notin Active(fSessions)' /\ o \notin deleted'
    BY <1>1, <1>5, <1>10, <1>11 DEF PlacesApart
  <2>5. \A o \in deleted' : o \notin Active(fSessions)'
    BY <1>1, <1>5, <1>10, <1>11 DEF PlacesApart
  <2> QED  BY <2>1, <2>2, <2>3, <2>4, <2>5 DEF PlacesApart
<1>14. PlacesFound'
  <2> SUFFICES ASSUME NEW o \in Objects
               PROVE  o \in 1..created' <=>
                        \/ o \in Active(fSessions)' \/ o \in fDisabledSessions' \/ o \in deleted'
                        \/ \E u \in Threads : o \in Hands(u)'
    BY DEF PlacesFound
  <2>1. o \in 1..created <=>
          \/ o \in Active(fSessions) \/ o \in fDisabledSessions \/ o \in deleted
          \/ \E u \in Threads : o \in Hands(u)
    BY DEF PlacesFound
  <2>2. (\E u \in Threads : o \in Hands(u)) <=> \E u \in Threads : o \in Hands(u)'
    BY <1>10
  <2> QED  BY <2>1, <2>2, <1>1, <1>5, <1>11
<1>15. Making' \subseteq Making  BY <1>3, ThreadsDiffer DEF Making, MakePlaces
<1>16. OneSessionEach'  BY <1>1, <1>15, CountKept
<1>17. MutexHeld' /\ CleaningKnown'
  <2>1. Listed \subseteq Listed'  BY <1>1, <1>11 DEF Listed
  <2>2. Admin \notin {Handler, Main}  BY OthersDiffer
  <2> QED  BY <2>1, <2>2, <1>1, <1>2, <1>3, MutexKept
<1> QED  BY <1>7, <1>8, <1>9, <1>13, <1>14, <1>16, <1>17

\* Finis deletes what is in the lists.
LEMMA FinisStep ==
  ASSUME SInv, Finis
  PROVE  SInv'
<1> USE DEF SInv
<1> DEFINE D == Active(fSessions) \cup fDisabledSessions
<1>1. /\ destroyed' = destroyed \cup D /\ deleted' = deleted \cup D
      /\ fSessions' = [i \in Ids |-> NoObj] /\ fDisabledSessions' = {}
      /\ fSessionsMutex' = Nobody /\ reset' = "down"
      /\ Goto(Main, "over") /\ "over" \in PCs
      /\ UNCHANGED <<created, fMutex, fRefCount, fresh, fTerminated, id, session, ctx, sessions2Delete,
                     todo, found, boundVars, requests>>
  BY DEF Finis, PCs, boundVars, cleanupVars
<1>2. pc[Main] # "add" /\ Main \in Threads /\ Main \notin Requests  BY OthersMakeNone
<1>3. pc' \in [Threads -> PCs] /\ \A u \in Threads : pc'[u] = IF u = Main THEN "over" ELSE pc[u]
  BY <1>1, <1>2, GotoTypes
<1>4. D \subseteq Objects
  BY ActiveObjects DEF SessionsTypeOK
<1>5. D \subseteq 1..created  BY <1>4 DEF PlacesFound
<1>6. Active(fSessions)' = {}  BY <1>1 DEF Active
<1>7. D = Active(fSessions) \cup fDisabledSessions  OBVIOUS
<1> HIDE DEF D
<1>8. SessionsTypeOK'
  <2>1. deleted' \subseteq destroyed' /\ destroyed' \subseteq 1..created'
    BY <1>1, <1>5 DEF SessionsTypeOK
  <2> QED  BY <2>1, <1>1, <1>3 DEF SessionsTypeOK, PCs, boundVars
<1>9. ContextHolds'  BY <1>1, ContextKept
<1>10. LocalsKnown'
  <2>1. \A u \in Threads : pc'[u] = "add" => pc[u] = "add"  BY <1>3
  <2>2. \A u \in Requests : pc'[u] = pc[u]  BY <1>2, <1>3, ThreadsDiffer
  <2> QED  BY <2>1, <2>2, <1>1 DEF LocalsKnown
<1>11. \A u \in Threads : Hands(u)' = Hands(u)  BY <1>1, <1>2, <1>3 DEF Hands
<1>12. PlacesApart'
  <2>1. \A j, k \in Ids : fSessions'[j] = fSessions'[k] => j = k \/ fSessions'[j] = NoObj
    BY <1>1
  <2>2. \A u, v \in Threads, o \in Objects : o \in Hands(u)' /\ o \in Hands(v)' => u = v
    BY <1>1, <1>4, <1>6, <1>7, <1>11 DEF PlacesApart
  <2>3. \A u \in Threads, o \in Objects :
          o \in Hands(u)' => o \notin Active(fSessions)' /\ o \notin fDisabledSessions' /\ o \notin deleted'
    BY <1>1, <1>4, <1>6, <1>7, <1>11 DEF PlacesApart
  <2>4. \A o \in fDisabledSessions' : o \notin Active(fSessions)' /\ o \notin deleted'
    BY <1>1, <1>4, <1>6, <1>7, <1>11 DEF PlacesApart
  <2>5. \A o \in deleted' : o \notin Active(fSessions)'
    BY <1>1, <1>4, <1>6, <1>7, <1>11 DEF PlacesApart
  <2> QED  BY <2>1, <2>2, <2>3, <2>4, <2>5 DEF PlacesApart
<1>13. PlacesFound'
  <2> SUFFICES ASSUME NEW o \in Objects
               PROVE  o \in 1..created' <=>
                        \/ o \in Active(fSessions)' \/ o \in fDisabledSessions' \/ o \in deleted'
                        \/ \E u \in Threads : o \in Hands(u)'
    BY DEF PlacesFound
  <2>1. o \in 1..created <=>
          \/ o \in Active(fSessions) \/ o \in fDisabledSessions \/ o \in deleted
          \/ \E u \in Threads : o \in Hands(u)
    BY DEF PlacesFound
  <2>2. (\E u \in Threads : o \in Hands(u)) <=> \E u \in Threads : o \in Hands(u)'
    BY <1>11
  <2> QED  BY <2>1, <2>2, <1>1, <1>6, <1>7
<1>14. Making' \subseteq Making  BY <1>3, ThreadsDiffer DEF Making, MakePlaces
<1>15. OneSessionEach'  BY <1>1, <1>14, CountKept
<1>16. MutexHeld' /\ CleaningKnown'
  <2>1. pc[Main] = "end" /\ fSessionsMutex = Main  BY DEF Finis, MutexHeld
  <2>2. \A u \in Threads : IF u = Main THEN pc'[u] = "over" ELSE pc'[u] = pc[u] \/ pc'[u] \in {"idle", "over"}
    BY <1>3
  <2> QED  BY <2>1, <2>2, <1>1, <1>2, MutexPassed
<1> QED  BY <1>8, <1>9, <1>10, <1>12, <1>13, <1>15, <1>16

----------------------------------------------------------------------------
(* Cleanups.                                                               *)

\* GoOn keeps fSessionsMutex exactly while there is something to do.
LEMMA GoOnMoves ==
  ASSUME SessionsTypeOK, NEW t \in Requests \cup {Cleaner}, GoOn(t)
  PROVE  \E next \in {"cleaning", "idle", "make", "end"} :
           /\ pc' \in [Threads -> PCs] /\ \A u \in Threads : pc'[u] = IF u = t THEN next ELSE pc[u]
           /\ next = "cleaning" => fSessionsMutex' = t
           /\ next # "cleaning" => fSessionsMutex' = Nobody /\ todo' = {} /\ found' = NoObj
           /\ t \in Requests => next # "idle"
<1> DEFINE over == todo' = {} /\ found' = NoObj
           room == Cardinality(Active(fSessions')) < fMaxSessionsAllowed
           next == IF ~over THEN "cleaning" ELSE IF t = Cleaner THEN "idle" ELSE IF room THEN "make" ELSE "end"
<1>1. Goto(t, next) /\ fSessionsMutex' = IF over THEN Nobody ELSE t  BY DEF GoOn
<1>2. next \in {"cleaning", "idle", "make", "end"} /\ next \in PCs  BY DEF PCs
<1>3. next = "cleaning" <=> ~over  OBVIOUS
<1>4. t \in Requests => next # "idle"  BY ThreadsDiffer
<1>5. over <=> todo' = {} /\ found' = NoObj  OBVIOUS
<1>6. t \in Threads  BY ThreadsDiffer
<1> HIDE DEF over, room, next
<1>7. pc' \in [Threads -> PCs] /\ \A u \in Threads : pc'[u] = IF u = t THEN next ELSE pc[u]
  BY <1>1, <1>2, <1>6, GotoTypes
<1> QED  BY <1>1, <1>2, <1>3, <1>4, <1>5, <1>7

\* A step of the cleanup that has fSessionsMutex, or gets it.
LEMMA CleaningGoesOn ==
  ASSUME MutexHeld, NEW t \in Requests \cup {Cleaner}, fSessionsMutex \in {Nobody, t},
         NEW next \in {"cleaning", "idle", "make", "end"},
         \A u \in Threads : pc'[u] = IF u = t THEN next ELSE pc[u],
         next = "cleaning" => fSessionsMutex' = t,
         next # "cleaning" => todo' = {} /\ found' = NoObj,
         todo' \subseteq Listed', found' \in Listed' \cup {NoObj}, found' \notin todo',
         found' # NoObj => ctx'[t] # found'
  PROVE  MutexHeld' /\ CleaningKnown'
<1>1. t \in Threads /\ t \notin {Handler, Main} /\ Nobody \notin Threads
  BY ThreadsDiffer, OthersDiffer
<1>2. \A u \in Threads : u # t => /\ pc'[u] \notin {"lookup", "refresh", "cleaning", "terminate"}
                                  /\ u \in {Handler, Main} => pc'[u] # "end"
  BY <1>1 DEF MutexHeld
<1>3. MutexHeld'  BY <1>1, <1>2, ThreadsDiffer DEF MutexHeld
<1>4. todo' # {} \/ found' # NoObj => pc'[t] = "cleaning" /\ fSessionsMutex' = t  BY <1>1
<1>5. \A u \in Threads : pc'[u] = "cleaning" /\ found' # NoObj => ctx'[u] # found'  BY <1>2
<1> QED  BY <1>1, <1>3, <1>4, <1>5 DEF CleaningKnown

\* DoCleanup looks at a session and leaves the lists as they are.
LEMMA LookStep ==
  ASSUME SInv, NEW t \in Requests \cup {Cleaner}, NEW left \in SUBSET Listed, Look(t, left),
         fSessionsMutex \in {Nobody, t}, pc[t] # "add", t \in Requests => t \in Making
  PROVE  SInv'
<1> USE DEF SInv
<1>1. PICK o \in left :
        /\ todo' = left \ {o}
        /\ found' = IF IsDeletable(t, o) THEN o ELSE NoObj
        /\ fTerminated' = [fTerminated EXCEPT ![o] =
             @ \/ (CanLock(t, o) /\ (o \in fDisabledSessions \/ ~fresh[o]))]
        /\ IF ctx[t] = o THEN InitSession(t, NoObj) ELSE UNCHANGED <<ctx, fMutex, fRefCount>>
  BY DEF Look
<1>2. UNCHANGED <<fSessions, fDisabledSessions, created, destroyed, deleted, fresh, id, session,
                  sessions2Delete, requests, events, reset>>
  BY DEF Look, boundVars
<1>3. t \in Threads  BY ThreadsDiffer
<1>4. Listed \subseteq Objects /\ NoObj \notin Objects
  BY ActiveObjects, ObjectsAndIds DEF SessionsTypeOK, Listed
<1>5. o \in Objects /\ o # NoObj  BY <1>4
<1>6. PICK next \in {"cleaning", "idle", "make", "end"} :
        /\ pc' \in [Threads -> PCs] /\ \A u \in Threads : pc'[u] = IF u = t THEN next ELSE pc[u]
        /\ next = "cleaning" => fSessionsMutex' = t
        /\ next # "cleaning" => fSessionsMutex' = Nobody /\ todo' = {} /\ found' = NoObj
        /\ t \in Requests => next # "idle"
  BY GoOnMoves DEF Look
<1>7. /\ ContextHolds'
      /\ ctx' \in [Threads -> Objects \cup {NoObj}]
      /\ fMutex' \in [Objects -> Threads \cup {Nobody}]
      /\ fRefCount' \in [Objects -> Nat]
      /\ \A u \in Threads : ctx'[u] = ctx[u] \/ (u = t /\ ctx'[u] = NoObj)
  <2>1. CASE InitSession(t, NoObj)
    <3>1. /\ ContextHolds'
          /\ ctx' \in [Threads -> Objects \cup {NoObj}]
          /\ fMutex' \in [Objects -> Threads \cup {Nobody}]
          /\ fRefCount' \in [Objects -> Nat]
          /\ \A u \in Threads : ctx'[u] = IF u = t THEN NoObj ELSE ctx[u]
      BY <2>1, <1>3, InitSessionHolds
    <3> QED  BY <3>1
  <2>2. CASE UNCHANGED <<ctx, fMutex, fRefCount>>
    <3>1. ContextHolds'  BY <2>2, ContextKept
    <3> QED  BY <3>1, <2>2 DEF SessionsTypeOK
  <2> QED  BY <2>1, <2>2, <1>1
<1>8. fTerminated' \in [Objects -> BOOLEAN]
  <2>1. fTerminated \in [Objects -> BOOLEAN]  BY DEF SessionsTypeOK
  <2>2. (fTerminated[o] \/ (CanLock(t, o) /\ (o \in fDisabledSessions \/ ~fresh[o]))) \in BOOLEAN
    BY <2>1, <1>5 DEF CanLock
  <2> QED  BY <2>1, <2>2, <1>1
<1>9. todo' \subseteq Listed /\ found' \in Listed \cup {NoObj} /\ found' \notin todo'
  <2>1. todo' = left \ {o} /\ (found' = o \/ found' = NoObj)  BY <1>1
  <2> QED  BY <2>1, <1>4
<1>10. fSessionsMutex' \in Threads \cup {Nobody}  BY <1>3, <1>6
<1>11. SessionsTypeOK'
  BY <1>2, <1>4, <1>6, <1>7, <1>8, <1>9, <1>10 DEF SessionsTypeOK, PCs
<1>12. MutexHeld' /\ CleaningKnown'
  <2>1. Listed' = Listed  BY <1>2 DEF Listed
  <2>2. found' # NoObj => ctx'[t] # found'
    <3> SUFFICES ASSUME found' # NoObj  PROVE ctx'[t] # found'  OBVIOUS
    <3>1. found' = o /\ fRefCount[o] = 0  BY <1>1 DEF IsDeletable
    <3>2. fMutex[o] = Nobody  BY <3>1, <1>5 DEF ContextHolds
    <3>3. ctx[t] # o  BY <3>2, <1>3, <1>5, ThreadsDiffer DEF ContextHolds
    <3> QED  BY <3>1, <3>3, <1>3, <1>5, <1>7
  <2> QED  BY <2>1, <2>2, <1>6, <1>9, CleaningGoesOn
<1>13. NoObj \in 0..created
  <2>1. NumRequests \in Nat  BY SessionsAssumption
  <2> QED  BY <2>1 DEF NoObj, SessionsTypeOK
<1>14. sessions2Delete[t] \subseteq Objects  BY <1>3 DEF SessionsTypeOK
<1>15. session'[t] \in 0..created /\ ctx'[t] \in 0..created
  BY <1>2, <1>3, <1>7, <1>13 DEF LocalsKnown
<1>16. t \in Requests => ctx'[t] \notin sessions2Delete[t]
  BY <1>3, <1>4, <1>7, <1>14 DEF LocalsKnown
<1>17. \A u \in Threads : u # t => session'[u] = session[u] /\ id'[u] = id[u] /\ ctx'[u] = ctx[u]
  BY <1>2, <1>7
<1>18. next \in PCs /\ next # "add"  BY DEF PCs
<1> QED
  BY <1>2, <1>3, <1>6, <1>7, <1>11, <1>12, <1>15, <1>16, <1>17, <1>18, MoveOnStep

\* A session goes from its list to the hands of the cleanup.
LEMMA RemoveStep ==
  ASSUME SInv, NEW t \in Threads, CleanupRemove(t)
  PROVE  SInv'
<1> USE DEF SInv
<1>1. /\ pc[t] = "cleaning" /\ found # NoObj
      /\ fSessions' = [i \in Ids |-> IF fSessions[i] = found THEN NoObj ELSE fSessions[i]]
      /\ fDisabledSessions' = fDisabledSessions \ {found}
      /\ sessions2Delete' = [sessions2Delete EXCEPT ![t] = @ \cup {found}]
      /\ found' = NoObj /\ todo' = todo
      /\ UNCHANGED <<created, destroyed, deleted, fMutex, fRefCount, fresh, fTerminated, id, session, ctx,
                     requests, events, reset>>
  BY DEF CleanupRemove, sessionVars, boundVars
<1>2. t \in Requests \cup {Cleaner} /\ fSessionsMutex = t  BY <1>1 DEF MutexHeld
<1>3. found \in Listed /\ found \in Objects /\ found \notin todo
  BY <1>1, ActiveObjects DEF CleaningKnown, SessionsTypeOK
<1>4. PICK next \in {"cleaning", "idle", "make", "end"} :
        /\ pc' \in [Threads -> PCs] /\ \A u \in Threads : pc'[u] = IF u = t THEN next ELSE pc[u]
        /\ next = "cleaning" => fSessionsMutex' = t
        /\ next # "cleaning" => fSessionsMutex' = Nobody /\ todo' = {} /\ found' = NoObj
        /\ t \in Requests => next # "idle"
  BY <1>2, GoOnMoves DEF CleanupRemove
<1>5. fSessions \in [Ids -> Objects \cup {NoObj}] /\ NoObj \notin Objects
  BY ObjectsAndIds DEF SessionsTypeOK
<1>6. /\ sessions2Delete' \in [Threads -> SUBSET Objects]
      /\ \A u \in Threads : sessions2Delete'[u] = IF u = t THEN sessions2Delete[t] \cup {found} ELSE sessions2Delete[u]
  BY <1>1, <1>3 DEF SessionsTypeOK
<1>7. fSessionsMutex' \in Threads \cup {Nobody}  BY <1>4
<1>8. SessionsTypeOK'
  <2>1. fSessions' \in [Ids -> Objects \cup {NoObj}]  BY <1>1, <1>5
  <2>2. fDisabledSessions' \subseteq Objects  BY <1>1 DEF SessionsTypeOK
  <2> QED  BY <2>1, <2>2, <1>1, <1>4, <1>6, <1>7 DEF SessionsTypeOK, PCs
<1>9. ContextHolds'  BY <1>1, ContextKept
<1>10. LocalsKnown'
  <2>1. \A u \in Threads : pc'[u] = "add" => pc[u] = "add" /\ u # t  BY <1>4
  <2>2. \A u \in Requests : sessions2Delete'[u] # {} => pc'[u] \in {"cleaning", "make", "end", "undefined"}
    BY <1>4, <1>6, ThreadsDiffer DEF LocalsKnown
  <2>3. \A u \in Requests : ctx'[u] \notin sessions2Delete'[u]
    <3>1. ctx[t] # found  BY <1>1 DEF CleaningKnown
    <3> QED  BY <3>1, <1>1, <1>6, ThreadsDiffer DEF LocalsKnown
  <2> QED  BY <2>1, <2>2, <2>3, <1>1, <1>6 DEF LocalsKnown
<1>11. Active(fSessions)' = Active(fSessions) \ {found}  BY <1>1, <1>5 DEF Active
<1>12. Listed' = Listed \ {found}  BY <1>1, <1>11 DEF Listed
<1>13. MutexHeld' /\ CleaningKnown'
  <2>1. todo' \subseteq Listed' /\ found' \in Listed' \cup {NoObj}
    BY <1>1, <1>3, <1>12 DEF CleaningKnown
  <2>2. found' \notin todo'  BY <1>1, <1>5 DEF SessionsTypeOK
  <2> QED  BY <2>1, <2>2, <1>1, <1>2, <1>4, CleaningGoesOn
<1>14. \A u \in Threads : Hands(u)' = IF u = t THEN Hands(t) \cup {found} ELSE Hands(u)
  BY <1>1, <1>3, <1>4, <1>6 DEF Hands
<1>15. found \notin deleted /\ \A u \in Threads : found \notin Hands(u)
  BY <1>3 DEF Listed, PlacesApart
<1>16. \A j \in Ids : fSessions'[j] = IF fSessions[j] = found THEN NoObj ELSE fSessions[j]  BY <1>1
<1>17. PlacesApart'
  <2>1. \A j, k \in Ids : fSessions'[j] = fSessions'[k] => j = k \/ fSessions'[j] = NoObj
    BY <1>16 DEF PlacesApart
  <2>2. \A u, v \in Threads, o \in Objects : o \in Hands(u)' /\ o \in Hands(v)' => u = v
    BY <1>14, <1>15 DEF PlacesApart
  <2>3. \A u \in Threads, o \in Objects :
          o \in Hands(u)' => o \notin Active(fSessions)' /\ o \notin fDisabledSessions' /\ o \notin deleted'
    BY <1>1, <1>11, <1>14, <1>15 DEF PlacesApart
  <2>4. \A o \in fDisabledSessions' : o \notin Active(fSessions)' /\ o \notin deleted'
    BY <1>1, <1>11 DEF PlacesApart
  <2>5. \A o \in deleted' : o \notin Active(fSessions)'  BY <1>1, <1>11 DEF PlacesApart
  <2> QED  BY <2>1, <2>2, <2>3, <2>4, <2>5 DEF PlacesApart
<1>18. PlacesFound'
  <2> SUFFICES ASSUME NEW o \in Objects
               PROVE  o \in 1..created' <=>
                        \/ o \in Active(fSessions)' \/ o \in fDisabledSessions' \/ o \in deleted'
                        \/ \E u \in Threads : o \in Hands(u)'
    BY DEF PlacesFound
  <2>1. o \in 1..created <=>
          \/ o \in Active(fSessions) \/ o \in fDisabledSessions \/ o \in deleted
          \/ \E u \in Threads : o \in Hands(u)
    BY DEF PlacesFound
  <2>2. (\E u \in Threads : o \in Hands(u)') <=> o = found \/ \E u \in Threads : o \in Hands(u)
    BY <1>14
  <2>3. found \in Active(fSessions) \/ found \in fDisabledSessions  BY <1>3 DEF Listed
  <2> QED  BY <2>1, <2>2, <2>3, <1>1, <1>11
<1>19. Making' \subseteq Making  BY <1>1, <1>4, ThreadsDiffer DEF Making, MakePlaces
<1>20. OneSessionEach'  BY <1>1, <1>19, CountKept
<1> QED  BY <1>8, <1>9, <1>10, <1>13, <1>17, <1>18, <1>20

\* Every step of a cleanup, by a request or by the cleaner.
LEMMA CleanupKeeps ==
  ASSUME SInv, NEW t \in Requests \cup {Cleaner},
         CleanupStep(t) \/ (t \in Requests /\ ForceCleanup(t)) \/ (t = Cleaner /\ CleanSessions)
  PROVE  SInv'
<1> USE DEF SInv
<1>1. t \in Threads  BY ThreadsDiffer
<1>2. CASE CleanupLook(t)
  <2>1. pc[t] = "cleaning" /\ Look(t, todo)  BY <1>2 DEF CleanupLook
  <2>2. fSessionsMutex = t /\ todo \in SUBSET Listed  BY <1>1, <2>1 DEF MutexHeld, CleaningKnown
  <2>3. t \in Requests => t \in Making  BY <2>1 DEF Making, MakePlaces
  <2> QED  BY <2>1, <2>2, <2>3, LookStep
<1>3. CASE CleanupRemove(t)  BY <1>1, <1>3, RemoveStep
<1>4. CASE t \in Requests /\ ForceCleanup(t)
  <2>1. pc[t] = "cleanup" /\ fSessionsMutex = Nobody /\ Look(t, Listed)
    BY <1>4 DEF ForceCleanup, CleanupBegin, Listed
  <2>2. t \in Requests => t \in Making  BY <2>1 DEF Making, MakePlaces
  <2> QED  BY <2>1, <2>2, LookStep
<1>5. CASE t = Cleaner /\ CleanSessions
  <2>1. pc[t] = "idle" /\ fSessionsMutex = Nobody /\ Look(t, Listed)
    BY <1>5 DEF CleanSessions, CleanupBegin, Listed
  <2>2. t \notin Requests  BY <1>5, ThreadsDiffer
  <2> QED  BY <2>1, <2>2, LookStep
<1> QED  BY <1>2, <1>3, <1>4, <1>5 DEF CleanupStep

\* Initially there is no session.
LEMMA SessionsInitially ==
  ASSUME SessionsInit
  PROVE  SInv
<1> USE DEF SessionsInit
<1>1. NumRequests \in Nat /\ NumEvents \in Nat  BY SessionsAssumption
<1>2. SessionsTypeOK  BY <1>1 DEF SessionsTypeOK
<1>3. ContextHolds  BY ThreadsDiffer, ObjectsAndIds DEF ContextHolds
<1>4. \A t \in Threads : pc[t] = "idle" /\ sessions2Delete[t] = {} /\ session[t] = NoObj /\ ctx[t] = NoObj
  OBVIOUS
<1>5. NoObj \in 0..created  BY DEF NoObj
<1>6. LocalsKnown  BY <1>4, <1>5, ThreadsDiffer DEF LocalsKnown
<1>7. Active(fSessions) = {} /\ \A t \in Threads : Hands(t) = {}  BY <1>4 DEF Active, Hands
<1>8. PlacesApart  BY <1>7 DEF PlacesApart
<1>9. PlacesFound  BY <1>7 DEF PlacesFound
<1>10. Making = {}  BY <1>4, ThreadsDiffer DEF Making, MakePlaces
<1>11. Cardinality(Making) = 0  BY <1>10, FS_EmptySet
<1>12. OneSessionEach  BY <1>11 DEF OneSessionEach
<1>13. MutexHeld /\ CleaningKnown  BY <1>4, ThreadsDiffer DEF MutexHeld, CleaningKnown
<1> QED  BY <1>2, <1>3, <1>6, <1>8, <1>9, <1>12, <1>13 DEF SInv

\* A step that changes nothing.
LEMMA SessionsStutter ==
  ASSUME SInv, UNCHANGED managerVars
  PROVE  SInv'
<1>1. UNCHANGED <<fSessions, fDisabledSessions, fSessionsMutex, created, destroyed, deleted, fMutex,
                  fRefCount, fresh, fTerminated, pc, id, session, ctx, sessions2Delete,
                  todo, found, requests, events, reset>>
  BY DEF managerVars, listVars, sessionVars, boundVars, cleanupVars
<1>2. SessionsTypeOK'  BY <1>1 DEF SInv, SessionsTypeOK
<1>3. ContextHolds'  BY <1>1, ContextKept DEF SInv
<1> QED  BY <1>1, <1>2, <1>3, StillStep

\* Every step of the manager and of its requests keeps the invariant.
LEMMA SessionsStepKeeps ==
  ASSUME SInv, SessionsNext
  PROVE  SInv'
<1>1. ASSUME NEW r \in Requests, LookupSession(r)  PROVE SInv'  BY <1>1, LookupStep
<1>2. ASSUME NEW r \in Requests, RequestStep(r)  PROVE SInv'
  <2>1. r \in Threads  BY ThreadsDiffer
  <2> QED
    BY <1>2, <2>1, UseFreedStep, LookupTerminatedStep, LookupRefreshStep, PushStep, PrepareStep, MakeStep,
       NothingStep, CleanupKeeps, DestroyStep, FreeStep, DoMakeStep, AddStep, EndStep
    DEF RequestStep, DeleteStep
<1>3. ASSUME CleanerStep  PROVE SInv'
  BY <1>3, ThreadsDiffer, CleanupKeeps, DestroyStep, FreeStep DEF CleanerStep, DeleteStep
<1>4. ASSUME ResetCall(Handler, "reset") \/ ResetCall(Main, "finis")  PROVE SInv'
  BY <1>4, ResetCallStep
<1>5. ASSUME ResetStep  PROVE SInv'  BY <1>5, ResetSteps, FinisStep DEF ResetStep
<1> QED
  BY <1>1, <1>2, <1>3, <1>4, <1>5, TimeoutStep, DisableStep, DisableNotifyStep
  DEF SessionsNext

----------------------------------------------------------------------------
(* Theorems.                                                               *)

\* The invariant of the session list holds throughout, for any number of
\* requests, resets and disabled sessions.
THEOREM SessionsInvariant == SessionsSpec => []SInv
<1>1. SessionsInit => SInv  BY SessionsInitially
<1>2. SInv /\ [SessionsNext]_managerVars => SInv'  BY SessionsStepKeeps, SessionsStutter
<1> QED  BY <1>1, <1>2, PTL DEF SessionsSpec

\* SessionListManager keeps its variables within their types: no request makes
\* a second session, however often it is sent on.
THEOREM SessionsTypes == SessionsSpec => []SessionsTypeOK
<1>1. SInv => SessionsTypeOK  BY DEF SInv
<1> QED  BY <1>1, SessionsInvariant, PTL

\* KnownOnce: AddSession, DisableSession, CleanupSessions and Finis neither
\* lose a session nor leave it in two places, so none is leaked or deleted twice.
THEOREM SessionsKnownOnce == SessionsSpec => []KnownOnce
<1>1. SInv => KnownOnce
  <2> SUFFICES ASSUME SInv, NEW o \in 1..created
               PROVE  Cardinality(Places(o)) = IF o \in deleted THEN 0 ELSE 1
    BY DEF KnownOnce
  <2> USE DEF SInv
  <2>1. o \in Objects /\ o # NoObj
    <3>1. NumRequests \in Nat  BY SessionsAssumption
    <3> QED  BY <3>1 DEF SessionsTypeOK, Objects, NoObj
  <2>2. \A i \in Ids : fSessions[i] = o => o \in Active(fSessions)  BY <2>1 DEF Active
  <2>3. \A t \in Threads :
          o \in Hands(t) <=> (o \in sessions2Delete[t] \/ (pc[t] = "add" /\ session[t] = o))
    BY <2>1 DEF Hands
  <2>4. Places(o) = {i \in Ids : fSessions[i] = o}
                      \cup {t \in Threads : o \in Hands(t)}
                      \cup (IF o \in fDisabledSessions THEN {NoId} ELSE {})
    BY <2>3 DEF Places
  <2>5. CASE o \in deleted
    <3>1. Places(o) = {}  BY <2>1, <2>2, <2>4, <2>5 DEF PlacesApart
    <3> QED  BY <3>1, <2>5, FS_EmptySet
  <2>6. CASE o \notin deleted
    <3>1. SUFFICES \E p : Places(o) = {p}  BY <3>1, <2>6, FS_Singleton
    <3>2. CASE o \in Active(fSessions)
      <4>1. PICK i \in Ids : fSessions[i] = o  BY <3>2 DEF Active
      <4>2. Places(o) = {i}  BY <4>1, <3>2, <2>1, <2>4 DEF PlacesApart
      <4> QED  BY <4>2
    <3>3. CASE o \in fDisabledSessions
      <4>1. Places(o) = {NoId}  BY <3>3, <2>1, <2>2, <2>4 DEF PlacesApart
      <4> QED  BY <4>1
    <3>4. CASE \E t \in Threads : o \in Hands(t)
      <4>1. PICK t \in Threads : o \in Hands(t)  BY <3>4
      <4>2. Places(o) = {t}  BY <4>1, <2>1, <2>2, <2>4 DEF PlacesApart
      <4> QED  BY <4>2
    <3> QED  BY <3>2, <3>3, <3>4, <2>1, <2>6 DEF PlacesFound
  <2> QED  BY <2>5, <2>6
<1> QED  BY <1>1, SessionsInvariant, PTL

\* NotDestroyedInUse: Notify and ~Session lock the session's mutex, which every
\* context that refers to it holds, and a request deletes no session of its own
\* context; Finis comes when no request is handled.
THEOREM SessionsNotDestroyedInUse == SessionsSpec => NotDestroyedInUse
<1>1. ASSUME SInv, [SessionsNext]_managerVars
      PROVE  \A o \in destroyed' \ destroyed : \A r \in Requests : ctx[r] # o
  <2> USE DEF SInv
  <2> SUFFICES ASSUME NEW o \in destroyed' \ destroyed, NEW r \in Requests, ctx[r] = o  PROVE FALSE
    OBVIOUS
  <2>1. r \in Threads /\ Nobody \notin Threads /\ r # Main  BY ThreadsDiffer
  <2>2. o \in Objects
    <3>1. SInv'  BY <1>1, SessionsStepKeeps, SessionsStutter
    <3>2. o \in 1..created' /\ created' \in 0..NumRequests /\ NumRequests \in Nat
      BY <3>1, SessionsAssumption DEF SessionsTypeOK
    <3> QED  BY <3>2 DEF Objects
  <2>3. fMutex[o] = r  BY <1>1, <2>1, <2>2 DEF ContextHolds
  <2>4. ASSUME NEW u \in Threads, DestroySession(u)  PROVE FALSE
    <3>1. o \in sessions2Delete[u] /\ CanLock(u, o)  BY <2>4 DEF DestroySession
    <3>2. u = r  BY <3>1, <2>1, <2>3 DEF CanLock
    <3> QED  BY <1>1, <3>1, <3>2 DEF LocalsKnown
  <2>5. ASSUME Finis  PROVE FALSE
    <3>1. CanLock(Main, o)  BY <2>5 DEF Finis
    <3> QED  BY <3>1, <2>1, <2>3 DEF CanLock
  <2>6. ASSUME destroyed' = destroyed  PROVE FALSE  BY <2>6
  <2>7. CASE UNCHANGED managerVars  BY <2>6, <2>7 DEF managerVars, sessionVars
  <2>8. CASE SessionsNext
    <3> USE DEF sessionVars
    <3>1. ASSUME NEW u \in Requests, LookupSession(u)  PROVE FALSE  BY <3>1, <2>6 DEF LookupSession
    <3>2. ASSUME NEW u \in Threads, DeleteStep(u)  PROVE FALSE
      BY <3>2, <2>4, <2>6 DEF DeleteStep, FreeSession
    <3>3. ASSUME NEW u, CleanupStep(u) \/ CleanupBegin(u)  PROVE FALSE
      BY <3>3, <2>6 DEF CleanupStep, CleanupBegin, CleanupLook, CleanupRemove, Look
    <3>4. ASSUME NEW u \in Requests, RequestStep(u)  PROVE FALSE
      <4>1. u \in Threads  BY ThreadsDiffer
      <4>2. CASE UseFreed(u) \/ LookupTerminated(u) \/ LookupRefresh(u)
        BY <4>2, <2>6 DEF UseFreed, LookupTerminated, LookupRefresh
      <4>3. CASE PushSession(u) \/ PrepareSession(u)  BY <4>3, <2>6 DEF PushSession, PrepareSession
      <4>4. CASE MakeSession(u) \/ NothingToClean(u)  BY <4>4, <2>6 DEF MakeSession, NothingToClean
      <4>5. CASE ForceCleanup(u) \/ CleanupStep(u)  BY <4>5, <3>3 DEF ForceCleanup
      <4>6. CASE DeleteStep(u)  BY <4>1, <4>6, <3>2
      <4>7. CASE DoMakeSession(u) \/ AddSession(u) \/ EndRequest(u)
        BY <4>7, <2>6 DEF DoMakeSession, AddSession, EndRequest
      <4> QED  BY <3>4, <4>2, <4>3, <4>4, <4>5, <4>6, <4>7 DEF RequestStep
    <3>5. CASE CleanerStep  BY <3>5, <3>2, <3>3, ThreadsDiffer DEF CleanerStep, CleanSessions
    <3>6. ASSUME NEW x \in Objects, Timeout(x)  PROVE FALSE  BY <3>6, <2>6 DEF Timeout
    <3>7. ASSUME NEW i \in Ids, DisableSession(i)  PROVE FALSE  BY <3>7, <2>6 DEF DisableSession
    <3>8. CASE DisableNotify  BY <3>8, <2>6 DEF DisableNotify
    <3>9. CASE ResetCall(Handler, "reset") \/ ResetCall(Main, "finis")  BY <3>9, <2>6 DEF ResetCall
    <3>10. CASE ResetStep
      BY <3>10, <2>5, <2>6 DEF ResetStep, EnterReInit, TerminateCleaner, ResetInit, ResetFails
    <3> QED
      BY <2>8, <3>1, <3>4, <3>5, <3>6, <3>7, <3>8, <3>9, <3>10 DEF SessionsNext
  <2> QED  BY <1>1, <2>7, <2>8
<1>2. SInv /\ [SessionsNext]_managerVars
        => [\A o \in destroyed' \ destroyed : \A r \in Requests : ctx[r] # o]_managerVars
  BY <1>1
<1> QED  BY <1>2, SessionsInvariant, PTL DEF SessionsSpec, NotDestroyedInUse

\* NeverListedAgain: only AddSession adds to the list, and what it adds is in
\* the hands of the request that has just made it.
THEOREM SessionsNeverListedAgain == SessionsSpec => NeverListedAgain
<1>1. ASSUME SInv, [SessionsNext]_managerVars
      PROVE  \A o \in fDisabledSessions \cup Taken \cup deleted : o \notin Active(fSessions')
  <2> SUFFICES ASSUME NEW o \in fDisabledSessions \cup Taken \cup deleted  PROVE o \notin Active(fSessions')
    OBVIOUS
  <2> USE DEF SInv
  <2>1. NumRequests \in Nat  BY SessionsAssumption
  <2>2. o \in Objects
    <3>1. fDisabledSessions \subseteq Objects /\ Taken \subseteq Objects  BY <1>1 DEF SessionsTypeOK, Taken
    <3>2. deleted \subseteq 1..created /\ created \in 0..NumRequests  BY <1>1 DEF SessionsTypeOK
    <3>3. 1..created \subseteq Objects  BY <3>2, <2>1 DEF Objects
    <3> QED  BY <3>1, <3>2, <3>3
  <2>3. \A t \in Threads : o \in sessions2Delete[t] => o \in Hands(t)  BY <2>2 DEF Hands
  <2>4. o \notin Active(fSessions)  BY <1>1, <2>2, <2>3 DEF Taken, PlacesApart
  <2>5. ASSUME fSessions' = fSessions  PROVE o \notin Active(fSessions')  BY <2>4, <2>5
  <2>6. fSessions \in [Ids -> Objects \cup {NoObj}] /\ o # NoObj
    BY <1>1, <2>2, ObjectsAndIds DEF SessionsTypeOK
  <2>7. ASSUME NEW t, CleanupStep(t) \/ CleanupBegin(t)  PROVE o \notin Active(fSessions')
    <3>1. CASE CleanupLook(t) \/ CleanupBegin(t)  BY <3>1, <2>5 DEF CleanupLook, CleanupBegin, Look
    <3>2. CASE CleanupRemove(t)
      <4>1. \A i \in Ids : fSessions'[i] \in {fSessions[i], NoObj}  BY <3>2 DEF CleanupRemove
      <4> QED  BY <4>1, <2>4 DEF Active
    <3> QED  BY <2>7, <3>1, <3>2 DEF CleanupStep
  <2>8. ASSUME NEW r \in Requests, AddSession(r)  PROVE o \notin Active(fSessions')
    <3>1. r \in Threads /\ pc[r] = "add" /\ fSessions' = [fSessions EXCEPT ![id[r]] = session[r]]
      BY <2>8, ThreadsDiffer DEF AddSession
    <3>2. session[r] # NoObj /\ sessions2Delete[r] = {}  BY <1>1, <3>1 DEF LocalsKnown
    <3>3. session[r] \in Objects  BY <1>1, <3>1, <3>2 DEF SessionsTypeOK
    <3>4. session[r] \in Hands(r)  BY <3>1, <3>3 DEF Hands
    <3>5. session[r] # o
      <4>1. CASE o \in fDisabledSessions \cup deleted  BY <4>1, <1>1, <3>1, <3>3, <3>4 DEF PlacesApart
      <4>2. CASE o \in Taken
        <5>1. PICK t \in Threads : o \in sessions2Delete[t]  BY <4>2 DEF Taken
        <5>2. t # r /\ o \in Hands(t)  BY <5>1, <3>2, <2>3
        <5> QED  BY <5>2, <1>1, <2>2, <3>1, <3>4 DEF PlacesApart
      <4> QED  BY <4>1, <4>2
    <3>6. \A i \in Ids : fSessions'[i] \in {fSessions[i], session[r]}  BY <3>1, <2>6
    <3> QED  BY <3>5, <3>6, <2>4 DEF Active
  <2>9. ASSUME NEW i \in Ids, DisableSession(i)  PROVE o \notin Active(fSessions')
    <3>1. \A j \in Ids : fSessions'[j] \in {fSessions[j], NoObj}  BY <2>9, <2>6 DEF DisableSession
    <3> QED  BY <3>1, <2>4 DEF Active
  <2>10. ASSUME Finis  PROVE o \notin Active(fSessions')  BY <2>10 DEF Finis, Active
  <2>11. CASE UNCHANGED managerVars  BY <2>5, <2>11 DEF managerVars, listVars
  <2>12. CASE SessionsNext
    <3> USE DEF listVars
    <3>1. ASSUME NEW r \in Requests, LookupSession(r)  PROVE o \notin Active(fSessions')
      BY <3>1, <2>5 DEF LookupSession
    <3>2. ASSUME NEW t \in Threads, DeleteStep(t)  PROVE o \notin Active(fSessions')
      BY <3>2, <2>5 DEF DeleteStep, DestroySession, FreeSession
    <3>3. ASSUME NEW r \in Requests, RequestStep(r)  PROVE o \notin Active(fSessions')
      <4>1. r \in Threads  BY ThreadsDiffer
      <4>2. CASE UseFreed(r) \/ LookupTerminated(r) \/ LookupRefresh(r)
        BY <4>2, <2>5 DEF UseFreed, LookupTerminated, LookupRefresh
      <4>3. CASE PushSession(r) \/ PrepareSession(r)  BY <4>3, <2>5 DEF PushSession, PrepareSession
      <4>4. CASE ForceCleanup(r) \/ CleanupStep(r)  BY <4>4, <2>7 DEF ForceCleanup
      <4>5. CASE DeleteStep(r)  BY <4>1, <4>5, <3>2
      <4>6. CASE DoMakeSession(r) \/ EndRequest(r)  BY <4>6, <2>5 DEF DoMakeSession, EndRequest
      <4>7. CASE AddSession(r)  BY <4>7, <2>8
      <4>8. CASE MakeSession(r) \/ NothingToClean(r)  BY <4>8, <2>5 DEF MakeSession, NothingToClean
      <4> QED  BY <3>3, <4>2, <4>3, <4>4, <4>5, <4>6, <4>7, <4>8 DEF RequestStep
    <3>4. CASE CleanerStep  BY <3>4, <3>2, <2>7, ThreadsDiffer DEF CleanerStep, CleanSessions
    <3>5. ASSUME NEW s \in Objects, Timeout(s)  PROVE o \notin Active(fSessions')
      BY <3>5, <2>5 DEF Timeout
    <3>6. CASE DisableNotify  BY <3>6, <2>5 DEF DisableNotify
    <3>7. CASE ResetCall(Handler, "reset") \/ ResetCall(Main, "finis")  BY <3>7, <2>5 DEF ResetCall
    <3>8. CASE ResetStep
      BY <3>8, <2>5, <2>10 DEF ResetStep, EnterReInit, TerminateCleaner, ResetInit, ResetFails
    <3> QED
      BY <2>12, <2>9, <3>1, <3>2, <3>3, <3>4, <3>5, <3>6, <3>7, <3>8, ThreadsDiffer DEF SessionsNext
  <2> QED  BY <1>1, <2>11, <2>12
<1>2. SInv /\ [SessionsNext]_managerVars
        => [\A o \in fDisabledSessions \cup Taken \cup deleted : o \notin Active(fSessions')]_managerVars
  BY <1>1
<1> QED  BY <1>2, SessionsInvariant, PTL DEF SessionsSpec, NeverListedAgain
=============================================================================
