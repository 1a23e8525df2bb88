------------------------------ MODULE Modules ------------------------------
(***************************************************************************)
(* WDModule with AppBooter and Server::GlobalReinit (wdbase): the modules  *)
(* of the configuration are initialised in their order when the process    *)
(* boots, finished and initialised again by a reset, which may bring       *)
(* another configuration, and finished in reverse order at the end.        *)
(*                                                                         *)
(* A module may fail to initialise or to finish; one that fails to finish  *)
(* is still on.  A call of a module need not return: nothing is said of    *)
(* what must happen.  The configuration has a list of modules: the         *)
(* iteration over the registry that is used without one is not modelled.   *)
(***************************************************************************)
EXTENDS Integers, Sequences, FiniteSets

CONSTANTS AllModules,   \* names of modules
          Registered,   \* those that are linked or loaded
          Static,       \* those that are not deleted when they are finished
          Mandatory,    \* those that must not fail
          BootList,     \* "Modules" of the configuration at boot time
          NewLists,     \* and of the configurations that a reset may read
          NumResets     \* bound: number of resets

ASSUME ModulesAssumption ==
  /\ Registered \subseteq AllModules /\ Static \subseteq AllModules /\ Mandatory \subseteq AllModules
  /\ BootList \in Seq(AllModules) /\ NewLists \subseteq Seq(AllModules)
  /\ NumResets \in Nat

VARIABLES phase,        \* what the process is doing
          modules,      \* the list that is iterated over
          fIndex,       \* the position in it, from 1
          ret,          \* what the last iteration returned
          fgConfig,     \* the list of the global configuration
          newConfig,    \* the list of the configuration a reset has read
          registered,   \* the modules in the registry
          on,           \* the modules that are initialised
          failed,       \* those of them that failed to finish
          resets

vars == <<phase, modules, fIndex, ret, fgConfig, newConfig, registered, on, failed, resets>>

Lists == NewLists \cup {BootList}
Names(list) == {list[i] : i \in 1..Len(list)}

Forward  == {"install", "resetInstall"}
Backward == {"resetTerminate", "terminate"}

TypeOK ==
  /\ phase \in Forward \cup Backward \cup {"run", "shutdown", "halted", "exit"}
  /\ modules \in Lists /\ fgConfig \in Lists /\ newConfig \in Lists
  /\ fIndex \in 0..(Len(modules) + 1) /\ ret \in {0, -1}
  /\ registered \subseteq Registered /\ on \subseteq registered /\ failed \subseteq on
  /\ resets \in 0..NumResets

\* The iteration that Boot starts with Install.
Init ==
  /\ phase = "install" /\ modules = BootList /\ fIndex = 1 /\ ret = 0
  /\ fgConfig = BootList /\ newConfig = BootList
  /\ registered = Registered /\ on = {} /\ failed = {}
  /\ resets = 0

----------------------------------------------------------------------------
(* WDModuleIterator                                                        *)

HasMore == IF phase \in Forward THEN fIndex <= Len(modules) ELSE fIndex >= 1

\* ConfiguredWDMIterator: the iteration begins.
ForEach(kind, list) ==
  /\ phase' = kind /\ modules' = list /\ ret' = 0
  /\ fIndex' = IF kind \in Forward THEN 1 ELSE Len(list)

\* Mutant: a mandatory module may fail.
MayGoOnAlways(m, ok) == m \in registered

\* WDModuleCaller::Call: an iteration goes on unless a module was not found or
\* is mandatory and has failed.
MayGoOn(m, ok) == m \in registered /\ (ok \/ m \notin Mandatory)

Advance(m, ok) ==
  /\ ret' = IF MayGoOn(m, ok) THEN 0 ELSE -1
  /\ fIndex' = IF phase \in Forward THEN fIndex + 1 ELSE fIndex - 1
  /\ UNCHANGED <<phase, modules, fgConfig, newConfig, resets>>

\* WDInit and WDResetInstall: Init or ResetInit of the next module.
CallInit(ok) ==
  LET m    == modules[fIndex]
      done == {m} \cap registered
  IN  /\ phase \in Forward /\ HasMore /\ ret = 0
      /\ on' = on \cup (IF ok THEN done ELSE {})
      /\ failed' = failed \ (IF ok THEN done ELSE {})
      /\ registered' = registered
      /\ Advance(m, ok)

\* WDTerminate and WDResetTerminate: Finis or ResetFinis; a module that is not
\* static is deleted then, whether it failed or not.
CallFinis(ok) ==
  LET m    == modules[fIndex]
      kept == {m} \cap Static \cap on
  IN  /\ phase \in Backward /\ HasMore /\ ret = 0
      /\ registered' = registered \ ({m} \ Static)
      /\ on' = (on \ {m}) \cup (IF ok THEN {} ELSE kept)
      /\ failed' = (failed \ {m}) \cup (IF ok THEN {} ELSE kept)
      /\ Advance(m, ok)

IterationEnds == phase \in Forward \cup Backward /\ (ret = -1 \/ ~HasMore)

----------------------------------------------------------------------------
(* AppBooter::Run and Server::GlobalReinit                                 *)

\* Boot: without its modules the process exits, and finishes none of them.
Booted ==
  /\ phase = "install" /\ IterationEnds
  /\ phase' = IF ret = 0 THEN "run" ELSE "exit"
  /\ UNCHANGED <<modules, fIndex, ret, fgConfig, newConfig, registered, on, failed, resets>>

\* DoGlobalReinit on SIGHUP: ResetTerminate with the old configuration.
Reset(list) ==
  /\ phase = "run" /\ resets < NumResets
  /\ resets' = resets + 1 /\ newConfig' = list
  /\ ForEach("resetTerminate", fgConfig)
  /\ UNCHANGED <<fgConfig, registered, on, failed>>

\* The configuration file cannot be read.
ResetUnreadable ==
  /\ phase = "run" /\ resets < NumResets
  /\ resets' = resets + 1 /\ phase' = "shutdown"
  /\ UNCHANGED <<modules, fIndex, ret, fgConfig, newConfig, registered, on, failed>>

\* WDModule::Reset goes on with ResetInstall if everything was terminated.
ResetTerminated ==
  /\ phase = "resetTerminate" /\ IterationEnds /\ ret = 0
  /\ ForEach("resetInstall", newConfig)
  /\ UNCHANGED <<fgConfig, newConfig, registered, on, failed, resets>>

\* Mutant: the old configuration stays the global one.
ResetDoneOldConfig ==
  /\ IterationEnds
  /\ phase = "resetInstall" \/ (phase = "resetTerminate" /\ ret = -1)
  /\ phase' = IF ret = 0 THEN "run" ELSE "shutdown"
  /\ UNCHANGED <<modules, fIndex, ret, fgConfig, newConfig, registered, on, failed, resets>>

\* The new configuration becomes the global one in any case; the interrupt
\* handler shuts the server down if the reset failed.
ResetDone ==
  /\ IterationEnds
  /\ phase = "resetInstall" \/ (phase = "resetTerminate" /\ ret = -1)
  /\ fgConfig' = newConfig
  /\ phase' = IF ret = 0 THEN "run" ELSE "shutdown"
  /\ UNCHANGED <<modules, fIndex, ret, newConfig, registered, on, failed, resets>>

\* The application has run; Halt terminates the modules of the configuration
\* that AppBooter::Run has read at boot time.
Halt ==
  /\ phase \in {"run", "shutdown"}
  /\ ForEach("terminate", BootList)
  /\ UNCHANGED <<fgConfig, newConfig, registered, on, failed, resets>>

Halted ==
  /\ phase = "terminate" /\ IterationEnds
  /\ phase' = "halted"
  /\ UNCHANGED <<modules, fIndex, ret, fgConfig, newConfig, registered, on, failed, resets>>

Next ==
  \/ \E ok \in BOOLEAN : CallInit(ok) \/ CallFinis(ok)
  \/ Booted \/ ResetTerminated \/ ResetDone \/ Halt \/ Halted
  \/ \E list \in NewLists : Reset(list)
  \/ ResetUnreadable

Spec == Init /\ [][Next]_vars

----------------------------------------------------------------------------
(* Properties                                                              *)

\* The modules before and after position i of the list that is iterated over.
Before(i) == {modules[j] : j \in 1..(i - 1)}
After(i)  == {modules[j] : j \in (i + 1)..Len(modules)}

\* No module is initialised a second time without having been finished, over
\* any number of resets with any lists, unless the list itself names it twice.
NotInitialisedTwice ==
  [][(phase \in Forward /\ fIndex' # fIndex) =>
       modules[fIndex] \notin (on \ failed) \ Before(fIndex)]_vars

\* A module is initialised only when the mandatory ones before it in the list
\* are on, and finished only when those after it are off or failed to finish.
NestedOrder ==
  [][/\ \A m \in on' \ on : \E i \in 1..Len(modules) :
          modules[i] = m /\ Before(i) \cap Mandatory \subseteq on
     /\ \A m \in on \ on' : \E i \in 1..Len(modules) :
          modules[i] = m /\ After(i) \cap on \subseteq failed]_vars

\* While the server runs, after the boot or any resets that brought other
\* lists, the mandatory modules of its configuration are on, and nothing else
\* is on that the configuration does not name but what failed to finish.
RunningModules ==
  phase = "run" => /\ Names(fgConfig) \cap Mandatory \subseteq on \ failed
                   /\ on \ failed \subseteq Names(fgConfig)
=============================================================================
