------------------------------ MODULE Sessions ------------------------------
(***************************************************************************)
(* SessionListManager, Session and the part of Context that refers to a    *)
(* session (wdbase): requests look a session up or create one, hold it     *)
(* while they render a page, and let it go when their context is           *)
(* destroyed; a cleaner thread deletes sessions that timed out or were     *)
(* disabled; the manager is reset with the server and finished at its end. *)
(*                                                                         *)
(* CopySessionStore is off, as by default: a context that refers to a      *)
(* session holds its mutex.  What happens under fSessionsMutex is one step *)
(* where it touches the lists only; a lookup and a cleanup also try the    *)
(* mutexes of sessions, which a context takes without fSessionsMutex, and  *)
(* are a step for each of them.  A reset holds fSessionsMutex from         *)
(* ResetFinis to ResetInit.  It happens while no request is handled: the   *)
(* server blocks the requests first (ServerPools shows that this holds for *)
(* a worker pool).                                                         *)
(* When a thread uses a session that was freed, what the process does next *)
(* is undefined: the model stops there.                                    *)
(***************************************************************************)
EXTENDS Integers, FiniteSets

CONSTANTS Requests,      \* the threads that handle requests
          Given,         \* session ids that clients come with
          NumRequests,   \* bound: number of requests in all
          NumEvents,     \* bound: number of resets and of calls of DisableSession, together
          fMaxSessionsAllowed,
          Cleaner, Admin, Handler, Main,   \* the other threads
          Nobody

Objects == 1..NumRequests       \* the session objects, in the order of their creation
Ids     == Given \cup Objects   \* GetNextId gives session o an id of its own: o
NoObj   == 0
NoId    == 0
Threads == Requests \cup {Cleaner, Admin, Handler, Main}

ASSUME SessionsAssumption ==
  /\ NumRequests \in Nat /\ NumEvents \in Nat
  /\ fMaxSessionsAllowed \in Nat \ {0}
  /\ Given \cap Nat = {}
  /\ Nobody \notin Threads
  /\ Cleaner \notin {Admin, Handler, Main} /\ Admin \notin {Handler, Main} /\ Handler # Main
  /\ IsFiniteSet(Requests) /\ Requests \cap {Cleaner, Admin, Handler, Main} = {}

VARIABLES fSessions,           \* the session of each id
          fDisabledSessions,
          fSessionsMutex,      \* the thread that holds it
          created,             \* number of session objects made so far
          destroyed, deleted,  \* the objects whose destructor ran, that were freed
          fMutex, fRefCount,   \* of each session
          fresh,               \* of each session: fAccessTime is not longer ago than its timeout
          fTerminated,         \* of each session
          pc, id, session,     \* of each thread: its place and its local variables
          ctx,                 \* of each thread: the session its Context refers to
          sessions2Delete,     \* of each thread, in CleanupSessions
          todo, found,         \* of the cleanup that holds fSessionsMutex: the sessions it has
                               \* not looked at, the one it is about to take off its list
          requests, events,
          reset                \* whether a reset or the end of the manager is in progress

listVars    == <<fSessions, fDisabledSessions, fSessionsMutex>>
sessionVars == <<created, destroyed, deleted, fMutex, fRefCount, fresh, fTerminated>>
boundVars   == <<requests, events>>
cleanupVars == <<todo, found>>
managerVars == <<listVars, sessionVars, pc, id, session, ctx, sessions2Delete, cleanupVars,
                 boundVars, reset>>

SessionsTypeOK ==
  /\ fSessions \in [Ids -> Objects \cup {NoObj}]
  /\ fDisabledSessions \subseteq Objects
  /\ fSessionsMutex \in Threads \cup {Nobody}
  /\ created \in 0..NumRequests /\ deleted \subseteq destroyed /\ destroyed \subseteq 1..created
  /\ fMutex \in [Objects -> Threads \cup {Nobody}]
  /\ fRefCount \in [Objects -> Nat]
  /\ fresh \in [Objects -> BOOLEAN] /\ fTerminated \in [Objects -> BOOLEAN]
  /\ pc \in [Threads -> {"idle", "lookup", "refresh", "push", "prepare", "count", "cleanup",
                         "cleaning", "make", "add", "render", "end", "notify", "undefined",
                         "lock", "terminate", "over"}]
  /\ id \in [Threads -> Ids \cup {NoId}]
  /\ session \in [Threads -> Objects \cup {NoObj}]
  /\ ctx \in [Threads -> Objects \cup {NoObj}]
  /\ sessions2Delete \in [Threads -> SUBSET Objects]
  /\ todo \subseteq Objects /\ found \in Objects \cup {NoObj}
  /\ requests \in 0..NumRequests /\ events \in 0..NumEvents
  /\ reset \in {"no", "reset", "failed", "finis", "down"}

SessionsInit ==
  /\ fSessions = [i \in Ids |-> NoObj] /\ fDisabledSessions = {} /\ fSessionsMutex = Nobody
  /\ created = 0 /\ destroyed = {} /\ deleted = {}
  /\ fMutex = [o \in Objects |-> Nobody] /\ fRefCount = [o \in Objects |-> 0]
  /\ fresh = [o \in Objects |-> TRUE] /\ fTerminated = [o \in Objects |-> FALSE]
  /\ pc = [t \in Threads |-> "idle"] /\ id = [t \in Threads |-> NoId]
  /\ session = [t \in Threads |-> NoObj] /\ ctx = [t \in Threads |-> NoObj]
  /\ sessions2Delete = [t \in Threads |-> {}] /\ todo = {} /\ found = NoObj
  /\ requests = 0 /\ events = 0
  /\ reset = "no"

Goto(t, next) == pc' = [pc EXCEPT ![t] = next]

\* The sessions in fSessions.
Active(sessions) == {sessions[i] : i \in Ids} \ {NoObj}

\* The mutex of a session is recursive: t gets it if it is free or its own.
CanLock(t, o) == fMutex[o] \in {Nobody, t}

----------------------------------------------------------------------------
(* Context::InitSession.                                                   *)

\* Push(o): o is locked and referenced, the session before it is let go.
InitSession(t, o) ==
  /\ ctx' = [ctx EXCEPT ![t] = o]
  /\ fMutex' = [s \in Objects |-> IF s = o THEN t ELSE IF s = ctx[t] THEN Nobody ELSE fMutex[s]]
  /\ fRefCount' = [s \in Objects |->
       fRefCount[s] + (IF o # ctx[t] THEN (IF s = o THEN 1 ELSE IF s = ctx[t] THEN -1 ELSE 0) ELSE 0)]

----------------------------------------------------------------------------
(* A request: WebAppService::DoHandleService.                              *)

\* LookupSession, with or without an id.  For a session in the list IsBusy is
\* tested, with fSessionsMutex held.
LookupSession(r) ==
  /\ pc[r] = "idle" /\ requests < NumRequests /\ reset = "no"
  /\ fSessionsMutex = Nobody
  /\ requests' = requests + 1
  /\ \E i \in Given \cup 1..created \cup {NoId} :
       LET s == IF i = NoId THEN NoObj ELSE fSessions[i]
       IN  /\ id' = [id EXCEPT ![r] = i]
           /\ session' = [session EXCEPT ![r] = s]
           /\ Goto(r, IF s = NoObj THEN "count" ELSE IF fMutex[s] = Nobody THEN "lookup" ELSE "refresh")
           /\ fSessionsMutex' = IF s = NoObj THEN Nobody ELSE r
  /\ UNCHANGED <<fSessions, fDisabledSessions, sessionVars, ctx, sessions2Delete, cleanupVars,
                 events, reset>>

\* IsTerminated of a session that was not busy.
LookupTerminated(r) ==
  /\ pc[r] = "lookup"
  /\ LET terminated == fMutex[session[r]] = Nobody /\ fTerminated[session[r]]
     IN  /\ Goto(r, IF terminated THEN "count" ELSE "refresh")
         /\ session' = [session EXCEPT ![r] = IF terminated THEN NoObj ELSE @]
         /\ fSessionsMutex' = IF terminated THEN Nobody ELSE r
  /\ UNCHANGED <<fSessions, fDisabledSessions, sessionVars, id, ctx, sessions2Delete, cleanupVars,
                 boundVars, reset>>

\* ResetTimeAndFlags, if the session is free; fSessionsMutex is released.
LookupRefresh(r) ==
  /\ pc[r] = "refresh"
  /\ LET free == {o \in {session[r]} : fMutex[o] = Nobody}
     IN  /\ fresh' = [o \in Objects |-> fresh[o] \/ o \in free]
         /\ fTerminated' = [o \in Objects |-> fTerminated[o] /\ o \notin free]
  /\ Goto(r, "push") /\ fSessionsMutex' = Nobody
  /\ UNCHANGED <<fSessions, fDisabledSessions, created, destroyed, deleted, fMutex, fRefCount, id,
                 session, ctx, sessions2Delete, cleanupVars, boundVars, reset>>

\* ctx.Push(s), after fSessionsMutex was released: waits for the session.
PushSession(r) ==
  /\ pc[r] = "push" /\ CanLock(r, session[r])
  /\ InitSession(r, session[r])
  /\ Goto(r, "prepare")
  /\ UNCHANGED <<listVars, created, destroyed, deleted, fresh, fTerminated, id, session,
                 sessions2Delete, cleanupVars, boundVars, reset>>

\* PrepareSession: the session is not busy for the thread that holds it;
\* Verify fails for a terminated session or when the client has changed, and
\* a new session gets a new id.
PrepareSession(r) ==
  /\ pc[r] = "prepare"
  /\ \E verified \in BOOLEAN :
       /\ verified => ~fTerminated[session[r]]
       /\ Goto(r, IF verified THEN "render" ELSE "count")
       /\ id' = [id EXCEPT ![r] = IF verified THEN @ ELSE NoId]
  /\ fresh' = [fresh EXCEPT ![session[r]] = @ \/ ~fTerminated[session[r]]]
  /\ UNCHANGED <<listVars, created, destroyed, deleted, fMutex, fRefCount, fTerminated, session,
                 ctx, sessions2Delete, cleanupVars, boundVars, reset>>

\* MakeSession: GetNumberOfSessions.
MakeSession(r) ==
  /\ pc[r] = "count" /\ fSessionsMutex = Nobody
  /\ Goto(r, IF Cardinality(Active(fSessions)) >= fMaxSessionsAllowed THEN "cleanup" ELSE "make")
  /\ UNCHANGED <<listVars, sessionVars, id, session, ctx, sessions2Delete, cleanupVars, boundVars,
                 reset>>

\* DoMakeSession and ctx.Push of the new session.
DoMakeSession(r) ==
  /\ pc[r] = "make" /\ sessions2Delete[r] = {}
  /\ created' = created + 1
  /\ session' = [session EXCEPT ![r] = created + 1]
  /\ InitSession(r, created + 1)
  /\ id' = [id EXCEPT ![r] = IF @ = NoId THEN created + 1 ELSE @]   \* SessionListManager::InitSession
  /\ Goto(r, "add")
  /\ UNCHANGED <<listVars, destroyed, deleted, fresh, fTerminated, sessions2Delete, cleanupVars,
                 boundVars, reset>>

\* Mutant: a session under the same id is overwritten.
AddSessionOverwrites(r) ==
  /\ pc[r] = "add" /\ fSessionsMutex = Nobody
  /\ fSessions' = [fSessions EXCEPT ![id[r]] = session[r]]
  /\ Goto(r, "render")
  /\ UNCHANGED <<fDisabledSessions, fSessionsMutex, sessionVars, id, session, ctx,
                 sessions2Delete, cleanupVars, boundVars, reset>>

\* AddSession: a session under the same id is disabled.
AddSession(r) ==
  /\ pc[r] = "add" /\ fSessionsMutex = Nobody
  /\ fDisabledSessions' = fDisabledSessions \cup ({fSessions[id[r]]} \ {NoObj})
  /\ fSessions' = [fSessions EXCEPT ![id[r]] = session[r]]
  /\ Goto(r, "render")
  /\ UNCHANGED <<fSessionsMutex, sessionVars, id, session, ctx, sessions2Delete, cleanupVars,
                 boundVars, reset>>

\* Mutant: the session is not unlocked.
EndRequestKeepsLock(r) ==
  /\ pc[r] \in {"render", "end"} /\ sessions2Delete[r] = {}
  /\ fresh' = [o \in Objects |-> fresh[o] \/ (pc[r] = "render" /\ o = session[r])]
  /\ ctx' = [ctx EXCEPT ![r] = NoObj]
  /\ fRefCount' = [s \in Objects |-> fRefCount[s] - (IF s = ctx[r] THEN 1 ELSE 0)]
  /\ session' = [session EXCEPT ![r] = NoObj] /\ id' = [id EXCEPT ![r] = NoId]
  /\ Goto(r, "idle")
  /\ UNCHANGED <<listVars, fMutex, created, destroyed, deleted, fTerminated, sessions2Delete,
                 cleanupVars, boundVars, reset>>

\* RenderNextPage, if there is a session: the AccessTimer sets the access time
\* at its end.  Then the Context of the request is destroyed.
EndRequest(r) ==
  /\ pc[r] \in {"render", "end"} /\ sessions2Delete[r] = {}
  /\ fresh' = [o \in Objects |-> fresh[o] \/ (pc[r] = "render" /\ o = session[r])]
  /\ InitSession(r, NoObj)
  /\ session' = [session EXCEPT ![r] = NoObj] /\ id' = [id EXCEPT ![r] = NoId]
  /\ Goto(r, "idle")
  /\ UNCHANGED <<listVars, created, destroyed, deleted, fTerminated, sessions2Delete, cleanupVars,
                 boundVars, reset>>

----------------------------------------------------------------------------
(* CleanupSessions.                                                        *)

\* Session::IsDeletable, what it returns.
IsDeletable(t, o) ==
  CanLock(t, o) /\ fRefCount[o] = 0 /\ (o \in fDisabledSessions \/ ~fresh[o])

\* Thread t keeps fSessionsMutex until both lists are done.  Then a request goes
\* on if there is room.
GoOn(t) ==
  LET over == todo' = {} /\ found' = NoObj
      room == Cardinality(Active(fSessions')) < fMaxSessionsAllowed
  IN  /\ fSessionsMutex' = IF over THEN Nobody ELSE t
      /\ Goto(t, IF ~over THEN "cleaning" ELSE IF t = Cleaner THEN "idle"
                 ELSE IF room THEN "make" ELSE "end")

\* DoCleanup looks at one of the sessions left: if it finds the time over it
\* terminates the session; a session that t's own context refers to is let go.
\* When it has looked, the session's mutex is free again.
Look(t, left) ==
  /\ \E o \in left :
       /\ todo' = left \ {o}
       /\ found' = IF IsDeletable(t, o) THEN o ELSE NoObj
       /\ fTerminated' = [fTerminated EXCEPT ![o] =
            @ \/ (CanLock(t, o) /\ (o \in fDisabledSessions \/ ~fresh[o]))]
       /\ IF ctx[t] = o THEN InitSession(t, NoObj) ELSE UNCHANGED <<ctx, fMutex, fRefCount>>
  /\ UNCHANGED <<fSessions, fDisabledSessions, created, destroyed, deleted, fresh, id, session,
                 sessions2Delete, boundVars, reset>>
  /\ GoOn(t)

\* The first and the next look of DoCleanup.
CleanupBegin(t) == fSessionsMutex = Nobody /\ Look(t, Active(fSessions) \cup fDisabledSessions)
CleanupLook(t)  == pc[t] = "cleaning" /\ found = NoObj /\ Look(t, todo)

\* The session that was deletable is taken off its list.
CleanupRemove(t) ==
  /\ pc[t] = "cleaning" /\ found # NoObj
  /\ fSessions' = [i \in Ids |-> IF fSessions[i] = found THEN NoObj ELSE fSessions[i]]
  /\ fDisabledSessions' = fDisabledSessions \ {found}
  /\ sessions2Delete' = [sessions2Delete EXCEPT ![t] = @ \cup {found}]
  /\ found' = NoObj
  /\ UNCHANGED <<sessionVars, id, session, ctx, todo, boundVars, reset>>
  /\ GoOn(t)

CleanupStep(t) == CleanupLook(t) \/ CleanupRemove(t)

\* Mutant: the cleaner waits for fSessionsMutex.
CleanSessionsWaits ==
  /\ pc[Cleaner] \in {"idle", "count"} /\ sessions2Delete[Cleaner] = {}
  /\ IF fSessionsMutex = Nobody
       THEN CleanupBegin(Cleaner)
       ELSE /\ Goto(Cleaner, "count")
            /\ UNCHANGED <<listVars, sessionVars, id, session, ctx, sessions2Delete, cleanupVars,
                           boundVars, reset>>

\* The cleaner does nothing when it does not get fSessionsMutex at once.
CleanSessions ==
  /\ pc[Cleaner] = "idle" /\ sessions2Delete[Cleaner] = {}
  /\ CleanupBegin(Cleaner)

\* A request that wants room for its session waits for fSessionsMutex; the
\* lists may be empty by then.
ForceCleanup(r) == pc[r] = "cleanup" /\ CleanupBegin(r)

NothingToClean(r) ==
  /\ pc[r] = "cleanup" /\ fSessionsMutex = Nobody
  /\ Active(fSessions) \cup fDisabledSessions = {}
  /\ Goto(r, "make")
  /\ UNCHANGED <<listVars, sessionVars, id, session, ctx, sessions2Delete, cleanupVars, boundVars,
                 reset>>

\* Mutant: neither Notify nor the destructor waits for the session.
DestroySessionBusy(t) ==
  /\ pc[t] # "cleaning" /\ sessions2Delete[t] \cap destroyed = {}
  /\ \E o \in sessions2Delete[t] : destroyed' = destroyed \cup {o}
  /\ UNCHANGED <<listVars, created, deleted, fMutex, fRefCount, fresh, fTerminated, pc, id, session,
                 ctx, sessions2Delete, cleanupVars, boundVars, reset>>

\* DoDeleteSessions: Notify and the destructor wait for the session and let it
\* go again; only then it is freed.
DestroySession(t) ==
  /\ pc[t] # "cleaning" /\ sessions2Delete[t] \cap destroyed = {}
  /\ \E o \in sessions2Delete[t] : CanLock(t, o) /\ destroyed' = destroyed \cup {o}
  /\ UNCHANGED <<listVars, created, deleted, fMutex, fRefCount, fresh, fTerminated, pc, id, session,
                 ctx, sessions2Delete, cleanupVars, boundVars, reset>>

\* What a freed session contained is gone.
FreeSession(t) ==
  LET freed == sessions2Delete[t] \cap destroyed
  IN  /\ pc[t] # "cleaning" /\ freed # {}
      /\ deleted' = deleted \cup freed
      /\ sessions2Delete' = [sessions2Delete EXCEPT ![t] = @ \ freed]
      /\ fresh' = [o \in Objects |-> fresh[o] \/ o \in freed]
      /\ fTerminated' = [o \in Objects |-> fTerminated[o] /\ o \notin freed]
      /\ UNCHANGED <<listVars, created, destroyed, fMutex, fRefCount, pc, id, session, ctx,
                     cleanupVars, boundVars, reset>>

\* Time passes.
Timeout(o) ==
  /\ o \in Active(fSessions) /\ fresh[o]
  /\ fresh' = [fresh EXCEPT ![o] = FALSE]
  /\ UNCHANGED <<listVars, created, destroyed, deleted, fMutex, fRefCount, fTerminated, pc, id,
                 session, ctx, sessions2Delete, cleanupVars, boundVars, reset>>

----------------------------------------------------------------------------
(* DisableSession, by a thread without a session of its own.               *)

\* Mutant: the session stays in the list.
DisableSessionListed(i) ==
  /\ pc[Admin] = "idle" /\ events < NumEvents /\ reset = "no" /\ fSessionsMutex = Nobody
  /\ fSessions[i] # NoObj
  /\ events' = events + 1
  /\ fDisabledSessions' = fDisabledSessions \cup {fSessions[i]}
  /\ session' = [session EXCEPT ![Admin] = fSessions[i]]
  /\ Goto(Admin, "notify")
  /\ UNCHANGED <<fSessions, fSessionsMutex, sessionVars, id, ctx, sessions2Delete, cleanupVars,
                 requests, reset>>

DisableSession(i) ==
  /\ pc[Admin] = "idle" /\ events < NumEvents /\ reset = "no" /\ fSessionsMutex = Nobody
  /\ fSessions[i] # NoObj
  /\ events' = events + 1
  /\ fDisabledSessions' = fDisabledSessions \cup {fSessions[i]}
  /\ fSessions' = [fSessions EXCEPT ![i] = NoObj]
  /\ session' = [session EXCEPT ![Admin] = fSessions[i]]
  /\ Goto(Admin, "notify")
  /\ UNCHANGED <<fSessionsMutex, sessionVars, id, ctx, sessions2Delete, cleanupVars, requests,
                 reset>>

\* Its Notify, after fSessionsMutex was released, waits for the session.
DisableNotify ==
  /\ pc[Admin] = "notify" /\ (session[Admin] \in deleted \/ CanLock(Admin, session[Admin]))
  /\ session' = [session EXCEPT ![Admin] = NoObj]
  /\ Goto(Admin, IF session[Admin] \in deleted THEN "undefined" ELSE "idle")
  /\ UNCHANGED <<listVars, sessionVars, id, ctx, sessions2Delete, cleanupVars, boundVars, reset>>

----------------------------------------------------------------------------
(* Reset and end of the manager.                                           *)

\* ResetFinis or Finis is called, by the interrupt handler in a reset or by the
\* main thread, also after a reset that failed.
ResetCall(t, kind) ==
  /\ pc[t] = "idle"
  /\ reset = "no" \/ (kind = "finis" /\ reset = "failed")
  /\ kind = "reset" => events < NumEvents
  /\ \A t2 \in Requests \cup {Admin} : pc[t2] = "idle"
  /\ reset' = IF reset = "no" THEN kind ELSE reset
  /\ events' = events + (IF kind = "reset" THEN 1 ELSE 0)
  /\ Goto(t, "lock")
  /\ UNCHANGED <<listVars, sessionVars, id, session, ctx, sessions2Delete, cleanupVars,
                 requests>>

\* EnterReInit waits for fSessionsMutex: after a reset that failed for ever.
EnterReInit(t) ==
  /\ pc[t] = "lock" /\ fSessionsMutex = Nobody
  /\ fSessionsMutex' = t
  /\ Goto(t, "terminate")
  /\ UNCHANGED <<fSessions, fDisabledSessions, sessionVars, id, session, ctx, sessions2Delete,
                 cleanupVars, boundVars, reset>>

\* ResetFinis waits until the cleaner has terminated.
TerminateCleaner(t) ==
  /\ pc[t] = "terminate"
  /\ pc[Cleaner] = "idle" /\ sessions2Delete[Cleaner] = {}
  /\ pc' = [pc EXCEPT ![t] = "end", ![Cleaner] = "over"]
  /\ UNCHANGED <<listVars, sessionVars, id, session, ctx, sessions2Delete, cleanupVars, boundVars,
                 reset>>

\* Mutant: no new cleaner is started.
ResetInitNoCleaner ==
  /\ pc[Handler] = "end" /\ reset = "reset"
  /\ Goto(Handler, "idle")
  /\ fSessionsMutex' = Nobody /\ reset' = "no"
  /\ UNCHANGED <<fSessions, fDisabledSessions, sessionVars, id, session, ctx, sessions2Delete,
                 cleanupVars, boundVars>>

\* ResetInit starts a new cleaner and unlocks.
ResetInit ==
  /\ pc[Handler] = "end" /\ reset = "reset"
  /\ pc' = [pc EXCEPT ![Handler] = "idle", ![Cleaner] = "idle"]
  /\ fSessionsMutex' = Nobody /\ reset' = "no"
  /\ UNCHANGED <<fSessions, fDisabledSessions, sessionVars, id, session, ctx, sessions2Delete,
                 cleanupVars, boundVars>>

\* Another module fails in between: ResetInit is never called.
ResetFails ==
  /\ pc[Handler] = "end" /\ reset = "reset"
  /\ Goto(Handler, "over") /\ reset' = "failed"
  /\ UNCHANGED <<listVars, sessionVars, id, session, ctx, sessions2Delete, cleanupVars, boundVars>>

\* Finis: ForcedSessionCleanUp deletes every session in the lists; unlock.
Finis ==
  /\ pc[Main] = "end" /\ reset = "finis"
  /\ \A o \in Active(fSessions) \cup fDisabledSessions : CanLock(Main, o)
  /\ destroyed' = destroyed \cup Active(fSessions) \cup fDisabledSessions
  /\ deleted' = deleted \cup Active(fSessions) \cup fDisabledSessions
  /\ fSessions' = [i \in Ids |-> NoObj] /\ fDisabledSessions' = {}
  /\ fSessionsMutex' = Nobody /\ reset' = "down"
  /\ Goto(Main, "over")
  /\ UNCHANGED <<created, fMutex, fRefCount, fresh, fTerminated, id, session, ctx,
                 sessions2Delete, cleanupVars, boundVars>>

----------------------------------------------------------------------------
\* The sessions that request r uses in its next step.
Uses(r) == ({ctx[r]} \cup (IF pc[r] = "push" THEN {session[r]} ELSE {})) \ {NoObj}

UseFreed(r) ==
  /\ Uses(r) \cap deleted # {}
  /\ Goto(r, "undefined")
  /\ UNCHANGED <<listVars, sessionVars, id, session, ctx, sessions2Delete, cleanupVars, boundVars,
                 reset>>

DeleteStep(t) == DestroySession(t) \/ FreeSession(t)

RequestStep(r) ==
  \/ UseFreed(r)
  \/ /\ Uses(r) \cap deleted = {}
     /\ \/ LookupTerminated(r) \/ LookupRefresh(r) \/ PushSession(r) \/ PrepareSession(r)
        \/ MakeSession(r) \/ ForceCleanup(r) \/ NothingToClean(r) \/ CleanupStep(r)
        \/ DeleteStep(r) \/ DoMakeSession(r) \/ AddSession(r) \/ EndRequest(r)

CleanerStep == CleanSessions \/ CleanupStep(Cleaner) \/ DeleteStep(Cleaner)

ResetStep ==
  \/ \E t \in {Handler, Main} : EnterReInit(t) \/ TerminateCleaner(t)
  \/ ResetInit \/ ResetFails \/ Finis

Defined == \A t \in Threads : pc[t] # "undefined"

SessionsNext ==
  /\ Defined
  /\ \/ \E r \in Requests : LookupSession(r) \/ RequestStep(r)
     \/ CleanerStep
     \/ \E o \in Objects : Timeout(o)
     \/ (\E i \in Ids : DisableSession(i)) \/ DisableNotify
     \/ ResetCall(Handler, "reset") \/ ResetCall(Main, "finis") \/ ResetStep

SessionsSpec == SessionsInit /\ [][SessionsNext]_managerVars

\* The threads are scheduled, mutexes are handed out fairly, the cleaner
\* comes back again and again and pages are rendered in the end.
Fairness ==
  /\ \A r \in Requests : SF_managerVars(Defined /\ RequestStep(r))
  /\ SF_managerVars(Defined /\ CleanerStep)
  /\ SF_managerVars(Defined /\ DisableNotify) /\ SF_managerVars(Defined /\ ResetStep)

SessionsFairSpec == SessionsSpec /\ Fairness

----------------------------------------------------------------------------
(* Properties.                                                             *)

\* The sessions that are about to be deleted.
Taken == UNION {sessions2Delete[t] : t \in Threads}

\* A session is destroyed only while no context refers to it.  A context may
\* come to refer to a session between a cleanup's look at it and its removal, or
\* later; then the cleanup waits for the context in Notify and ~Session.
NotDestroyedInUse ==
  [][\A o \in destroyed' \ destroyed : \A r \in Requests : ctx[r] # o]_managerVars

\* A session that was disabled, replaced or taken by a cleanup never comes back
\* into the list: no lookup finds it any more.
NeverListedAgain ==
  [][\A o \in fDisabledSessions \cup Taken \cup deleted : o \notin Active(fSessions')]_managerVars

\* The places a session is known from.
Places(o) ==
  {i \in Ids : fSessions[i] = o}
    \cup {t \in Threads : o \in sessions2Delete[t] \/ (pc[t] = "add" /\ session[t] = o)}
    \cup (IF o \in fDisabledSessions THEN {NoId} ELSE {})

\* No session is leaked or deleted twice: each is in exactly one list, in the
\* hands of the request that makes it or of the thread that deletes it, or
\* deleted.
KnownOnce ==
  \A o \in 1..created : Cardinality(Places(o)) = IF o \in deleted THEN 0 ELSE 1

\* Every request ends, whoever holds the session or the list it waits for: when
\* no more requests come, all have ended.
RequestsEnd ==
  (\E r \in Requests : pc[r] # "idle") ~> (\A r \in Requests : pc[r] = "idle") \/ ~Defined

\* Disabled sessions are deleted in the end, all of them once no more are
\* disabled, unless a failed reset has left the manager without a cleaner.
DisabledAreDeleted ==
  fDisabledSessions # {} ~>
    fDisabledSessions \cup Taken = {} \/ reset = "failed" \/ ~Defined

\* A reset gets fSessionsMutex and does not wait for the cleaner for ever while
\* it holds it, and so does the end of the manager, unless a reset has failed:
\* then fSessionsMutex stays locked and Finis waits for ever.
ResetEnds == reset \in {"reset", "finis"} ~> reset \in {"no", "failed", "down"}

\* IntLookupSession: "make sure this session won't get deleted while
\* processing this request".
SessionInUse == \A r \in Requests : Uses(r) \cap deleted = {}
=============================================================================
