------------------------------- MODULE Pages -------------------------------
(***************************************************************************)
(* The pages of a session (wdbase Session, Role, Page, Action): a request  *)
(* brings a query, which names an action, the page it was triggered from   *)
(* and the role it is for.  The session verifies the role, finishes the    *)
(* old page by the action, changes its role if the action calls for it,    *)
(* and prepares a new page, until one is found that can be rendered.  A    *)
(* query that is refused is kept as the delayed query while the user is    *)
(* led to the login, and is taken up after the change of role.             *)
(*                                                                         *)
(* A request holds the mutex of its session, so the steps of one request   *)
(* follow each other.  What an application's scripts and the hooks of its  *)
(* roles return is open.  Hooks that are false by default                  *)
(* (RequirePageInsert, CameFromPageInsert) are left at that, and the       *)
(* inheritance of configurations is taken as resolved.                     *)
(***************************************************************************)
EXTENDS Integers, Sequences

CONSTANTS Roles,         \* registered roles
          DefaultRole,   \* role of a new session, and of a query without a role
          Pages,         \* registered pages
          StartPage,
          ErrorPage,
          Map,           \* <<role, page or "Default", token>> -> <<page, token>>
          RoleChanges,   \* <<token, role>> -> role
          Scripts,       \* <<page, token>> -> the set of <<result, token>> a script may end with
          Actions,       \* tokens a client may send, "" among them
          QueryPages,    \* and the pages
          Indices,       \* values of its delayedIndex: -1 for none or a negative one
          NumRequests,   \* bound: number of requests
          None

ASSUME PagesAssumption ==
  /\ DefaultRole \in Roles /\ NumRequests \in Nat /\ None \notin Roles
  /\ Indices \subseteq Nat \cup {-1} /\ {-1, 0} \subseteq Indices
  /\ \A c \in DOMAIN RoleChanges : RoleChanges[c] \in Roles

VARIABLES pc,            \* where the request is in DoFindNextPage
          role,          \* RoleName in the store of the session
          delayed,       \* fStore["delayed"]: a sequence of queries, from 1
          query,         \* the query of the context
          transition, currentpage,
          inReauth,      \* InReauthenticate in the TmpStore: a role or None
          last,          \* strLastTransition and strLastPage
          lLoopCount,
          requests,      \* number of requests so far
          executedIn     \* history: the request that last executed an action for each
                         \* query, 0 if none has or it was refused since

vars == <<pc, role, delayed, query, transition, currentpage, inReauth, last, lLoopCount,
          requests, executedIn>>

Tokens == Actions \cup {t[3] : t \in DOMAIN Map} \cup {Map[t][2] : t \in DOMAIN Map}
            \cup (UNION {{r[2] : r \in Scripts[s]} : s \in DOMAIN Scripts})
            \cup {"Home", "Login", "Logout", "Error", "PreprocessAction"}
PageNames == QueryPages \cup Pages \cup {Map[t][1] : t \in DOMAIN Map} \cup {StartPage, ErrorPage}

\* A query of a client has the number of its request, one that the session
\* makes itself has 0.
Queries == [id : 0..NumRequests, action : Tokens, page : PageNames, role : Roles,
            delayedIndex : Indices]

\* An empty slot that was made by looking at it: without action, page and role.
NullQuery == [id |-> 0, action |-> "Home", page |-> StartPage, role |-> DefaultRole,
              delayedIndex |-> -1]

TypeOK ==
  /\ pc \in {"idle", "insert", "exchange", "next", "prepare", "forced"}
  /\ role \in Roles /\ inReauth \in Roles \cup {None}
  /\ query \in Queries /\ delayed \in Seq(Queries)
  /\ transition \in Tokens /\ currentpage \in PageNames /\ last \in Tokens \X PageNames
  /\ lLoopCount \in 0..2 /\ requests \in 0..NumRequests
  /\ executedIn \in [1..NumRequests -> 0..NumRequests]

Init ==
  /\ pc = "idle" /\ role = DefaultRole /\ delayed = <<>>
  /\ query = NullQuery /\ transition = "Home" /\ currentpage = StartPage
  /\ inReauth = None /\ last = <<"Home", StartPage>> /\ lLoopCount = 0
  /\ requests = 0 /\ executedIn = [r \in 1..NumRequests |-> 0]

----------------------------------------------------------------------------
(* The start of a request                                                  *)

\* fStore["delayed"][index]: looking at a slot makes it and the ones before it.
Slots(index) ==
  [i \in 1..(IF index < Len(delayed) THEN Len(delayed) ELSE index + 1) |->
     IF i <= Len(delayed) THEN delayed[i] ELSE NullQuery]

\* SetupContext: the default action stands for an empty one.
SetupContext(q) ==
  /\ query' = q
  /\ transition' = IF q.action = "" THEN "Home" ELSE q.action
  /\ currentpage' = q.page
  /\ delayed' = IF q.delayedIndex >= 0 THEN Slots(q.delayedIndex) ELSE delayed

RenderNextPage ==
  /\ pc = "idle" /\ requests < NumRequests
  /\ requests' = requests + 1
  /\ \E q \in [id : {requests + 1}, action : Actions, page : QueryPages, role : Roles,
               delayedIndex : Indices] : SetupContext(q)
  /\ last' = <<transition', currentpage'>> /\ lLoopCount' = 0
  /\ inReauth' = None
  /\ pc' = "insert"
  /\ UNCHANGED <<role, executedIn>>

----------------------------------------------------------------------------
(* NeedsPageInsert                                                         *)

\* Only the same role will do.
CheckLevel(queryRole) == role = queryRole

\* Role::Verify; a logout is always possible.  What the hook DoVerify says is
\* open in every round.
Verify(DoVerify) == transition = "Logout" \/ (CheckLevel(query.role) /\ DoVerify)

\* Mutant: reauthentication is not remembered.
InReAuthenticateNever == FALSE

InReAuthenticate == inReauth = role

\* NeedsPageInsert with prepareForcedLogin, then SaveToDelayed: the query is
\* kept and the session goes on with a query of its own for the login.
SaveToDelayed ==
  /\ pc = "insert" /\ \E ok \in BOOLEAN : ~Verify(ok)
  /\ transition' = "Login" /\ currentpage' = StartPage
  /\ IF InReAuthenticate
       THEN UNCHANGED <<delayed, query, inReauth, executedIn>>
       ELSE /\ delayed' = [Slots(0) EXCEPT ![1] = query]
            /\ query' = [id |-> 0, action |-> "Login", page |-> StartPage, role |-> role,
                         delayedIndex |-> 0]
            /\ inReauth' = role
            /\ executedIn' = [r \in 1..NumRequests |-> IF r = query.id THEN 0 ELSE executedIn[r]]
  /\ pc' = "next"
  /\ UNCHANGED <<role, last, lLoopCount, requests>>

----------------------------------------------------------------------------
(* FinishPage and AfterPageInsert                                          *)

\* Action::ExecAction on the script that the page has for the token; without
\* one the token stays and the result is true.
ExecAction(page, token) ==
  IF <<page, token>> \in DOMAIN Scripts THEN Scripts[<<page, token>>] ELSE {<<TRUE, token>>}

\* FinishPage: the action is executed; what it returns is not looked at.
FinishPage ==
  /\ pc = "insert" /\ \E ok \in BOOLEAN : Verify(ok)
  /\ IF currentpage \in Pages
       THEN /\ \E result \in ExecAction(currentpage, transition) : transition' = result[2]
            /\ executedIn' = [r \in 1..NumRequests |->
                               IF r = query.id THEN requests ELSE executedIn[r]]
       ELSE UNCHANGED <<transition, executedIn>>
  /\ pc' = "exchange"
  /\ UNCHANGED <<role, delayed, query, currentpage, inReauth, last, lLoopCount, requests>>

\* The role that the action leads to from the role of the session.
CheckRoleExchange ==
  IF <<transition, role>> \in DOMAIN RoleChanges THEN RoleChanges[<<transition, role>>] ELSE None

\* Mutant: the delayed query stays in the session.
RetrieveFromDelayedKeeps(index) ==
  LET slots == Slots(index)  q == slots[index + 1]
  IN  /\ query' = q /\ delayed' = slots
      /\ IF q.action = ""
           THEN UNCHANGED <<transition, currentpage>> /\ pc' = "next"
           ELSE transition' = q.action /\ currentpage' = q.page /\ pc' = "insert"

\* The delayed query takes the place of the query, and its slot goes; one with
\* an empty action is taken as well, but the transition of the login goes on.
RetrieveFromDelayed(index) ==
  LET slots == Slots(index)  q == slots[index + 1]
  IN  /\ query' = q
      /\ delayed' = [i \in 1..(Len(slots) - 1) |-> slots[IF i <= index THEN i ELSE i + 1]]
      /\ IF q.action = ""
           THEN UNCHANGED <<transition, currentpage>> /\ pc' = "next"
           ELSE transition' = q.action /\ currentpage' = q.page /\ pc' = "insert"

SetRole(newRole) == role' = newRole

\* AfterPageInsert: the role is changed if the action calls for it and the new
\* role can be initialised.
AfterPageInsert ==
  /\ pc = "exchange"
  /\ CheckRoleExchange # None
  /\ SetRole(CheckRoleExchange)
  /\ IF delayed # <<>> /\ query.delayedIndex >= 0
       THEN RetrieveFromDelayed(query.delayedIndex)
       ELSE pc' = "next" /\ UNCHANGED <<query, delayed, transition, currentpage>>
  /\ UNCHANGED <<inReauth, last, lLoopCount, requests, executedIn>>

\* Role::Init of the new role fails: PrepareLogout.
RoleInitFails ==
  /\ pc = "exchange" /\ CheckRoleExchange # None
  /\ transition' = "Logout" /\ currentpage' = StartPage
  /\ pc' = "next"
  /\ UNCHANGED <<role, delayed, query, inReauth, last, lLoopCount, requests, executedIn>>

NoRoleExchange ==
  /\ pc = "exchange" /\ CheckRoleExchange = None
  /\ pc' = "next"
  /\ UNCHANGED <<role, delayed, query, transition, currentpage, inReauth, last, lLoopCount,
                 requests, executedIn>>

----------------------------------------------------------------------------
(* The new page                                                            *)

\* GetNextActionConfig: the entry of the page, or the default one.
NextActionConfig(token, page) ==
  LET entries == {<<role, page, token>>, <<role, "Default", token>>} \cap DOMAIN Map
  IN  IF <<role, page, token>> \in entries THEN Map[<<role, page, token>>]
      ELSE IF entries # {} THEN Map[<<role, "Default", token>>] ELSE None

IsStayOnSamePageToken(token) == token = "StayOnSamePage"

\* Role::GetNewPageName for the given transition from the given page; the
\* error page is taken if there is no entry.
GetNewPageName(token, page) ==
  LET entry == NextActionConfig(token, page)
  IN  IF IsStayOnSamePageToken(token)
        THEN transition' = "PreprocessAction" /\ currentpage' = page
      ELSE IF entry # None
        THEN currentpage' = entry[1] /\ transition' = entry[2]
        ELSE currentpage' = ErrorPage /\ transition' = token

\* Role::Synchronize may fail; the next page is then the one of Logout, and the
\* last one that is tried.
FindNewPage ==
  /\ pc = "next"
  /\ \/ GetNewPageName(transition, currentpage) /\ pc' = "prepare"
     \/ GetNewPageName("Logout", StartPage) /\ pc' = "forced"
  /\ UNCHANGED <<role, delayed, query, inReauth, last, lLoopCount, requests, executedIn>>

\* Page::Prepare, as <<done, transition, page>>
Prepared ==
  IF currentpage \in Pages
    THEN IF transition = "" THEN {<<TRUE, transition, currentpage>>}
         ELSE {<<r[1], r[2], currentpage>> : r \in ExecAction(currentpage, transition)}
  ELSE IF currentpage = ErrorPage THEN {<<TRUE, transition, currentpage>>}
  ELSE {<<FALSE, "Error", ErrorPage>>}

\* How often transition and page have stayed the same; the loop is given up
\* after the second time.
SameRounds(token, page) == IF last = <<token, page>> THEN lLoopCount + 1 ELSE 0

\* The page is rendered, and context and local variables go.
EndRequest ==
  /\ pc' = "idle"
  /\ query' = NullQuery /\ transition' = "Home" /\ currentpage' = StartPage
  /\ inReauth' = None /\ last' = <<"Home", StartPage>> /\ lLoopCount' = 0

\* PreparePage, and the end of the round.
PreparePage ==
  /\ pc \in {"prepare", "forced"}
  /\ \E p \in Prepared :
       IF p[1] \/ pc = "forced" \/ SameRounds(p[2], p[3]) >= 2
         THEN EndRequest
         ELSE /\ transition' = p[2] /\ currentpage' = p[3]
              /\ last' = <<p[2], p[3]>> /\ lLoopCount' = SameRounds(p[2], p[3])
              /\ pc' = "insert"
              /\ UNCHANGED <<query, inReauth>>
  /\ UNCHANGED <<role, delayed, requests, executedIn>>

DoFindNextPage ==
  \/ SaveToDelayed \/ FinishPage
  \/ AfterPageInsert \/ RoleInitFails \/ NoRoleExchange
  \/ FindNewPage \/ PreparePage

Next == RenderNextPage \/ DoFindNextPage

Spec == Init /\ [][Next]_vars

----------------------------------------------------------------------------
\* What SaveToDelayed keeps is a query of a client, never the one the session
\* made for the login: being refused twice does not lose what the client asked
\* for (Session.cpp, SaveToDelayed: "to prevent endless loops").
DelayedIsClients ==
  \A i \in 1..Len(delayed) : delayed[i].id > 0 \/ delayed[i] = NullQuery

\* A query that is at work or delayed was not executed by an earlier request:
\* what the client asked for is done once, at once or after the login ("this
\* time we do what we remembered"), and not again by a later request, however
\* often the role changes.  A query that is refused after its execution, its
\* role having changed meanwhile, is delayed, and only then is it executed again.
NotExecutedAgain ==
  /\ query.id > 0 => executedIn[query.id] \in {0, requests}
  /\ \A i \in 1..Len(delayed) : delayed[i].id > 0 => executedIn[delayed[i].id] = 0

=============================================================================
