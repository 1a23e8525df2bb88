---------------------------- MODULE PagesProofs ----------------------------
(***************************************************************************)
(* Proofs about Pages, for every configuration of roles, pages and scripts *)
(* and every number of requests.                                           *)
(***************************************************************************)
EXTENDS Pages, TLAPS

----------------------------------------------------------------------------
(* The invariant.                                                          *)

\* The query that the session made for the login.
Generated(q) == q.id = 0 /\ q # NullQuery

\* A session that goes on with its own query keeps a delayed one, will take up
\* the first at the change of role, and is known to reauthenticate in its role.
LoginPending ==
  Generated(query) => inReauth = role /\ query.delayedIndex = 0 /\ delayed # <<>>

\* What is delayed was asked for by a client and is in the first slot, or is an
\* empty slot.
DelayedOfClient ==
  \A i \in 1..Len(delayed) : ~Generated(delayed[i]) /\ (i > 1 => delayed[i] = NullQuery)

\* Requests have the numbers 1 to requests, and only those are executed.
IdsKnown ==
  /\ query.id <= requests
  /\ \A i \in 1..Len(delayed) : delayed[i].id <= requests
  /\ \A r \in 1..NumRequests : r > requests => executedIn[r] = 0

\* Nothing is delayed and at work at the same time.
Apart == \A i \in 1..Len(delayed) : delayed[i].id > 0 => delayed[i].id # query.id

IInv == TypeOK /\ LoginPending /\ DelayedOfClient /\ IdsKnown /\ Apart /\ NotExecutedAgain

\* The tokens and pages that occur, piece by piece.
LEMMA Names ==
  /\ {"Home", "Login", "Logout", "Error", "PreprocessAction"} \subseteq Tokens
  /\ Actions \subseteq Tokens
  /\ {Map[t][2] : t \in DOMAIN Map} \subseteq Tokens
  /\ UNION {{r[2] : r \in Scripts[s]} : s \in DOMAIN Scripts} \subseteq Tokens
  /\ {StartPage, ErrorPage} \subseteq PageNames
  /\ QueryPages \subseteq PageNames
  /\ {Map[t][1] : t \in DOMAIN Map} \subseteq PageNames
<1> DEFINE T1 == {t[3] : t \in DOMAIN Map}
           T2 == {Map[t][2] : t \in DOMAIN Map}
           T3 == UNION {{r[2] : r \in Scripts[s]} : s \in DOMAIN Scripts}
           T4 == {"Home", "Login", "Logout", "Error", "PreprocessAction"}
           P1 == {Map[t][1] : t \in DOMAIN Map}
<1>1. Tokens = Actions \cup T1 \cup T2 \cup T3 \cup T4  BY Zenon DEF Tokens
<1>2. PageNames = QueryPages \cup Pages \cup P1 \cup {StartPage, ErrorPage}  BY Zenon DEF PageNames
<1> HIDE DEF T1, T2, T3, T4, P1
<1>3. T4 \subseteq Tokens /\ Actions \subseteq Tokens /\ T2 \subseteq Tokens /\ T3 \subseteq Tokens
  BY <1>1
<1>4. {StartPage, ErrorPage} \subseteq PageNames /\ QueryPages \subseteq PageNames /\ P1 \subseteq PageNames
  BY <1>2
<1> QED  BY <1>3, <1>4, Zenon DEF T2, T3, T4, P1

\* The ones that the code itself names.
LEMMA FixedNames ==
  /\ "Home" \in Tokens /\ "Login" \in Tokens /\ "Logout" \in Tokens
  /\ "Error" \in Tokens /\ "PreprocessAction" \in Tokens
  /\ StartPage \in PageNames /\ ErrorPage \in PageNames
BY Names

\* The empty slot is a query, and one that the session did not make.
LEMMA NullQueryType == NullQuery \in Queries /\ ~Generated(NullQuery) /\ NullQuery.id = 0
<1>2. 0 \in 0..NumRequests  BY PagesAssumption
<1>3. NullQuery \in Queries  BY <1>2, FixedNames, PagesAssumption DEF NullQuery, Queries
<1> QED  BY <1>3 DEF Generated, NullQuery

\* The invariant holds at first.
LEMMA InitIInv == Init => IInv
<1> SUFFICES ASSUME Init PROVE IInv  OBVIOUS
<1>1. TypeOK
  <2>1. pc \in {"idle", "insert", "exchange", "next", "prepare", "forced"}  BY DEF Init
  <2>2. role \in Roles /\ inReauth \in Roles \cup {None}  BY PagesAssumption DEF Init
  <2>3. query \in Queries /\ delayed \in Seq(Queries)  BY NullQueryType DEF Init
  <2>4. transition \in Tokens /\ currentpage \in PageNames  BY FixedNames DEF Init
  <2>5. last \in Tokens \X PageNames  BY FixedNames DEF Init
  <2>6. lLoopCount \in 0..2 /\ requests \in 0..NumRequests  BY PagesAssumption DEF Init
  <2>7. executedIn \in [1..NumRequests -> 0..NumRequests]  BY PagesAssumption DEF Init
  <2> QED  BY <2>1, <2>2, <2>3, <2>4, <2>5, <2>6, <2>7 DEF TypeOK
<1>2. LoginPending /\ DelayedOfClient /\ IdsKnown /\ Apart /\ NotExecutedAgain
  <2>1. Len(delayed) = 0 /\ query.id = 0 /\ ~Generated(query)  BY NullQueryType DEF Init
  <2> QED  BY <2>1 DEF Init, LoginPending, DelayedOfClient, IdsKnown, Apart, NotExecutedAgain
<1> QED  BY <1>1, <1>2 DEF IInv

----------------------------------------------------------------------------
(* Operators of the model.                                                 *)

\* A script leaves a token behind.
LEMMA ExecActionType ==
  ASSUME NEW page, NEW token \in Tokens, NEW result \in ExecAction(page, token)
  PROVE  result[2] \in Tokens
<1>1. CASE <<page, token>> \in DOMAIN Scripts
  <2>1. result \in Scripts[<<page, token>>]  BY <1>1 DEF ExecAction
  <2>2. result[2] \in UNION {{r[2] : r \in Scripts[s]} : s \in DOMAIN Scripts}
    BY <1>1, <2>1
  <2> QED  BY <2>2, Names
<1>2. CASE <<page, token>> \notin DOMAIN Scripts
  BY <1>2 DEF ExecAction
<1> QED  BY <1>1, <1>2

\* The page map leads to pages and tokens.
LEMMA NextActionConfigType ==
  ASSUME NEW token, NEW page, NextActionConfig(token, page) # None
  PROVE  /\ NextActionConfig(token, page)[1] \in PageNames
         /\ NextActionConfig(token, page)[2] \in Tokens
<1>1. PICK e \in DOMAIN Map : NextActionConfig(token, page) = Map[e]
  BY DEF NextActionConfig
<1>2. Map[e][1] \in {Map[t][1] : t \in DOMAIN Map} /\ Map[e][2] \in {Map[t][2] : t \in DOMAIN Map}
  OBVIOUS
<1> QED  BY <1>1, <1>2, Names

\* So does the search for the new page.
LEMMA GetNewPageNameType ==
  ASSUME NEW token \in Tokens, NEW page \in PageNames, GetNewPageName(token, page)
  PROVE  transition' \in Tokens /\ currentpage' \in PageNames
BY FixedNames, NextActionConfigType DEF GetNewPageName

\* Prepare leaves a token and a page behind.
LEMMA PreparedType ==
  ASSUME TypeOK, NEW p \in Prepared
  PROVE  p[2] \in Tokens /\ p[3] \in PageNames
<1>2. CASE currentpage \in Pages /\ transition # ""
  <2>1. PICK r \in ExecAction(currentpage, transition) : p = <<r[1], r[2], currentpage>>
    BY <1>2 DEF Prepared
  <2>2. r[2] \in Tokens  BY ExecActionType DEF TypeOK
  <2> QED  BY <2>1, <2>2 DEF TypeOK
<1>3. CASE ~(currentpage \in Pages /\ transition # "")
  <2>1. p = <<TRUE, transition, currentpage>> \/ p = <<FALSE, "Error", ErrorPage>>
    BY <1>3 DEF Prepared
  <2>2. transition \in Tokens /\ currentpage \in PageNames  BY DEF TypeOK
  <2>3. CASE p = <<TRUE, transition, currentpage>>
    <3>1. p[2] = transition /\ p[3] = currentpage  BY <2>3
    <3> QED  BY <2>2, <3>1
  <2>4. CASE p = <<FALSE, "Error", ErrorPage>>
    <3>1. p[2] = "Error" /\ p[3] = ErrorPage  BY <2>4
    <3> QED  BY <3>1, FixedNames
  <2> QED  BY <2>1, <2>3, <2>4
<1> QED  BY <1>2, <1>3

----------------------------------------------------------------------------
(* The steps.                                                              *)

\* What is in the slots that are there after a look at one of them.
LEMMA SlotsType ==
  ASSUME IInv, NEW index \in Nat
  PROVE  /\ Slots(index) \in Seq(Queries)
         /\ Len(Slots(index)) \in Nat /\ Len(Slots(index)) > index
         /\ \A i \in 1..Len(Slots(index)) :
              \/ i \in 1..Len(delayed) /\ Slots(index)[i] = delayed[i]
              \/ Slots(index)[i] = NullQuery
         /\ \A i \in 1..Len(Slots(index)) : i > 1 => Slots(index)[i] = NullQuery
<1> DEFINE n == IF index < Len(delayed) THEN Len(delayed) ELSE index + 1
<1>1. delayed \in Seq(Queries) /\ Len(delayed) \in Nat  BY DEF IInv, TypeOK
<1>2. n \in Nat /\ n > index  BY <1>1
<1>3. Slots(index) = [i \in 1..n |-> IF i <= Len(delayed) THEN delayed[i] ELSE NullQuery]
  BY DEF Slots
<1> HIDE DEF n
<1>4. \A i \in 1..n : i <= Len(delayed) => i \in 1..Len(delayed) /\ delayed[i] \in Queries
  BY <1>1, <1>2
<1>5. Slots(index) \in Seq(Queries) /\ Len(Slots(index)) = n
  BY <1>2, <1>3, <1>4, NullQueryType
<1>6. \A i \in 1..n : \/ i \in 1..Len(delayed) /\ Slots(index)[i] = delayed[i]
                     \/ Slots(index)[i] = NullQuery
  BY <1>3, <1>4
<1>7. \A i \in 1..n : i > 1 => Slots(index)[i] = NullQuery
  BY <1>6 DEF IInv, DelayedOfClient
<1> QED  BY <1>2, <1>5, <1>6, <1>7

\* What the invariant says of a slot that is or may be made.
SlotGood(q) ==
  /\ q \in Queries /\ ~Generated(q) /\ q.id \in 0..requests
  /\ q.id > 0 => executedIn[q.id] = 0 /\ q.id # query.id

LEMMA SlotsGood ==
  ASSUME IInv
  PROVE  /\ Len(delayed) \in Nat
         /\ \A i \in 1..Len(delayed) : SlotGood(delayed[i])
         /\ SlotGood(NullQuery)
         /\ \A index \in Nat, i \in Nat :
              i \in 1..Len(Slots(index)) => SlotGood(Slots(index)[i])
<1> USE DEF IInv
<1>1. delayed \in Seq(Queries) /\ Len(delayed) \in Nat /\ requests \in Nat
  BY PagesAssumption DEF TypeOK
<1>2. ASSUME NEW i \in 1..Len(delayed) PROVE SlotGood(delayed[i])
  <2>1. delayed[i] \in Queries  BY <1>1
  <2>2. delayed[i].id \in Nat  BY <2>1, PagesAssumption DEF Queries
  <2>3. delayed[i].id \in 0..requests  BY <1>1, <2>2 DEF IdsKnown
  <2> QED  BY <2>1, <2>3 DEF SlotGood, DelayedOfClient, Apart, NotExecutedAgain
<1>3. SlotGood(NullQuery)
  <2>1. NullQuery.id = 0  BY NullQueryType
  <2> QED  BY <1>1, <2>1, NullQueryType DEF SlotGood
<1>4. ASSUME NEW index \in Nat, NEW i \in Nat, i \in 1..Len(Slots(index))
      PROVE  SlotGood(Slots(index)[i])
  BY <1>2, <1>3, <1>4, SlotsType
<1> QED  BY <1>1, <1>2, <1>3, <1>4

\* A new request: its number is larger than all there were.
LEMMA RenderNextPageIInv == IInv /\ RenderNextPage => IInv'
<1> SUFFICES ASSUME IInv, RenderNextPage PROVE IInv'  OBVIOUS
<1> USE DEF IInv
<1>1. PICK q \in [id : {requests + 1}, action : Actions, page : QueryPages, role : Roles,
                  delayedIndex : Indices] : SetupContext(q)
  BY DEF RenderNextPage
<1>2. /\ requests < NumRequests /\ requests' = requests + 1
      /\ last' = <<transition', currentpage'>> /\ lLoopCount' = 0
      /\ inReauth' = None /\ pc' = "insert"
      /\ UNCHANGED <<role, executedIn>>
  BY DEF RenderNextPage
<1>3. /\ query' = q /\ currentpage' = q.page
      /\ transition' = (IF q.action = "" THEN "Home" ELSE q.action)
      /\ delayed' = IF q.delayedIndex >= 0 THEN Slots(q.delayedIndex) ELSE delayed
  BY <1>1 DEF SetupContext
<1>4. requests \in Nat /\ requests + 1 \in 1..NumRequests /\ NumRequests \in Nat
  BY <1>2, PagesAssumption DEF TypeOK
<1>5. q \in Queries /\ q.id = requests + 1
  BY <1>4, Names DEF Queries
<1>6. query'.id = requests + 1 /\ requests + 1 > 0
  <2>1. query' = q  BY <1>3
  <2> QED  BY <1>4, <1>5, <2>1
<1>7. /\ delayed' \in Seq(Queries) /\ Len(delayed') \in Nat
      /\ \A i \in 1..Len(delayed') :
           SlotGood(delayed'[i]) /\ (i > 1 => delayed'[i] = NullQuery)
  <2>1. CASE q.delayedIndex >= 0
    <3>0. q.delayedIndex \in Nat \cup {-1}  BY PagesAssumption
    <3>1. q.delayedIndex \in Nat  BY <2>1, <3>0
    <3>2. delayed' = Slots(q.delayedIndex)  BY <1>3, <2>1
    <3> QED  BY <3>1, <3>2, SlotsType, SlotsGood
  <2>2. CASE ~(q.delayedIndex >= 0)
    BY <1>3, <2>2, SlotsGood DEF TypeOK, DelayedOfClient
  <2> QED  BY <2>1, <2>2
<1>8. TypeOK'
  <2>1. q.action \in Tokens /\ q.page \in PageNames  BY <1>5 DEF Queries
  <2>2. transition' \in Tokens /\ currentpage' \in PageNames  BY <1>3, <2>1, FixedNames
  <2>3. last' \in Tokens \X PageNames  BY <1>2, <2>2
  <2>4. query' \in Queries /\ delayed' \in Seq(Queries)  BY <1>3, <1>5, <1>7
  <2>5. lLoopCount' \in 0..2 /\ requests' \in 0..NumRequests  BY <1>2, <1>4
  <2>6. role' \in Roles /\ inReauth' \in Roles \cup {None}  BY <1>2 DEF TypeOK
  <2>7. executedIn' \in [1..NumRequests -> 0..NumRequests]  BY <1>2 DEF TypeOK
  <2> QED  BY <1>2, <2>2, <2>3, <2>4, <2>5, <2>6, <2>7 DEF TypeOK
<1>9. LoginPending'  BY <1>4, <1>6 DEF LoginPending, Generated
<1>10. ASSUME NEW i \in 1..Len(delayed')
       PROVE  /\ ~Generated(delayed'[i]) /\ (i > 1 => delayed'[i] = NullQuery)
              /\ delayed'[i].id # query'.id /\ delayed'[i].id <= requests'
              /\ delayed'[i].id > 0 => executedIn'[delayed'[i].id] = 0
  <2>1. PICK x : x = delayed'[i]  OBVIOUS
  <2>2. SlotGood(x) /\ (i > 1 => x = NullQuery)  BY <1>7, <1>10, <2>1
  <2>3. x.id \in 0..requests /\ ~Generated(x) /\ (x.id > 0 => executedIn[x.id] = 0)
    BY <2>2 DEF SlotGood
  <2>4. x.id # requests + 1 /\ x.id <= requests + 1  BY <1>4, <2>3
  <2> QED  BY <1>2, <1>6, <2>1, <2>2, <2>3, <2>4
<1>11. DelayedOfClient'
  <2>1. \A i \in 1..Len(delayed') : ~Generated(delayed'[i]) /\ (i > 1 => delayed'[i] = NullQuery)
    BY <1>10
  <2> QED  BY <2>1 DEF DelayedOfClient, Generated
<1>12. Apart'  BY <1>10 DEF Apart
<1>13. IdsKnown'
  <2>1. \A r \in 1..NumRequests : r > requests + 1 => executedIn[r] = 0  BY <1>4 DEF IdsKnown
  <2>2. query'.id <= requests + 1  BY <1>4, <1>6
  <2> QED  BY <1>2, <1>10, <2>1, <2>2 DEF IdsKnown
<1>14. NotExecutedAgain'
  <2>1. executedIn'[query'.id] = 0  BY <1>2, <1>4, <1>6 DEF IdsKnown
  <2> QED  BY <1>10, <2>1 DEF NotExecutedAgain
<1> QED  BY <1>8, <1>9, <1>11, <1>12, <1>13, <1>14

\* A refused query: the client's becomes the delayed one, the session's own
\* stays where it is.
LEMMA SaveToDelayedIInv == IInv /\ SaveToDelayed => IInv'
<1> SUFFICES ASSUME IInv, SaveToDelayed PROVE IInv'  OBVIOUS
<1> USE DEF IInv
<1>1. /\ transition' = "Login" /\ currentpage' = StartPage /\ pc' = "next"
      /\ UNCHANGED <<role, last, lLoopCount, requests>>
  BY DEF SaveToDelayed
<1>2. "Login" \in Tokens /\ StartPage \in PageNames  BY FixedNames
<1>3. CASE InReAuthenticate
  <2>1. UNCHANGED <<delayed, query, inReauth, executedIn>>  BY <1>3 DEF SaveToDelayed
  <2>2. TypeOK'  BY <1>1, <1>2, <2>1 DEF TypeOK
  <2>3. LoginPending' /\ DelayedOfClient' /\ IdsKnown' /\ Apart' /\ NotExecutedAgain'
    BY <1>1, <2>1 DEF LoginPending, DelayedOfClient, IdsKnown, Apart, NotExecutedAgain, Generated
  <2> QED  BY <2>2, <2>3
<1>4. CASE ~InReAuthenticate
  <2>1. /\ delayed' = [Slots(0) EXCEPT ![1] = query] /\ inReauth' = role
        /\ query' = [id |-> 0, action |-> "Login", page |-> StartPage, role |-> role,
                     delayedIndex |-> 0]
        /\ executedIn' = [r \in 1..NumRequests |-> IF r = query.id THEN 0 ELSE executedIn[r]]
    BY <1>4 DEF SaveToDelayed
  <2>2. query' \in Queries /\ query'.id = 0 /\ query'.delayedIndex = 0
    BY <1>2, <2>1, PagesAssumption DEF TypeOK, Queries
  <2>3. ~Generated(query)  BY <1>4 DEF InReAuthenticate, LoginPending
  <2>4. query \in Queries /\ query.id \in 0..requests /\ requests \in 0..NumRequests
    <3>1. query.id \in 0..NumRequests  BY DEF TypeOK, Queries
    <3> QED  BY <3>1, PagesAssumption DEF TypeOK, IdsKnown
  <2>5. /\ delayed' \in Seq(Queries) /\ Len(delayed') \in Nat /\ Len(delayed') > 0
        /\ Len(delayed') = Len(Slots(0))
        /\ delayed'[1] = query
        /\ \A i \in 1..Len(delayed') : i > 1 => delayed'[i] = NullQuery
    <3>1. 0 \in Nat  OBVIOUS
    <3>2. /\ Slots(0) \in Seq(Queries) /\ Len(Slots(0)) \in Nat /\ Len(Slots(0)) > 0
          /\ \A i \in 1..Len(Slots(0)) : i > 1 => Slots(0)[i] = NullQuery
      BY <3>1, SlotsType
    <3> HIDE DEF IInv
    <3> QED  BY <2>1, <2>4, <3>2
  <2>6. delayed' # <<>>  BY <2>5
  <2>7. executedIn' \in [1..NumRequests -> 0..NumRequests]
    BY <2>1, PagesAssumption DEF TypeOK
  <2>8. TypeOK'  BY <1>1, <1>2, <2>1, <2>2, <2>5, <2>7 DEF TypeOK
  <2>9. LoginPending'  BY <1>1, <2>1, <2>2, <2>6 DEF LoginPending
  <2>10. \A i \in 1..Len(delayed') : delayed'[i] = query \/ (i > 1 /\ delayed'[i] = NullQuery)
    BY <2>5
  <2>11. \A i \in 1..Len(delayed') : ~Generated(delayed'[i]) /\ delayed'[i].id \in 0..requests
    BY <2>3, <2>4, <2>10, NullQueryType
  <2>12. DelayedOfClient'
    <3>1. \A i \in 1..Len(delayed') : ~Generated(delayed'[i]) /\ (i > 1 => delayed'[i] = NullQuery)
      BY <2>5, <2>11
    <3> QED  BY <3>1 DEF DelayedOfClient, Generated
  <2>13. IdsKnown'
    <3>1. \A r \in 1..NumRequests : r > requests => executedIn'[r] = 0
      BY <2>1 DEF IdsKnown
    <3> QED  BY <1>1, <2>2, <2>4, <2>11, <3>1 DEF IdsKnown
  <2>14. Apart'  BY <2>2, <2>11 DEF Apart
  <2>15. NotExecutedAgain'
    <3>1. query.id > 0 => executedIn'[query.id] = 0  BY <2>1, <2>4, PagesAssumption
    <3>2. \A i \in 1..Len(delayed') : delayed'[i].id > 0 => delayed'[i] = query
      BY <2>10, NullQueryType
    <3> QED  BY <2>2, <3>1, <3>2 DEF NotExecutedAgain
  <2> QED  BY <2>8, <2>9, <2>12, <2>13, <2>14, <2>15
<1> QED  BY <1>3, <1>4

\* An executed action: its query is not the delayed one.
LEMMA FinishPageIInv == IInv /\ FinishPage => IInv'
<1> SUFFICES ASSUME IInv, FinishPage PROVE IInv'  OBVIOUS
<1> USE DEF IInv
<1>1. /\ pc' = "exchange"
      /\ UNCHANGED <<role, delayed, query, currentpage, inReauth, last, lLoopCount, requests>>
  BY DEF FinishPage
<1>2. transition' \in Tokens
  BY ExecActionType DEF FinishPage, TypeOK
<1>3. \/ executedIn' = executedIn
      \/ executedIn' = [r \in 1..NumRequests |-> IF r = query.id THEN requests ELSE executedIn[r]]
  BY DEF FinishPage
<1>4. query.id \in 0..NumRequests /\ requests \in 0..NumRequests /\ NumRequests \in Nat
  BY PagesAssumption DEF TypeOK, Queries
<1>5. /\ executedIn' \in [1..NumRequests -> 0..NumRequests]
      /\ \A r \in 1..NumRequests : r # query.id => executedIn'[r] = executedIn[r]
      /\ query.id > 0 => executedIn'[query.id] \in {executedIn[query.id], requests}
  BY <1>3, <1>4 DEF TypeOK
<1>6. TypeOK'  BY <1>1, <1>2, <1>5 DEF TypeOK
<1>7. LoginPending' /\ DelayedOfClient' /\ Apart'
  BY <1>1 DEF LoginPending, DelayedOfClient, Apart, Generated
<1>8. IdsKnown'
  <2>1. \A r \in 1..NumRequests : r > requests => r # query.id  BY <1>4 DEF IdsKnown
  <2>2. \A r \in 1..NumRequests : r > requests => executedIn'[r] = 0  BY <1>5, <2>1 DEF IdsKnown
  <2> QED  BY <1>1, <2>2 DEF IdsKnown
<1>9. NotExecutedAgain'
  <2>1. ASSUME NEW i \in 1..Len(delayed), delayed[i].id > 0 PROVE executedIn'[delayed[i].id] = 0
    <3>1. SlotGood(delayed[i])  BY SlotsGood
    <3>2. delayed[i].id \in 1..NumRequests /\ delayed[i].id # query.id
      BY <1>4, <2>1, <3>1 DEF SlotGood
    <3> QED  BY <1>5, <2>1, <3>1, <3>2 DEF SlotGood
  <2>2. query.id > 0 => executedIn'[query.id] \in {0, requests}  BY <1>5 DEF NotExecutedAgain
  <2> QED  BY <1>1, <2>1, <2>2 DEF NotExecutedAgain
<1> QED  BY <1>6, <1>7, <1>8, <1>9

\* A change of role: a session at work on its own query takes up the delayed
\* one, so that its own query never meets the new role.
LEMMA AfterPageInsertIInv == IInv /\ AfterPageInsert => IInv'
<1> SUFFICES ASSUME IInv, AfterPageInsert PROVE IInv'  OBVIOUS
<1> USE DEF IInv
<1>1. /\ role' \in Roles
      /\ UNCHANGED <<inReauth, last, lLoopCount, requests, executedIn>>
  BY PagesAssumption DEF AfterPageInsert, SetRole, CheckRoleExchange
<1>2. CASE delayed # <<>> /\ query.delayedIndex >= 0
  <2> DEFINE index == query.delayedIndex
             slots == Slots(index)
             q == slots[index + 1]
             n == Len(slots) - 1
  <2>0. index \in Nat \cup {-1}  BY PagesAssumption DEF TypeOK, Queries
  <2>1. index \in Nat  BY <1>2, <2>0
  <2>2. RetrieveFromDelayed(index)  BY <1>2 DEF AfterPageInsert
  <2>3. /\ query' = q
        /\ delayed' = [i \in 1..n |-> slots[IF i <= index THEN i ELSE i + 1]]
        /\ \/ UNCHANGED <<transition, currentpage>> /\ pc' = "next"
           \/ transition' = q.action /\ currentpage' = q.page /\ pc' = "insert"
    BY <2>2 DEF RetrieveFromDelayed
  <2>4. /\ slots \in Seq(Queries) /\ Len(slots) \in Nat /\ Len(slots) > index
        /\ \A i \in 1..Len(slots) : SlotGood(slots[i]) /\ (i > 1 => slots[i] = NullQuery)
    BY <2>1, SlotsType, SlotsGood
  <2>5. SlotGood(q) /\ n \in Nat  BY <2>1, <2>4
  <2> HIDE DEF slots, q, n, index
  <2>6. /\ delayed' \in Seq(Queries) /\ Len(delayed') = n
        /\ \A i \in 1..n : SlotGood(delayed'[i]) /\ (i > 1 => delayed'[i] = NullQuery)
    <3>1. PICK d : d = delayed'  OBVIOUS
    <3>2. PICK k \in Nat : k = n  BY <2>5
    <3>3. d = [i \in 1..k |-> slots[IF i <= index THEN i ELSE i + 1]]  BY <2>3, <3>1, <3>2
    <3>4. ASSUME NEW i \in 1..k
          PROVE  d[i] \in Queries /\ SlotGood(d[i]) /\ (i > 1 => d[i] = NullQuery)
      <4>1. PICK j \in 1..Len(slots) : d[i] = slots[j] /\ j >= i
        <5>1. (IF i <= index THEN i ELSE i + 1) \in 1..Len(slots)
          BY <2>1, <2>4, <3>2 DEF n
        <5> QED  BY <3>3, <5>1
      <4>2. slots[j] \in Queries  BY <2>4
      <4>3. SlotGood(slots[j]) /\ (j > 1 => slots[j] = NullQuery)  BY <2>4
      <4>4. i > 1 => j > 1  BY <2>4, <4>1
      <4> QED  BY <4>1, <4>2, <4>3, <4>4
    <3>5. d \in [1..k -> Queries]  BY <3>3, <3>4
    <3>6. d \in Seq(Queries) /\ Len(d) = k  BY <3>5
    <3> QED  BY <3>1, <3>2, <3>4, <3>6
  <2>7. \A i \in 1..n : delayed'[i].id > 0 => delayed'[i].id # q.id
    <3> SUFFICES ASSUME NEW i \in 1..n, delayed'[i].id > 0 PROVE delayed'[i].id # q.id
      OBVIOUS
    <3>1. i = 1  BY <2>5, <2>6, NullQueryType
    <3>2. CASE index = 0
      <4>1. delayed'[1] = slots[2] /\ 2 \in 1..Len(slots)  BY <2>3, <2>4, <2>5, <3>1, <3>2 DEF n
      <4>2. delayed'[1] = NullQuery  BY <2>4, <4>1
      <4> QED  BY <3>1, <4>2, NullQueryType
    <3>3. CASE index # 0
      <4>1. index + 1 \in 1..Len(slots) /\ index + 1 > 1  BY <2>1, <2>4, <3>3
      <4>2. q = NullQuery  BY <2>4, <4>1 DEF q
      <4> QED  BY <4>2, NullQueryType
    <3> QED  BY <3>2, <3>3
  <2>8. q.action \in Tokens /\ q.page \in PageNames  BY <2>5 DEF SlotGood, Queries
  <2>9. transition' \in Tokens /\ currentpage' \in PageNames /\ pc' \in {"next", "insert"}
    BY <2>3, <2>8 DEF TypeOK
  <2>10. TypeOK'  BY <1>1, <2>3, <2>5, <2>6, <2>9 DEF TypeOK, SlotGood
  <2>11. LoginPending'  BY <2>3, <2>5 DEF LoginPending, SlotGood, Generated
  <2>12. DelayedOfClient'  BY <2>6 DEF DelayedOfClient, SlotGood, Generated
  <2>13. IdsKnown'
    <3>1. requests \in Nat  BY PagesAssumption DEF TypeOK
    <3>2. q.id <= requests  BY <2>5, <3>1 DEF SlotGood
    <3>3. \A i \in 1..n : delayed'[i].id <= requests  BY <2>6, <3>1 DEF SlotGood
    <3> QED  BY <1>1, <2>3, <2>6, <3>2, <3>3 DEF IdsKnown
  <2>14. Apart'  BY <2>3, <2>6, <2>7 DEF Apart
  <2>15. NotExecutedAgain'  BY <1>1, <2>3, <2>5, <2>6 DEF NotExecutedAgain, SlotGood
  <2> QED  BY <2>10, <2>11, <2>12, <2>13, <2>14, <2>15
<1>3. CASE ~(delayed # <<>> /\ query.delayedIndex >= 0)
  <2>1. pc' = "next" /\ UNCHANGED <<query, delayed, transition, currentpage>>
    BY <1>3 DEF AfterPageInsert
  <2>2. ~Generated(query)  BY <1>3 DEF LoginPending
  <2>3. TypeOK'  BY <1>1, <2>1 DEF TypeOK
  <2>4. LoginPending' /\ DelayedOfClient'
    BY <2>1, <2>2 DEF LoginPending, DelayedOfClient, Generated
  <2>5. IdsKnown' /\ Apart' /\ NotExecutedAgain'
    BY <1>1, <2>1 DEF IdsKnown, Apart, NotExecutedAgain
  <2> QED  BY <2>3, <2>4, <2>5
<1> QED  BY <1>2, <1>3

\* A step that leaves the queries, the roles and the history alone.
LEMMA QuietStep ==
  ASSUME IInv,
         UNCHANGED <<role, delayed, query, inReauth, requests, executedIn>>,
         pc' \in {"idle", "insert", "exchange", "next", "prepare", "forced"},
         transition' \in Tokens, currentpage' \in PageNames,
         last' \in Tokens \X PageNames, lLoopCount' \in 0..2
  PROVE  IInv'
<1> USE DEF IInv
<1>1. TypeOK'  BY DEF TypeOK
<1>2. LoginPending' /\ DelayedOfClient'  BY DEF LoginPending, DelayedOfClient, Generated
<1>3. IdsKnown' /\ Apart' /\ NotExecutedAgain'  BY DEF IdsKnown, Apart, NotExecutedAgain
<1> QED  BY <1>1, <1>2, <1>3

\* A role that is not initialised, and a round without a change of role.
LEMMA NoExchangeIInv == IInv /\ (RoleInitFails \/ NoRoleExchange) => IInv'
<1> SUFFICES ASSUME IInv, RoleInitFails \/ NoRoleExchange PROVE IInv'  OBVIOUS
<1>1. TypeOK  BY DEF IInv
<1>2. CASE RoleInitFails
  <2>1. /\ pc' = "next" /\ transition' = "Logout" /\ currentpage' = StartPage
        /\ UNCHANGED <<role, delayed, query, inReauth, last, lLoopCount, requests, executedIn>>
    BY <1>2 DEF RoleInitFails
  <2>2. transition' \in Tokens /\ currentpage' \in PageNames  BY <2>1, FixedNames
  <2>3. last' \in Tokens \X PageNames /\ lLoopCount' \in 0..2  BY <1>1, <2>1 DEF TypeOK
  <2> QED  BY <2>1, <2>2, <2>3, QuietStep
<1>3. CASE NoRoleExchange
  <2>1. /\ pc' = "next"
        /\ UNCHANGED <<role, delayed, query, transition, currentpage, inReauth, last, lLoopCount,
                       requests, executedIn>>
    BY <1>3 DEF NoRoleExchange
  <2>2. transition' \in Tokens /\ currentpage' \in PageNames  BY <1>1, <2>1 DEF TypeOK
  <2>3. last' \in Tokens \X PageNames /\ lLoopCount' \in 0..2  BY <1>1, <2>1 DEF TypeOK
  <2> QED  BY <2>1, <2>2, <2>3, QuietStep
<1> QED  BY <1>2, <1>3

\* The search for a new page.
LEMMA FindNewPageIInv == IInv /\ FindNewPage => IInv'
<1> SUFFICES ASSUME IInv, FindNewPage PROVE IInv'  OBVIOUS
<1>1. TypeOK  BY DEF IInv
<1>2. /\ pc' \in {"prepare", "forced"}
      /\ UNCHANGED <<role, delayed, query, inReauth, last, lLoopCount, requests, executedIn>>
  BY DEF FindNewPage
<1>3. GetNewPageName(transition, currentpage) \/ GetNewPageName("Logout", StartPage)
  BY DEF FindNewPage
<1>4. transition' \in Tokens /\ currentpage' \in PageNames
  BY <1>1, <1>3, GetNewPageNameType, FixedNames DEF TypeOK
<1>5. last' \in Tokens \X PageNames /\ lLoopCount' \in 0..2  BY <1>1, <1>2 DEF TypeOK
<1> QED  BY <1>2, <1>4, <1>5, QuietStep

\* The end of a round, and of a request.
LEMMA PreparePageIInv == IInv /\ PreparePage => IInv'
<1> SUFFICES ASSUME IInv, PreparePage PROVE IInv'  OBVIOUS
<1>1. TypeOK  BY DEF IInv
<1>2. UNCHANGED <<role, delayed, requests, executedIn>>
  BY DEF PreparePage
<1>3. PICK p \in Prepared :
        \/ EndRequest
        \/ /\ ~(SameRounds(p[2], p[3]) >= 2)
           /\ transition' = p[2] /\ currentpage' = p[3]
           /\ last' = <<p[2], p[3]>> /\ lLoopCount' = SameRounds(p[2], p[3])
           /\ pc' = "insert" /\ UNCHANGED <<query, inReauth>>
  BY DEF PreparePage
<1>4. CASE EndRequest
  <2> USE DEF IInv
  <2>1. /\ pc' = "idle" /\ query' = NullQuery /\ transition' = "Home" /\ currentpage' = StartPage
        /\ inReauth' = None /\ last' = <<"Home", StartPage>> /\ lLoopCount' = 0
    BY <1>4 DEF EndRequest
  <2>2. TypeOK'
    <3>1. last' \in Tokens \X PageNames  BY <2>1, FixedNames
    <3>2. transition' \in Tokens /\ currentpage' \in PageNames  BY <2>1, FixedNames
    <3>3. query' \in Queries  BY <2>1, NullQueryType
    <3>4. lLoopCount' \in 0..2  BY <2>1
    <3> QED  BY <1>2, <2>1, <3>1, <3>2, <3>3, <3>4 DEF TypeOK
  <2>3. LoginPending' /\ DelayedOfClient'
    BY <1>2, <2>1, NullQueryType DEF LoginPending, DelayedOfClient, Generated
  <2>4. query'.id = 0 /\ requests \in Nat
    BY <1>1, <2>1, NullQueryType, PagesAssumption DEF TypeOK
  <2>5. IdsKnown' /\ Apart'  BY <1>2, <2>4 DEF IdsKnown, Apart
  <2>6. NotExecutedAgain'  BY <1>2, <2>4 DEF NotExecutedAgain
  <2> QED  BY <2>2, <2>3, <2>5, <2>6
<1>5. CASE /\ ~(SameRounds(p[2], p[3]) >= 2)
           /\ transition' = p[2] /\ currentpage' = p[3]
           /\ last' = <<p[2], p[3]>> /\ lLoopCount' = SameRounds(p[2], p[3])
           /\ pc' = "insert" /\ UNCHANGED <<query, inReauth>>
  <2>1. p[2] \in Tokens /\ p[3] \in PageNames  BY <1>1, PreparedType
  <2>2. lLoopCount' \in 0..2  BY <1>1, <1>5 DEF SameRounds, TypeOK
  <2>3. last' \in Tokens \X PageNames /\ transition' \in Tokens /\ currentpage' \in PageNames
    BY <1>5, <2>1
  <2> QED  BY <1>2, <1>5, <2>2, <2>3, QuietStep
<1> QED  BY <1>3, <1>4, <1>5

\* The inductive invariant holds in every reachable state.
THEOREM Invariance == Spec => []IInv
<1>1. IInv /\ [Next]_vars => IInv'
  <2> SUFFICES ASSUME IInv, [Next]_vars PROVE IInv'  OBVIOUS
  <2>1. CASE Next
    BY <2>1, RenderNextPageIInv, SaveToDelayedIInv, FinishPageIInv, AfterPageInsertIInv,
       NoExchangeIInv, FindNewPageIInv, PreparePageIInv DEF Next, DoFindNextPage
  <2>2. CASE UNCHANGED vars
    BY <2>2 DEF vars, IInv, TypeOK, LoginPending, DelayedOfClient, IdsKnown, Apart,
                NotExecutedAgain, Generated
  <2> QED  BY <2>1, <2>2
<1> QED  BY <1>1, InitIInv, PTL DEF Spec

----------------------------------------------------------------------------
(* The theorems.                                                           *)

\* Type correctness: whatever the map, the role changes and the scripts say,
\* the session stays among the registered roles and the tokens and pages that
\* the configuration names, and no round is repeated more than twice.
THEOREM TypeCorrect == Spec => []TypeOK
<1>1. IInv => TypeOK  BY DEF IInv
<1> QED  BY <1>1, Invariance, PTL

\* However often a session is refused and its role changes, the delayed query
\* is one that a client sent.
THEOREM DelayedQueryIsClients == Spec => []DelayedIsClients
<1>1. IInv => DelayedIsClients
  <2> SUFFICES ASSUME IInv, NEW i \in 1..Len(delayed)
               PROVE  delayed[i].id > 0 \/ delayed[i] = NullQuery
    BY DEF DelayedIsClients
  <2>1. SlotGood(delayed[i])  BY SlotsGood
  <2>2. delayed[i].id \in Nat  BY <2>1 DEF SlotGood
  <2> QED  BY <2>1, <2>2 DEF Generated, SlotGood
<1> QED  BY <1>1, Invariance, PTL

\* For every site, whatever its scripts and hooks do: a query that is at work
\* or delayed was not executed by an earlier request, unless it was refused
\* after that execution.
THEOREM QueryNotExecutedAgain == Spec => []NotExecutedAgain
<1>1. IInv => NotExecutedAgain  BY DEF IInv
<1> QED  BY <1>1, Invariance, PTL
=============================================================================
