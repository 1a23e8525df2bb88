--------------------------- MODULE RequestService ---------------------------
(***************************************************************************)
(* What a server with a pool of workers promises about the requests it     *)
(* accepts.  A request waits until it is given to one worker that has      *)
(* none, and is answered by that worker.  The workers are renewed only     *)
(* while none of them has a request, and get none until that is over;      *)
(* requests are accepted all the same, and wait.  The server closes only   *)
(* when no request waits, and only then may it abort the ones its workers  *)
(* still have; it goes down when none is left.                             *)
(***************************************************************************)
CONSTANTS Requests, Workers, NoReq

VARIABLES waiting,    \* the requests that are accepted and have no worker
          working,    \* of each worker: its request
          answered,   \* the requests that were answered
          aborted,    \* the requests that were aborted
          service     \* "open", "renewing", "closing" or "down"

vars == <<waiting, working, answered, aborted, service>>

Idle == \A w \in Workers : working[w] = NoReq

Init ==
  /\ waiting = {} /\ answered = {} /\ aborted = {}
  /\ working = [w \in Workers |-> NoReq]
  /\ service = "open"

Accept(r) ==
  /\ service \in {"open", "renewing"}
  /\ r \notin waiting \cup answered \cup aborted /\ \A w \in Workers : working[w] # r
  /\ waiting' = waiting \cup {r}
  /\ UNCHANGED <<working, answered, aborted, service>>

Assign(r, w) ==
  /\ service = "open" /\ r \in waiting /\ working[w] = NoReq
  /\ waiting' = waiting \ {r}
  /\ working' = [working EXCEPT ![w] = r]
  /\ UNCHANGED <<answered, aborted, service>>

\* An aborted request ends as well, without an answer.
End(w) ==
  /\ working[w] # NoReq
  /\ answered' = answered \cup ({working[w]} \ aborted)
  /\ working' = [working EXCEPT ![w] = NoReq]
  /\ UNCHANGED <<waiting, aborted, service>>

Abort(w) ==
  /\ service = "closing" /\ working[w] # NoReq
  /\ aborted' = aborted \cup {working[w]}
  /\ UNCHANGED <<waiting, working, answered, service>>

Renew ==
  /\ service = "open" /\ Idle /\ service' = "renewing"
  /\ UNCHANGED <<waiting, working, answered, aborted>>

Reopen ==
  /\ service = "renewing" /\ Idle /\ service' = "open"
  /\ UNCHANGED <<waiting, working, answered, aborted>>

Close ==
  /\ service = "open" /\ waiting = {} /\ service' = "closing"
  /\ UNCHANGED <<waiting, working, answered, aborted>>

GoDown ==
  /\ service = "closing" /\ Idle /\ service' = "down"
  /\ UNCHANGED <<waiting, working, answered, aborted>>

Next ==
  \/ \E r \in Requests : Accept(r) \/ \E w \in Workers : Assign(r, w)
  \/ \E w \in Workers : End(w) \/ Abort(w)
  \/ Renew \/ Reopen \/ Close \/ GoDown

Spec == Init /\ [][Next]_vars
=============================================================================
