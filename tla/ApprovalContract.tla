--------------------------- MODULE ApprovalContract ---------------------------
(***************************************************************************)
(* What an operator approval promises, whatever the store, the managers,   *)
(* their timers and restarts do: a request is open until it gets one       *)
(* verdict; its requester is answered once, with an allow only if that is  *)
(* the verdict; an allow-once is spent at most once, by the requester that *)
(* was answered with it; then the request may be forgotten.                *)
(***************************************************************************)
CONSTANTS Id, Manager

VARIABLES
  verdict,    \* "none", "open" or a decision
  raisedBy,   \* the manager that owns the request
  spent,      \* the allow-once was redeemed
  answer      \* what each manager told its requester

vars == <<verdict, raisedBy, spent, answer>>

Allow == {"allow-once", "allow-always"}
Decided == Allow \cup {"deny"}

Init ==
  /\ \A i \in Id : verdict[i] = "none" /\ ~spent[i]
  /\ \A m \in Manager, i \in Id : answer[m][i] = "none"

\* A request is raised on an id nobody uses, or on one whose verdict is forgotten with it.
Raised(i) ==
  /\ verdict[i] \in {"none"} \cup Decided
  /\ verdict'[i] = "open"
  /\ ~spent'[i]
  /\ raisedBy'[i] \in Manager /\ answer[raisedBy'[i]][i] = "none"
  /\ answer'[raisedBy'[i]][i] = "waiting"

DecidedOn(i) ==
  /\ verdict[i] = "open"
  /\ verdict'[i] \in Decided
  /\ spent'[i] = spent[i]
  /\ raisedBy'[i] = raisedBy[i]

Spent(i) ==
  /\ verdict[i] = "allow-once" /\ verdict'[i] = "allow-once"
  /\ ~spent[i] /\ spent'[i]
  /\ raisedBy'[i] = raisedBy[i]
  /\ answer[raisedBy[i]][i] = "allow-once"

Forgotten(i) ==
  /\ verdict[i] \in Decided
  /\ verdict'[i] = "none"
  /\ ~spent'[i]

Kept(i) == verdict'[i] = verdict[i] /\ spent'[i] = spent[i] /\ raisedBy'[i] = raisedBy[i]

\* A manager asks only when it raises a request.  It answers a waiter once: with an allow
\* only if that is the verdict on its own request.  Entries are dropped in the end.
Answered(m, i) ==
  \/ answer'[m][i] = answer[m][i]
  \/ answer[m][i] = "none" /\ answer'[m][i] = "waiting" /\ Raised(i) /\ raisedBy'[i] = m
  \/ /\ answer[m][i] = "waiting"
     /\ answer'[m][i] \in {"deny", "unanswered"} \cup Allow
     /\ answer'[m][i] \in Allow => verdict'[i] = answer'[m][i] /\ raisedBy'[i] = m
  \/ answer[m][i] # "none" /\ answer'[m][i] = "none"

Next ==
  /\ \A i \in Id : Raised(i) \/ DecidedOn(i) \/ Spent(i) \/ Forgotten(i) \/ Kept(i)
  /\ \A m \in Manager, i \in Id : Answered(m, i)

Spec == Init /\ [][Next]_vars
=============================================================================
