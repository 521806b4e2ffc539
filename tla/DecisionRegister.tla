--------------------------- MODULE DecisionRegister ---------------------------
(****************************************************************************)
(* What deciding a permission request promises, with no pump, timers or     *)
(* connections: the request is asked, answered at most once with something  *)
(* its menu permits, and then announced as what it was.  An answer and its  *)
(* announcement are two steps, because clients may look between them.       *)
(* Approvals implements this specification.                                 *)
(****************************************************************************)
EXTENDS Naturals

CONSTANTS Requests, Questions, Ids, No

VARIABLES
  alive,    \* the agent can still be answered
  asked,    \* the question of each request: its options and its tool call
  answer,   \* what the agent was told, a sequence
  told      \* the outcomes clients were told

Cancelled == "cancelled"

Outcomes == {"approved", "rejected", "timeout"}

\* Option kinds an answer may have: none of them is a persistent grant.
Kinds(outcome) ==
  CASE outcome = "approved" -> {"allow_once", "allow_other"}
    [] outcome = "rejected" -> {"reject_once", "reject_always", "reject_other"}
    [] OTHER -> {}

\* The first option of the menu that carries the id.
Chosen(opts, id) ==
  opts[CHOOSE i \in DOMAIN opts :
         opts[i].id = id /\ \A j \in DOMAIN opts : opts[j].id = id => i <= j]

\* What it means that the agent was told v.
Means(q, v, outcome) ==
  \/ v = Cancelled /\ outcome = "timeout"
  \/ /\ v # No /\ \E i \in DOMAIN q.opts : q.opts[i].id = v
     /\ Chosen(q.opts, v).kind \in Kinds(outcome)

Init ==
  /\ alive = TRUE
  /\ asked = [r \in Requests |-> No]
  /\ answer = [r \in Requests |-> << >>]
  /\ told = [r \in Requests |-> {}]

Ask(r, q) ==
  /\ alive /\ asked[r] = No
  /\ asked' = [asked EXCEPT ![r] = q]
  /\ UNCHANGED <<alive, answer, told>>

\* Only an open request is answered, and only as its menu permits.
Answer(r, v) ==
  /\ alive /\ asked[r] # No /\ answer[r] = << >> /\ told[r] = {}
  /\ \E outcome \in Outcomes : Means(asked[r], v, outcome)
  /\ answer' = [answer EXCEPT ![r] = <<v>>]
  /\ UNCHANGED <<alive, asked, told>>

\* Announced once, as what the agent was told; without an answer only as timed
\* out, when there is no agent left to be told.
Tell(r, outcome) ==
  /\ asked[r] # No /\ told[r] = {}
  /\ \/ answer[r] = << >> /\ ~alive /\ outcome = "timeout"
     \/ \E v \in Ids \cup {Cancelled} : answer[r] = <<v>> /\ Means(asked[r], v, outcome)
  /\ told' = [told EXCEPT ![r] = {outcome}]
  /\ UNCHANGED <<alive, asked, answer>>

Leave ==
  /\ alive /\ alive' = FALSE
  /\ UNCHANGED <<asked, answer, told>>

Next ==
  \/ Leave
  \/ \E r \in Requests, q \in Questions : Ask(r, q)
  \/ \E r \in Requests, v \in Ids \cup {Cancelled} : Answer(r, v)
  \/ \E r \in Requests, outcome \in Outcomes : Tell(r, outcome)

Spec == Init /\ [][Next]_<<alive, asked, answer, told>>
===============================================================================
