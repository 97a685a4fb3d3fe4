--------------------------- MODULE RequestLifecycle ---------------------------
(***************************************************************************)
(* What the client service promises an application, without sessions,      *)
(* timers, connections or endorsers: every request lives through           *)
(*                                                                         *)
(*     idle -> open -> closed                                              *)
(*                                                                         *)
(* and is answered at most once, when it is closed. A transaction may be   *)
(* submitted at most once, only while its request is open, and executed    *)
(* only after that. OK is only said of an executed transaction; an answer  *)
(* that says the transaction was refused is final: it is never executed    *)
(* afterwards. The other error answers leave the fate of a submitted       *)
(* transaction open.                                                       *)
(***************************************************************************)
EXTENDS Sequences

CONSTANTS Requests, Queries, Codes, Refusals

VARIABLES
  phase,      \* idle, open or closed
  kind,       \* the kind of the request, once it is sent
  answers,    \* the answers given
  submitted,  \* the transactions handed to an endorser
  executed    \* the transactions an endorser executed

vars == <<phase, kind, answers, submitted, executed>>

Init ==
  /\ phase = [r \in Requests |-> "idle"]
  /\ answers = [r \in Requests |-> <<>>]
  /\ submitted = {}
  /\ executed = {}

\* A query reads only; every other request is a transaction.
IsQuery(r) == kind'[r] \in Queries

Sent(r) == phase[r] = "idle" /\ phase'[r] \in {"open", "closed"}

\* The answer code may be given to r in this step.
MayAnswer(r, code) ==
  CASE code = "OK" -> IsQuery(r) \/ r \in executed
    [] code \in Refusals -> r \notin executed /\ r \notin executed'
    [] OTHER -> TRUE

Answered(r) ==
  /\ phase[r] # "closed" /\ phase'[r] = "closed"
  /\ \E code \in Codes : /\ answers'[r] = Append(answers[r], code)
                         /\ MayAnswer(r, code)
                         /\ phase[r] = "idle" => code # "OK"

\* A request can be dropped: a query whose send failed, and every open
\* request when the service stops.
Dropped(r) ==
  /\ phase[r] # "closed" /\ phase'[r] = "closed"
  /\ answers'[r] = answers[r]
  /\ phase[r] = "idle" => IsQuery(r)

Unmoved(r) ==
  /\ phase'[r] = phase[r] \/ (Sent(r) /\ phase'[r] = "open")
  /\ answers'[r] = answers[r]

\* Any set of requests may move in one step (a broken connection answers all
\* that wait on it), each along the life cycle.
Move ==
  /\ \A r \in Requests : Answered(r) \/ Dropped(r) \/ Unmoved(r)
  /\ \A r \in Requests : kind'[r] # kind[r] => Sent(r)
  /\ \A r \in submitted' \ submitted : phase[r] = "open" /\ phase'[r] = "open"
  /\ submitted \subseteq submitted'
  /\ executed \subseteq executed' /\ executed' \subseteq submitted
  /\ \A r \in executed' \ executed :
        \A code \in Refusals : answers'[r] # <<code>>

Spec == Init /\ [][Move]_vars
=============================================================================
