--------------------------- MODULE NotifyLifecycle ---------------------------
(***************************************************************************)
(* What CVbhAdapterBase promises its caller, without sessions, endorsers   *)
(* or timers. A call is refused by its return code, or it is open until    *)
(* its response; a call that asked for it is then waiting until its        *)
(* notification, if the response was OK:                                   *)
(*                                                                         *)
(*     idle -> closed                                                      *)
(*     idle -> open -> closed                                              *)
(*     idle -> open -> waiting -> closed                                   *)
(*                                                                         *)
(* Each callback is made once, on the step out of open or waiting. When    *)
(* the service ends, what is open or waiting may be dropped. The promise   *)
(* holds until the service ends, and it ends when it uses memory it has    *)
(* freed: what is left of the program then promises nothing.               *)
(***************************************************************************)
EXTENDS Sequences

CONSTANTS Requests, Codes, NULL

VARIABLES
  up,     \* TRUE until the service ends
  stage,  \* idle, open, waiting or closed
  wants,  \* TRUE for a call that asked to be notified
  ret,    \* the return code of the call
  rsp,    \* the codes of its responses
  ntf     \* the codes of its notifications

vars == <<up, stage, wants, ret, rsp, ntf>>

Init ==
  /\ up = TRUE
  /\ stage = [r \in Requests |-> "idle"]
  /\ ret = [r \in Requests |-> NULL]
  /\ rsp = [r \in Requests |-> <<>>]
  /\ ntf = [r \in Requests |-> <<>>]

From(r, old, new) == stage[r] = old /\ stage'[r] = new

Told(f, g, r) == \E code \in Codes : g[r] = Append(f[r], code)

Silent(r) == rsp'[r] = rsp[r] /\ ntf'[r] = ntf[r]

Accepts(r) == From(r, "idle", "open") /\ ret'[r] = "OK" /\ Silent(r)

Refuses(r) ==
  From(r, "idle", "closed") /\ ret'[r] \notin {"OK", NULL} /\ Silent(r)

\* Whoever asked for the notification waits for it after OK.
Responds(r) ==
  /\ stage[r] = "open" /\ Told(rsp, rsp', r) /\ ntf'[r] = ntf[r]
  /\ stage'[r] = IF wants[r] /\ rsp'[r][Len(rsp'[r])] = "OK" THEN "waiting" ELSE "closed"

Notifies(r) ==
  From(r, "waiting", "closed") /\ Told(ntf, ntf', r) /\ rsp'[r] = rsp[r]

Drops(r) == stage[r] \in {"open", "waiting"} /\ stage'[r] = "closed" /\ ~up' /\ Silent(r)

\* A call made while the service goes down with it has no outcome at all.
Vanishes(r) == From(r, "idle", "closed") /\ ~up' /\ ret'[r] = NULL /\ Silent(r)

Stays(r) == stage'[r] = stage[r] /\ Silent(r)

\* Several calls move in one step when a connection breaks.
Move ==
  /\ up
  /\ \A r \in Requests :
       /\ \/ Accepts(r) \/ Refuses(r) \/ Responds(r) \/ Notifies(r)
          \/ Drops(r) \/ Vanishes(r) \/ Stays(r)
       /\ stage[r] # "idle" => ret'[r] = ret[r] /\ wants'[r] = wants[r]

Spec == Init /\ [][Move]_vars
=============================================================================
