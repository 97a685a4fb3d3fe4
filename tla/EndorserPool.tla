----------------------------- MODULE EndorserPool -----------------------------
(***************************************************************************)
(* What the connection table promises to the rest of the client service:   *)
(* a set of connected endorsers out of which one call can pick up to       *)
(* EndorseCount endorsers of pairwise different peers, and a query can     *)
(* pick an endorser of the peer it names. CryptClient is written against   *)
(* this view of the table.                                                 *)
(***************************************************************************)
EXTENDS Naturals, FiniteSets

CONSTANTS Handlers, PeerOf, EndorseCount

VARIABLES
  up,       \* the connected endorsers
  serving,  \* TRUE while a call is picking endorsers
  got       \* the endorsers the current call has picked

vars == <<up, serving, got>>

Init == up = {} /\ serving = FALSE /\ got = {}

Connect(h) == h \notin up /\ up' = up \cup {h} /\ UNCHANGED <<serving, got>>

Disconnect(h) == h \in up /\ up' = up \ {h} /\ UNCHANGED <<serving, got>>

Start ==
  /\ ~serving
  /\ Cardinality({PeerOf[h] : h \in up}) >= EndorseCount
  /\ serving' = TRUE /\ got' = {} /\ up' = up

MayPick(h) ==
  /\ serving
  /\ h \in up
  /\ Cardinality(got) < EndorseCount
  /\ \A g \in got : PeerOf[g] # PeerOf[h]

Pick(h) == MayPick(h) /\ got' = got \cup {h} /\ UNCHANGED <<up, serving>>

\* The send to the picked endorser fails: the call is over.
PickFails(h) ==
  MayPick(h) /\ up' = up \ {h} /\ got' = {} /\ serving' = FALSE

Finish ==
  /\ serving /\ Cardinality(got) = EndorseCount
  /\ serving' = FALSE /\ got' = {} /\ up' = up

Next ==
  \/ \E h \in Handlers : Connect(h) \/ Disconnect(h) \/ Pick(h) \/ PickFails(h)
  \/ Start \/ Finish

Spec == Init /\ [][Next]_vars
=============================================================================
