---------------------------- MODULE MCAdapterBase ----------------------------
(***************************************************************************)
(* Instances of AdapterBase for TLC.                                       *)
(***************************************************************************)
EXTENDS AdapterBaseProps, TLC

CONSTANTS p1, p2, h1, h2, a, b

\* Two peers with one endorser each.
TwoEndorsers == (h1 :> p1) @@ (h2 :> p2)

\* The transactions all wait for their notification.
WaitingCalls == [kind : TxKinds, wait : {TRUE}] \cup [kind : QueryKinds, wait : {FALSE}]

\* Bound: proposals and user queries meet each other, other calls nobody.
OthersAlone ==
  \A r, s \in Requests :
    (req[r] # NULL /\ req[s] # NULL /\ r # s) => req[r].kind \in {"propose", "queryUser"}

\* Requests and non-empty contents are interchangeable.
Symmetry == Permutations(Requests) \cup Permutations(Contents \ {Empty})
=============================================================================
