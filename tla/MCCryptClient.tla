---------------------------- MODULE MCCryptClient ----------------------------
(***************************************************************************)
(* Instances of CryptClient for TLC.                                       *)
(***************************************************************************)
EXTENDS CryptClientProps, TLC

CONSTANTS p1, p2, h1, h2, h3, a, b

\* Two peers, the first with two endorsers.
ThreeEndorsers == (h1 :> p1) @@ (h2 :> p1) @@ (h3 :> p2)

\* Two peers with one endorser each.
TwoEndorsers == (h1 :> p1) @@ (h2 :> p2)

\* One peer with one endorser.
OneEndorser == (h1 :> p1)

\* Requests and non-empty contents are interchangeable.
Symmetry == Permutations(Requests) \cup Permutations(Contents \ {Empty})
=============================================================================
