--------------------------- MODULE MCAdapterService ---------------------------
(***************************************************************************)
(* Instances of AdapterService for TLC.                                    *)
(***************************************************************************)
EXTENDS AdapterService, TLC

CONSTANTS c1, c2, r1, r2, r3

\* Two clients; the second uses the id of one of the first's requests.
Senders == (r1 :> c1) @@ (r2 :> c1) @@ (r3 :> c2)
SharedIds == (r1 :> 1) @@ (r2 :> 2) @@ (r3 :> 1)
=============================================================================
