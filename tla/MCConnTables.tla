----------------------------- MODULE MCConnTables -----------------------------
(***************************************************************************)
(* One instance for TLC of what hangs on the connections: the table of the *)
(* crypt client (PeerConnTable), the table of the adapter                  *)
(* (AdapterConnTable), the arrays of sessions (SessionArray, one           *)
(* connection per session) and the configuration the connections come from *)
(* (PeerConfig). A behaviour is one of one of them: which is chosen at the *)
(* start and only its variables move, so that the state space is the sum   *)
(* of the four, not their product.                                         *)
(***************************************************************************)
EXTENDS PeerConnTable, TLC

CONSTANTS
  Sessions, p1, p2, p3, h1, h2, h3, h4,
  PeerIds, Lowest, IdSpace, MaxRows, ProfileCounts

ASSUME ConfigAssumption ==
  /\ PeerIds \subseteq Int /\ Lowest \in Int
  /\ IdSpace \in Nat \ {0}
  /\ MaxRows \in Nat /\ ProfileCounts \subseteq Int

VARIABLES
  part,               \* the one that moves
  info, linked, sent, picks,  \* of AdapterConnTable; linked is its connected
  t, links,           \* of SessionArray
  ES_ADDR_CFG, ENDORSE_PEER_COUNT, m_lstVbhPeer, m_nEndorsePeerCount,
  service, reached    \* of PeerConfig

Adapter == INSTANCE AdapterConnTable WITH connected <- linked
Arrays == INSTANCE SessionArray WITH Fan <- 1
Config == INSTANCE PeerConfig

clientVars == vars
adapterVars == <<info, linked, sent, picks>>
arrayVars == <<t, links>>
configVars == <<ES_ADDR_CFG, ENDORSE_PEER_COUNT, m_lstVbhPeer,
                m_nEndorsePeerCount, service, reached>>

\* The configuration of a behaviour that is not about it is empty.
MCInit ==
  /\ part \in {"client", "adapter", "arrays", "config"}
  /\ Init /\ Adapter!Init /\ Arrays!Init /\ Config!Init
  /\ part # "config" => ES_ADDR_CFG = <<>> /\ ENDORSE_PEER_COUNT = 0

MCNext ==
  /\ \/ part = "client" /\ Next /\ UNCHANGED <<adapterVars, arrayVars, configVars>>
     \/ part = "adapter" /\ Adapter!Next /\ UNCHANGED <<clientVars, arrayVars, configVars>>
     \/ part = "arrays" /\ Arrays!Next /\ UNCHANGED <<clientVars, adapterVars, configVars>>
     \/ part = "config" /\ Config!Next /\ UNCHANGED <<clientVars, adapterVars, arrayVars>>
  /\ UNCHANGED part

MCSpec == MCInit /\ [][MCNext]_<<part, clientVars, adapterVars, arrayVars, configVars>>

\* Three peers, the first with two endorsers.
FourEndorsers == (h1 :> p1) @@ (h2 :> p1) @@ (h3 :> p2) @@ (h4 :> p3)

\* Two of the five ids are the same in 16 bits.
FiveIds == -2 .. 2
LowestId == -2

\* The adapter's table lists exactly its connections, and its calls go over
\* connections of different peers.
AdapterTableExact == Adapter!TableExact

\* The adapter's round robin picks its peers evenly as long as they stay.
PicksEvenlySpread == Adapter!PicksEvenlySpread

\* The arrays of sessions and the sessions' indices agree.
ArraysExact == Arrays!ArraysExact

\* A service that has started can serve, if its peers' ids differ in 16 bits.
StartedCanServe == Config!StartedCanServe
=============================================================================
