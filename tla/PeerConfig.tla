------------------------------ MODULE PeerConfig ------------------------------
(***************************************************************************)
(* What the two services with endorsers (CVbhCryptClientService and        *)
(* CVbhAdapterBase) do with their configuration: OnInit reads the          *)
(* addresses of the endorsers, in the order of their peers, groups them,   *)
(* compares the number of groups with ENDORSE_PEER_COUNT and connects. A   *)
(* connection is then assigned to its peer by GetPeerID.                   *)
(*                                                                         *)
(* Addresses are told apart by the handle id each is given. A PEER_ID has  *)
(* 32 bits where it is read and compared, and IdSpace values (16 bits)     *)
(* where it is stored.                                                     *)
(***************************************************************************)
EXTENDS Integers, Sequences, FiniteSets, SequencesExt

CONSTANTS
  PeerIds,   \* the configured values of PEER_ID
  Lowest,    \* the lowest 32-bit value, from which the grouping starts
  IdSpace,   \* the number of ids that fit in 16 bits
  MaxRows, ProfileCounts

VARIABLES
  ES_ADDR_CFG,         \* the PEER_IDs of the table's rows, as they lie in it
  ENDORSE_PEER_COUNT,  \* of the profile
  m_lstVbhPeer,        \* the groups: a stored id, the handles of its addresses
  m_nEndorsePeerCount,
  service,             \* "start", "running" or "failed"
  reached              \* the handles whose connection stands

vars == <<ES_ADDR_CFG, ENDORSE_PEER_COUNT, m_lstVbhPeer, m_nEndorsePeerCount,
          service, reached>>

Handles == 1 .. Len(ES_ADDR_CFG)

\* OrderByAsc("PEER_ID"): the rows in the order of their PEER_ID. The n-th is
\* the id below which lie less than n rows, and with which n. It gets the
\* handle id n.
MutantOrdered == ES_ADDR_CFG
Ordered ==
  [n \in Handles |->
     CHOOSE id \in ToSet(ES_ADDR_CFG) :
       /\ Cardinality({i \in Handles : ES_ADDR_CFG[i] < id}) < n
       /\ n <= Cardinality({i \in Handles : ES_ADDR_CFG[i] <= id})]

\* A row of another PEER_ID than the one before it opens a group. A first row
\* of the lowest value finds none open.
Grouped(list, h) ==
  LET before == IF h = 1 THEN Lowest ELSE Ordered[h - 1]
  IN  IF Ordered[h] # before
      THEN Append(list, [id |-> Ordered[h] % IdSpace, handles |-> {h}])
      ELSE [list EXCEPT ![Len(list)].handles = @ \cup {h}]

Loadable == ES_ADDR_CFG # <<>> => Ordered[1] # Lowest

LoadPeerInfo == FoldLeft(Grouped, <<>>, [h \in Handles |-> h])

GetPeerID(h) == m_lstVbhPeer[CHOOSE i \in DOMAIN m_lstVbhPeer : h \in m_lstVbhPeer[i].handles].id
-----------------------------------------------------------------------------
Init ==
  /\ ES_ADDR_CFG \in UNION {[1 .. n -> PeerIds] : n \in 0 .. MaxRows}
  /\ ENDORSE_PEER_COUNT \in ProfileCounts
  /\ m_lstVbhPeer = <<>>
  /\ m_nEndorsePeerCount = 0
  /\ service = "start"
  /\ reached = {}

OnInit ==
  /\ service = "start"
  /\ Loadable
  /\ ENDORSE_PEER_COUNT \in 1 .. Len(LoadPeerInfo)
  /\ m_lstVbhPeer' = LoadPeerInfo
  /\ m_nEndorsePeerCount' = ENDORSE_PEER_COUNT
  /\ service' = "running"
  /\ UNCHANGED <<ES_ADDR_CFG, ENDORSE_PEER_COUNT, reached>>

\* The database, the profile or a key cannot be read, or what they say will
\* not do. A service that fails here takes the SDK with it.
OnInitFails ==
  /\ service = "start"
  /\ service' = "failed"
  /\ UNCHANGED <<ES_ADDR_CFG, ENDORSE_PEER_COUNT, m_lstVbhPeer,
                 m_nEndorsePeerCount, reached>>

Connected(h) ==
  /\ service = "running"
  /\ reached' = reached \cup {h}
  /\ UNCHANGED <<ES_ADDR_CFG, ENDORSE_PEER_COUNT, m_lstVbhPeer,
                 m_nEndorsePeerCount, service>>

\* What has failed stays that way.
Stopped == service = "failed" /\ UNCHANGED vars

Next == OnInit \/ OnInitFails \/ Stopped \/ \E h \in Handles : Connected(h)

Spec == Init /\ [][Next]_vars
-----------------------------------------------------------------------------
DistinctIn16Bits ==
  \A a, b \in ToSet(ES_ADDR_CFG) : a % IdSpace = b % IdSpace => a = b

\* A service that has started can serve: connections belong to one peer if
\* and only if the configuration says so, whatever the order of its rows, and
\* once every endorser is connected there are as many peers as a transaction
\* has to be endorsed by. It takes that no two PEER_IDs of the configuration
\* agree in their lower 16 bits, which nothing in the code looks at.
StartedCanServe ==
  service = "running" /\ DistinctIn16Bits =>
    /\ \A g, h \in Handles :
         GetPeerID(g) = GetPeerID(h) <=> Ordered[g] = Ordered[h]
    /\ reached = Handles =>
         Cardinality({GetPeerID(h) : h \in reached}) >= m_nEndorsePeerCount
=============================================================================
