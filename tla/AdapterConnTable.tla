--------------------------- MODULE AdapterConnTable ---------------------------
(***************************************************************************)
(* The connection table of CVbhAdapterBase, m_vbhPeerConnSumInfo: the      *)
(* peers with a connection, each with its handlers. It differs from the    *)
(* table of the crypt client (PeerConnTable) in how it is read: the index  *)
(* is put in range when it is read and moved on afterwards. A table is a   *)
(* sequence of peers here; how its memory grows and moves is the subject   *)
(* of PeerConnTable.                                                       *)
(*                                                                         *)
(* QueryTransactionInfo calls GetMcpHandler() twice and uses the second.   *)
(***************************************************************************)
EXTENDS Integers, Sequences, FiniteSets, FiniteSetsExt, SequencesExt, RoundRobin

CONSTANTS
  Peers, Handlers, PeerOf, EndorseCount

VARIABLES
  info,       \* m_vbhPeerConnSumInfo: its peers, and m_nIndex, from 0
  connected,  \* the handlers the framework has reported as connected
  sent,       \* the handlers the call that has just ended has used, in order
  picks       \* history: how often each peer was picked since the peers changed

vars == <<info, connected, sent, picks>>

FindSession(p) == {i \in DOMAIN info.peers : info.peers[i].id = p}

\* A random index over n elements.
Random(n) == 0 .. n - 1

\* AddHandler at the end, RemoveHandler by the last one; a random index.
AddHandler(s, h) ==
  {[s EXCEPT !.hs = Append(s.hs, h), !.index = k] : k \in Random(Len(s.hs) + 1)}

\* The sequence without element i, whose place the last one takes.
MutantWithout(seq, i) == Front(seq)
Without(seq, i) == Front([seq EXCEPT ![i] = Last(seq)])

RemoveHandler(s, h) ==
  LET hs == Without(s.hs, CHOOSE i \in DOMAIN s.hs : s.hs[i] = h)
  IN  {[s EXCEPT !.hs = hs, !.index = k] : k \in Random(Len(hs))}

\* AllocSession of a peer with its first handler.
AllocSession(p, h) ==
  {[peers |-> Append(info.peers, [id |-> p, hs |-> <<h>>, index |-> 0]), index |-> k] :
     k \in Random(Len(info.peers) + 1)}

\* FreeSession. The index of an empty table stays as it is.
FreeSession(i) ==
  LET peers == Without(info.peers, i)
  IN  {[peers |-> peers, index |-> k] :
         k \in IF peers = <<>> THEN {info.index} ELSE Random(Len(peers))}

\* One call of GetMcpHandler(): the handler it yields and the table after it.
InRange(k, n) == IF k >= n THEN 0 ELSE k

MutantGetMcpHandler(t) ==
  LET i == InRange(t.index, Len(t.peers))
      s == t.peers[i + 1]
      k == InRange(s.index, Len(s.hs))
  IN  [h |-> s.hs[k + 1],
       info |-> [peers |-> [t.peers EXCEPT ![i + 1].index = k + 1], index |-> i]]

GetMcpHandler(t) ==
  LET i == InRange(t.index, Len(t.peers))
      s == t.peers[i + 1]
      k == InRange(s.index, Len(s.hs))
  IN  [h |-> s.hs[k + 1],
       info |-> [peers |-> [t.peers EXCEPT ![i + 1].index = k + 1], index |-> i + 1]]

\* What n calls of it yield, one after the other.
Picked[n \in Nat] ==
  IF n = 0 THEN [hs |-> <<>>, info |-> info]
  ELSE LET g == GetMcpHandler(Picked[n - 1].info)
       IN  [hs |-> Append(Picked[n - 1].hs, g.h), info |-> g.info]
-----------------------------------------------------------------------------
ConnectedPeers == {PeerOf[h] : h \in connected}

\* The use of the peers, relative to the least used connected one.
Counted(use, hs) ==
  LET more == [p \in Peers |-> use[p] + Cardinality({i \in DOMAIN hs : PeerOf[hs[i]] = p})]
      least == Min({more[p] : p \in ConnectedPeers})
  IN  [p \in Peers |-> IF p \in ConnectedPeers THEN more[p] - least ELSE 0]

Fresh == [p \in Peers |-> 0]

Init ==
  /\ info = [peers |-> <<>>, index |-> 0]
  /\ connected = {}
  /\ sent = <<>>
  /\ picks = Fresh

OnConnectedNodify(h) ==
  LET found == FindSession(PeerOf[h])
  IN  /\ h \notin connected
      /\ connected' = connected \cup {h}
      /\ sent' = <<>>
      /\ \/ /\ found = {}
            /\ info' \in AllocSession(PeerOf[h], h)
            /\ picks' = Fresh
         \/ /\ \E i \in found : \E s \in AddHandler(info.peers[i], h) :
                 info' = [info EXCEPT !.peers[i] = s]
            /\ UNCHANGED picks

OnNetworkError(h) ==
  \E i \in FindSession(PeerOf[h]) :
    /\ h \in connected
    /\ connected' = connected \ {h}
    /\ sent' = <<>>
    /\ \/ /\ Len(info.peers[i].hs) = 1
          /\ info' \in FreeSession(i)
          /\ picks' = Fresh
       \/ /\ Len(info.peers[i].hs) > 1
          /\ \E s \in RemoveHandler(info.peers[i], h) :
               info' = [info EXCEPT !.peers[i] = s]
          /\ UNCHANGED picks

\* A call that has picked n handlers and used the ones from the first-th on.
Calls(n, first) ==
  /\ info' = Picked[n].info
  /\ sent' = SubSeq(Picked[n].hs, first, n)
  /\ picks' = Counted(picks, Picked[n].hs)
  /\ UNCHANGED connected

\* The three transactions. The loop is left at the first send that fails.
SendMultiEndorseMessage ==
  /\ Len(info.peers) >= EndorseCount
  /\ \E n \in 1 .. EndorseCount : Calls(n, 1)

QueryUserInfo == info.peers # <<>> /\ Calls(1, 1)

QueryTransactionInfo == info.peers # <<>> /\ Calls(2, 2)

Next ==
  \/ \E h \in Handlers : OnConnectedNodify(h) \/ OnNetworkError(h)
  \/ SendMultiEndorseMessage
  \/ QueryUserInfo
  \/ QueryTransactionInfo

Spec == Init /\ [][Next]_vars
-----------------------------------------------------------------------------
\* The table lists exactly the connections there are: each peer that has one
\* once, with its own handlers, once each. A call goes over connections that
\* exist, and a transaction over connections to different peers, however far
\* past the end the indices stood when an array had shrunk under them.
PeersListed ==
  /\ {info.peers[i].id : i \in DOMAIN info.peers} = ConnectedPeers
  /\ \A i, j \in DOMAIN info.peers : info.peers[i].id = info.peers[j].id => i = j
  /\ \A i \in DOMAIN info.peers :
       LET s == info.peers[i]
       IN  /\ ToSet(s.hs) = {h \in connected : PeerOf[h] = s.id}
           /\ IsInjective(s.hs)

SentApart ==
  /\ ToSet(sent) \subseteq connected
  /\ \A i, j \in DOMAIN sent : PeerOf[sent[i]] = PeerOf[sent[j]] => i = j

TableExact == PeersListed /\ SentApart

\* As long as the peers stay the same, no connected peer is picked more than
\* once more than another.
PicksEvenlySpread == \A p \in ConnectedPeers : picks[p] <= 1
-----------------------------------------------------------------------------
(* The inductive invariant behind the two. *)

PeerSession == [id : Peers, hs : Seq(Handlers), index : Nat]

TypeOK ==
  /\ info \in [peers : Seq(PeerSession), index : Nat]
  /\ connected \in SUBSET Handlers
  /\ sent \in Seq(Handlers)
  /\ picks \in [Peers -> Nat]

\* The element picked last: m_nIndex stands behind it, on the next one. An
\* index past the end is in range of a table that is not empty again.
LastPicked == IF info.index = 0 THEN Len(info.peers) ELSE info.index

PicksRun ==
  info.peers # <<>> =>
    /\ info.index <= Len(info.peers)
    /\ Even(picks, [i \in DOMAIN info.peers |-> info.peers[i].id],
            LastPicked, Len(info.peers))

IInv == TypeOK /\ TableExact /\ PicksRun
=============================================================================
