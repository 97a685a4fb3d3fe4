---------------------------- MODULE PeerConnTable ----------------------------
(***************************************************************************)
(* The connection table of CVbhCryptClientService: an array of peers       *)
(* (CVbhPeerConnectSessionSummaryInfo), each with an array of the handlers *)
(* connected to it (CVbhPeerConnectSession), both grown in steps, both     *)
(* filled up from the end when an element leaves, both read round robin    *)
(* from an index that is drawn at random whenever the array changes.       *)
(*                                                                         *)
(* SendMultiEndorseMessage is a loop that takes one handler per round. The *)
(* service is single-threaded, so nothing but a failing send changes the   *)
(* table between two rounds.                                               *)
(***************************************************************************)
EXTENDS Integers, Sequences, FiniteSets, FiniteSetsExt, RoundRobin

CONSTANTS
  Peers, Handlers, PeerOf, EndorseCount,
  Growth,  \* by how much a full array grows (8)
  NULL

ASSUME TableAssumption ==
  /\ PeerOf \in [Handlers -> Peers]
  /\ EndorseCount \in Nat \ {0}
  /\ Growth \in Nat \ {0}
  /\ NULL \notin Peers \cup Handlers

VARIABLES
  arrPeer,        \* m_pArrPeerSession; its length is m_nArrayLen
  m_nSessionNum,  \* the number of elements in use
  m_nIndex,       \* the round-robin index over peers, from 0
  connected,      \* the handlers the framework has reported as connected
  sending,        \* TRUE inside the loop of SendMultiEndorseMessage
  taken,          \* the handlers the loop has taken, in order
  peerUse,        \* history: picks of each peer since its array changed
  handlerUse      \* history: picks of each handler since its array changed

vars == <<arrPeer, m_nSessionNum, m_nIndex, connected, sending, taken, peerUse,
          handlerUse>>

\* m_nPeerID, m_ppVbhClientServiceHandler (as long as m_nArrayLen),
\* m_nHandlerNum and m_nIndex.
EmptySession == [id |-> NULL, arr |-> <<>>, num |-> 0, index |-> 0]

Grown(arr, filler) == arr \o [i \in 1 .. Growth |-> filler]

FindSession(p) == {i \in 1 .. m_nSessionNum : arrPeer[i].id = p}
-----------------------------------------------------------------------------
(* CVbhPeerConnectSession. A random index is a choice: each operator yields *)
(* the set of results.                                                      *)

AddHandler(s, h) ==
  LET arr == IF s.num = Len(s.arr) THEN Grown(s.arr, NULL) ELSE s.arr
  IN  {[s EXCEPT !.arr = [arr EXCEPT ![s.num + 1] = h], !.num = s.num + 1,
                 !.index = k] : k \in 0 .. s.num}

\* The last element takes the place of the removed one and is left behind.
MutantRemoveHandler(s, h) == {[s EXCEPT !.num = s.num - 1]}

RemoveHandler(s, h) ==
  LET pos == {i \in 1 .. s.num : s.arr[i] = h}
  IN  IF pos = {} THEN {s}
      ELSE {[s EXCEPT !.arr[Min(pos)] = s.arr[s.num], !.num = s.num - 1,
                      !.index = k] :
              k \in IF s.num > 1 THEN 0 .. s.num - 2 ELSE {s.index}}
-----------------------------------------------------------------------------
(* CVbhPeerConnectSessionSummaryInfo. *)

\* The next element is handed out as it is; the caller writes its id.
\* Yields triples: the array, the index, the position of the element.
AllocSession ==
  LET arr == IF m_nSessionNum = Len(arrPeer) THEN Grown(arrPeer, EmptySession)
             ELSE arrPeer
  IN  {<<arr, k, m_nSessionNum + 1>> : k \in 0 .. m_nSessionNum}

\* MoveCopy empties its source, also when source and target are the same.
Freed(arr, pos) ==
  [arr EXCEPT ![pos] = arr[m_nSessionNum], ![m_nSessionNum] = EmptySession]

FreeSession(arr, pos, index) ==
  {<<Freed(arr, pos), k>> :
     k \in IF m_nSessionNum > 1 THEN 0 .. m_nSessionNum - 2 ELSE {index}}

\* The step ++m_nIndex with its wrap: an index over num elements.
Advance(index, num) == IF index + 1 >= num THEN 0 ELSE index + 1
-----------------------------------------------------------------------------
(* The history of picks, relative to the least used member of a group. *)

Count(use, x, group) ==
  LET more == [use EXCEPT ![x] = @ + 1]
      least == Min({more[y] : y \in group})
  IN  [y \in DOMAIN use |-> IF y \in group THEN more[y] - least ELSE more[y]]

Forget(use, group) == [x \in DOMAIN use |-> IF x \in group THEN 0 ELSE use[x]]

ConnectedTo(p) == {h \in connected : PeerOf[h] = p}

Range1(arr, num) == {arr[i] : i \in 1 .. num}
-----------------------------------------------------------------------------
Init ==
  /\ arrPeer = <<>>
  /\ m_nSessionNum = 0
  /\ m_nIndex = 0
  /\ connected = {}
  /\ sending = FALSE
  /\ taken = <<>>
  /\ peerUse = [p \in Peers |-> 0]
  /\ handlerUse = [h \in Handlers |-> 0]

\* The framework reports a new connection.
NewPeer(h) ==
  /\ FindSession(PeerOf[h]) = {}
  /\ \E t \in AllocSession :
       \E s \in AddHandler([t[1][t[3]] EXCEPT !.id = PeerOf[h]], h) :
         /\ arrPeer' = [t[1] EXCEPT ![t[3]] = s]
         /\ m_nIndex' = t[2]
  /\ m_nSessionNum' = m_nSessionNum + 1
  /\ peerUse' = Forget(peerUse, Peers)

KnownPeer(h) ==
  /\ \E i \in FindSession(PeerOf[h]) :
       \E s \in AddHandler(arrPeer[i], h) : arrPeer' = [arrPeer EXCEPT ![i] = s]
  /\ UNCHANGED <<m_nSessionNum, m_nIndex, peerUse>>

OnConnectedNodify(h) ==
  /\ ~sending
  /\ h \notin connected
  /\ connected' = connected \cup {h}
  /\ NewPeer(h) \/ KnownPeer(h)
  /\ handlerUse' = Forget(handlerUse, {g \in Handlers : PeerOf[g] = PeerOf[h]})
  /\ UNCHANGED <<sending, taken>>

\* RemoveHandler, and FreeSession when the peer has no handler left; index and
\* use are the peer index and the picks of peers at that moment.
Remove(h, arr, index, use) ==
  \E i \in FindSession(PeerOf[h]) : \E s \in RemoveHandler(arr[i], h) :
    LET without == [arr EXCEPT ![i] = s]
    IN  IF s.num = 0
        THEN /\ \E t \in FreeSession(without, i, index) : arrPeer' = t[1] /\ m_nIndex' = t[2]
             /\ m_nSessionNum' = m_nSessionNum - 1
             /\ peerUse' = Forget(peerUse, Peers)
        ELSE /\ arrPeer' = without
             /\ m_nIndex' = index
             /\ peerUse' = use
             /\ UNCHANGED m_nSessionNum

LoseConnection(h, arr, index, use) ==
  /\ connected' = connected \ {h}
  /\ Remove(h, arr, index, use)
  /\ handlerUse' = Forget(handlerUse, {g \in Handlers : PeerOf[g] = PeerOf[h]})

OnNetworkError(h) ==
  /\ ~sending
  /\ h \in connected
  /\ LoseConnection(h, arrPeer, m_nIndex, peerUse)
  /\ UNCHANGED <<sending, taken>>

\* GetMcpHandler(nPeerID): the next handler of that peer, for a query.
GetMcpHandlerOf(p) ==
  /\ ~sending
  /\ \E i \in FindSession(p) :
       LET k == Advance(arrPeer[i].index, arrPeer[i].num)
       IN  /\ arrPeer' = [arrPeer EXCEPT ![i].index = k]
           /\ handlerUse' = Count(handlerUse, arrPeer[i].arr[k + 1], ConnectedTo(p))
  /\ UNCHANGED <<m_nSessionNum, m_nIndex, connected, sending, taken, peerUse>>

\* GetMcpHandler(): the next handler of the next peer. The new indices, and
\* the handler they select.
NextPeer == Advance(m_nIndex, m_nSessionNum)

MutantNextHandler == arrPeer[NextPeer + 1].index
NextHandler ==
  Advance(arrPeer[NextPeer + 1].index, arrPeer[NextPeer + 1].num)

GetMcpHandler == arrPeer[NextPeer + 1].arr[NextHandler + 1]

Moved == [arrPeer EXCEPT ![NextPeer + 1].index = NextHandler]

PeerPicked == Count(peerUse, PeerOf[GetMcpHandler], {PeerOf[h] : h \in connected})

\* The test at the head of the two OnDscMsg, then the loop begins.
MutantBeginSend ==
  /\ ~sending
  /\ m_nSessionNum >= EndorseCount - 1
  /\ sending' = TRUE
  /\ taken' = <<>>
  /\ UNCHANGED <<arrPeer, m_nSessionNum, m_nIndex, connected, peerUse, handlerUse>>

BeginSend ==
  /\ ~sending
  /\ m_nSessionNum >= EndorseCount
  /\ sending' = TRUE
  /\ taken' = <<>>
  /\ UNCHANGED <<arrPeer, m_nSessionNum, m_nIndex, connected, peerUse, handlerUse>>

SendNext ==
  /\ sending
  /\ Len(taken) < EndorseCount
  /\ arrPeer' = Moved
  /\ m_nIndex' = NextPeer
  /\ taken' = Append(taken, GetMcpHandler)
  /\ peerUse' = PeerPicked
  /\ handlerUse' = Count(handlerUse, GetMcpHandler, ConnectedTo(PeerOf[GetMcpHandler]))
  /\ UNCHANGED <<m_nSessionNum, connected, sending>>

\* SendHtsMsg fails: the handler is removed and the loop is left.
SendFails ==
  /\ sending
  /\ Len(taken) < EndorseCount
  /\ LoseConnection(GetMcpHandler, Moved, NextPeer, PeerPicked)
  /\ sending' = FALSE
  /\ taken' = <<>>

EndSend ==
  /\ sending
  /\ Len(taken) = EndorseCount
  /\ sending' = FALSE
  /\ taken' = <<>>
  /\ UNCHANGED <<arrPeer, m_nSessionNum, m_nIndex, connected, peerUse, handlerUse>>

Next ==
  \/ \E h \in Handlers : OnConnectedNodify(h) \/ OnNetworkError(h)
  \/ \E p \in Peers : GetMcpHandlerOf(p)
  \/ BeginSend \/ SendNext \/ SendFails \/ EndSend

Spec == Init /\ [][Next]_vars
-----------------------------------------------------------------------------
\* The two arrays hold exactly the connections there are, within their
\* allocated lengths: a peer is listed once if and only if it has a
\* connection, and its handlers are listed once each, none of another peer
\* and none that is gone. Elements that are handed out again and holes that
\* are filled from the end leave nothing behind.
TableExact ==
  /\ m_nSessionNum \in 0 .. Len(arrPeer)
  /\ \A i \in 1 .. m_nSessionNum : arrPeer[i].num \in 1 .. Len(arrPeer[i].arr)
  /\ {arrPeer[i].id : i \in 1 .. m_nSessionNum} = {PeerOf[h] : h \in connected}
  /\ \A i, j \in 1 .. m_nSessionNum : arrPeer[i].id = arrPeer[j].id => i = j
  /\ \A i \in 1 .. m_nSessionNum :
       /\ Range1(arrPeer[i].arr, arrPeer[i].num) = ConnectedTo(arrPeer[i].id)
       /\ arrPeer[i].num = Cardinality(ConnectedTo(arrPeer[i].id))

\* "Sessions are sent evenly": as long as the arrays do not change, no peer,
\* and no handler of a peer, is picked more than once more than another.
EvenlySpread ==
  /\ \A h \in connected : peerUse[PeerOf[h]] <= 1
  /\ \A g, h \in connected :
       PeerOf[g] = PeerOf[h] =>
         handlerUse[g] - handlerUse[h] \in -1 .. 1
-----------------------------------------------------------------------------
(* The inductive invariant behind the three. *)

PeerSession ==
  [id : Peers \cup {NULL}, arr : Seq(Handlers \cup {NULL}), num : Nat, index : Nat]

TypeOK ==
  /\ arrPeer \in Seq(PeerSession)
  /\ m_nSessionNum \in Nat /\ m_nIndex \in Nat
  /\ connected \in SUBSET Handlers
  /\ sending \in BOOLEAN
  /\ taken \in Seq(Handlers)
  /\ peerUse \in [Peers -> Nat]
  /\ handlerUse \in [Handlers -> Nat]

\* A session lists the handlers of C, each once.
ListsOf(s, C) ==
  /\ IsFiniteSet(C) /\ s.num = Cardinality(C) /\ s.num <= Len(s.arr)
  /\ Range1(s.arr, s.num) = C
  /\ \A k, l \in 1 .. s.num : s.arr[k] = s.arr[l] => k = l

\* TableExact, the range of every index, and the state of the elements that
\* are not in use: AllocSession hands them out as they are.
TableInv ==
  /\ m_nSessionNum <= Len(arrPeer)
  /\ m_nSessionNum > 0 => m_nIndex < m_nSessionNum
  /\ \A i \in 1 .. m_nSessionNum :
       LET s == arrPeer[i]
       IN  /\ s.id \in Peers /\ s.index < s.num
           /\ ListsOf(s, ConnectedTo(s.id))
  /\ \A i \in m_nSessionNum + 1 .. Len(arrPeer) : arrPeer[i] = EmptySession
  /\ \A i, j \in 1 .. m_nSessionNum : arrPeer[i].id = arrPeer[j].id => i = j
  /\ \A h \in connected : FindSession(PeerOf[h]) # {}

PeersEven ==
  m_nSessionNum > 0 =>
    Even(peerUse, [i \in 1 .. m_nSessionNum |-> arrPeer[i].id], m_nIndex + 1, m_nSessionNum)

HandlersEven ==
  \A i \in 1 .. m_nSessionNum :
    Even(handlerUse, arrPeer[i].arr, arrPeer[i].index + 1, arrPeer[i].num)

\* A call has taken connected handlers, of the peers picked last, in that
\* order: one round of picks does not come back to a peer.
TakenRun ==
  IF sending
  THEN /\ Len(taken) <= EndorseCount /\ EndorseCount <= m_nSessionNum
       /\ \A i \in 1 .. Len(taken) :
            /\ taken[i] \in connected
            /\ \A k \in FindSession(PeerOf[taken[i]]) :
                 Ago(k, m_nIndex + 1, m_nSessionNum) = Len(taken) - i
  ELSE taken = <<>>

IInv == TypeOK /\ TableInv /\ PeersEven /\ HandlersEven /\ TakenRun
-----------------------------------------------------------------------------
\* The table implements the pool of endorsers: in particular the handlers one
\* call takes are connected and belong to different peers ("GetMcpHandler here
\* never returns null").
Pool == INSTANCE EndorserPool WITH
          up <- connected, serving <- sending,
          got <- {taken[i] : i \in DOMAIN taken}

ImplementsPool == Pool!Spec
=============================================================================
