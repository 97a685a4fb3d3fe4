--------------------------- MODULE ConnTablesProofs ---------------------------
(***************************************************************************)
(* Proofs about the three other parts of MCConnTables: the table of the    *)
(* adapter, the arrays of sessions and the configuration, for any number   *)
(* of peers, connections, sessions and rows.                               *)
(*                                                                         *)
(* Each has an inductive invariant. The adapter's and the configuration's  *)
(* rest on an induction over data: over the number of calls of             *)
(* GetMcpHandler(), and over the rows LoadPeerInfo groups. It is made with *)
(* sets in the place of predicates, from the least element every set of    *)
(* numbers has.                                                            *)
(***************************************************************************)
EXTENDS MCConnTables, PeerConnTableProofs, WellFoundedInduction

(* Induction and recursion over the natural numbers, with sets and functions *)
(* in the place of predicates and operators.                                 *)

LessThan == {ss \in Nat \X Nat : ss[1] < ss[2]}

\* Every set of natural numbers has a least element.
LEMMA LeastNat ==
  ASSUME NEW T, T \subseteq Nat, T # {}
  PROVE  \E n \in T : \A m \in T : n <= m
  <1>1. IsWellFoundedOn(LessThan, Nat)
    BY NatLessThanWellFounded, Zenon DEF OpToRel, LessThan
  <1>2. \E n \in T : \A m \in T : ~(<<m, n>> \in LessThan)
    BY <1>1, WFMin
  <1>3. PICK n \in T : \A m \in T : ~(<<m, n>> \in LessThan)
    BY <1>2
  <1>4. \A m \in T : ~(m < n)
    BY <1>3 DEF LessThan
  <1> QED BY <1>4

\* A set of natural numbers with 0 and every successor has them all.
LEMMA SetInduction ==
  ASSUME NEW S, 0 \in S, \A n \in Nat : n \in S => n + 1 \in S
  PROVE  \A n \in Nat : n \in S
  <1> DEFINE T == Nat \ S
  <1>1. SUFFICES ASSUME T # {} PROVE FALSE
    OBVIOUS
  <1>2. T \subseteq Nat
    OBVIOUS
  <1>3. \E n \in T : \A m \in T : n <= m
    <2> HIDE DEF T
    <2> QED BY <1>1, <1>2, LeastNat
  <1>4. PICK n \in T : \A m \in T : n <= m
    BY <1>3
  <1>5. n - 1 \in Nat
    BY <1>4
  <1>6. n - 1 \in S
    BY <1>4, <1>5
  <1> QED BY <1>4, <1>5, <1>6

\* Every finite set of integers has a greatest element.
LEMMA GreatestUpTo ==
  ASSUME NEW n \in Nat, NEW S, S \subseteq 1 .. n, S # {}
  PROVE  \E m \in S : \A k \in S : k <= m
  <1> DEFINE T == {n - k : k \in S}
  <1>1. T \subseteq Nat /\ T # {}
    <2>1. \A k \in S : n - k \in Nat
      OBVIOUS
    <2>2. PICK k \in S : TRUE
      OBVIOUS
    <2>3. n - k \in T
      BY <2>2
    <2> QED BY <2>1, <2>3
  <1>2. \E m \in T : \A k \in T : m <= k
    <2> HIDE DEF T
    <2> QED BY <1>1, LeastNat
  <1>3. PICK m \in S : \A k \in T : n - m <= k
    BY <1>2
  <1>4. \A k \in S : n - m <= n - k
    BY <1>3
  <1>5. \A k \in S : k <= m
    BY <1>4
  <1> QED BY <1>5

\* A step applied again and again: f[0] = base, f[n] = step[n][f[n - 1]].
Iterates(f, base, step, n) ==
  f[0] = base /\ \A i \in 1 .. n : f[i] = step[i][f[i - 1]]

\* As far as n there is such a sequence of results.
LEMMA IteratesUpTo ==
  ASSUME NEW V, NEW base \in V, NEW step \in [Nat \ {0} -> [V -> V]]
  PROVE  \A n \in Nat : \E f \in [0 .. n -> V] : Iterates(f, base, step, n)
  <1> DEFINE S == {n \in Nat : \E f \in [0 .. n -> V] : Iterates(f, base, step, n)}
  <1>1. 0 \in S
    <2>1. [i \in 0 .. 0 |-> base] \in [0 .. 0 -> V]
      OBVIOUS
    <2>2. Iterates([i \in 0 .. 0 |-> base], base, step, 0)
      BY DEF Iterates
    <2> QED BY <2>1, <2>2
  <1>2. ASSUME NEW n \in Nat, n \in S
        PROVE  n + 1 \in S
    <2>1. PICK f \in [0 .. n -> V] : Iterates(f, base, step, n)
      BY <1>2
    <2> DEFINE g == [i \in 0 .. n + 1 |-> IF i = n + 1 THEN step[n + 1][f[n]] ELSE f[i]]
    <2>2. g \in [0 .. n + 1 -> V]
      BY <2>1
    <2>3. Iterates(g, base, step, n + 1)
      BY <2>1, <2>2 DEF Iterates
    <2> QED BY <2>2, <2>3
  <1>3. \A n \in Nat : n \in S
    <2> HIDE DEF S
    <2> QED BY <1>1, <1>2, SetInduction
  <1> QED BY <1>3

\* Two such sequences agree as far as both go.
LEMMA IteratesUnique ==
  ASSUME NEW V, NEW base \in V, NEW step \in [Nat \ {0} -> [V -> V]],
         NEW n \in Nat, NEW m \in Nat, m <= n, NEW f, NEW g,
         Iterates(f, base, step, m), Iterates(g, base, step, n)
  PROVE  \A i \in 0 .. m : f[i] = g[i]
  <1> DEFINE S == {i \in Nat : i <= m => f[i] = g[i]}
  <1>1. 0 \in S
    BY DEF Iterates
  <1>2. ASSUME NEW i \in Nat, i \in S
        PROVE  i + 1 \in S
    <2>1. SUFFICES ASSUME i + 1 <= m PROVE f[i + 1] = g[i + 1]
      OBVIOUS
    <2>2. f[i] = g[i]
      BY <1>2, <2>1
    <2>3. f[i + 1] = step[i + 1][f[(i + 1) - 1]] /\ g[i + 1] = step[i + 1][g[(i + 1) - 1]]
      BY <2>1 DEF Iterates
    <2>4. (i + 1) - 1 = i
      OBVIOUS
    <2> QED BY <2>2, <2>3, <2>4
  <1>3. \A i \in Nat : i \in S
    <2> HIDE DEF S
    <2> QED BY <1>1, <1>2, SetInduction
  <1> QED BY <1>3

\* A recursive function over the natural numbers exists.
LEMMA IteratesNat ==
  ASSUME NEW V, NEW base \in V, NEW step \in [Nat \ {0} -> [V -> V]]
  PROVE  \E f \in [Nat -> V] : /\ f[0] = base
                               /\ \A n \in Nat \ {0} : f[n] = step[n][f[n - 1]]
  <1> DEFINE upTo == [n \in Nat |-> CHOOSE f \in [0 .. n -> V] : Iterates(f, base, step, n)]
             f == [n \in Nat |-> upTo[n][n]]
  <1>1. \A n \in Nat : upTo[n] \in [0 .. n -> V] /\ Iterates(upTo[n], base, step, n)
    BY IteratesUpTo
  <1> HIDE DEF upTo
  <1>2. f \in [Nat -> V]
    BY <1>1
  <1>3. f[0] = base
    BY <1>1 DEF Iterates
  <1>4. ASSUME NEW n \in Nat \ {0}
        PROVE  f[n] = step[n][f[n - 1]]
    <2>1. n - 1 \in Nat /\ n - 1 <= n
      OBVIOUS
    <2>2. upTo[n][n] = step[n][upTo[n][n - 1]]
      BY <1>1 DEF Iterates
    <2>3. upTo[n - 1][n - 1] = upTo[n][n - 1]
      BY <1>1, <2>1, IteratesUnique
    <2> QED BY <2>1, <2>2, <2>3
  <1> QED BY <1>2, <1>3, <1>4

(* The adapter's table. *)

ATable == [peers : Seq(Adapter!PeerSession), index : Nat]

\* A table with the peers and handlers of the adapter's, at other indices.
LikeInfo(a) ==
  /\ a \in ATable
  /\ Len(a.peers) = Len(info.peers)
  /\ \A i \in 1 .. Len(info.peers) :
       a.peers[i].id = info.peers[i].id /\ a.peers[i].hs = info.peers[i].hs

\* The element a round robin at index takes next, from 1, and the one it took
\* last.
NextElement(index, n) == IF index >= n THEN 1 ELSE index + 1
LastElement(index, n) == IF index = 0 THEN n ELSE index

\* What the type invariant says of the adapter's table.
LEMMA ATyped ==
  ASSUME Adapter!TypeOK
  PROVE  /\ info = [peers |-> info.peers, index |-> info.index]
         /\ info.peers \in Seq(Adapter!PeerSession) /\ info.index \in Nat
         /\ Len(info.peers) \in Nat /\ DOMAIN info.peers = 1 .. Len(info.peers)
         /\ \A i \in 1 .. Len(info.peers) :
              /\ info.peers[i] \in Adapter!PeerSession
              /\ info.peers[i].id \in Peers /\ info.peers[i].index \in Nat
              /\ info.peers[i].hs \in Seq(Handlers)
         /\ linked \subseteq Handlers /\ sent \in Seq(Handlers) /\ picks \in [Peers -> Nat]
  <1>1. /\ info \in [peers : Seq(Adapter!PeerSession), index : Nat]
        /\ linked \subseteq Handlers /\ sent \in Seq(Handlers) /\ picks \in [Peers -> Nat]
    BY DEF Adapter!TypeOK
  <1>2. info.peers \in Seq(Adapter!PeerSession) /\ info.index \in Nat
    BY <1>1
  <1>3. \A i \in 1 .. Len(info.peers) : info.peers[i] \in Adapter!PeerSession
    BY <1>2
  <1>4. \A s \in Adapter!PeerSession : s.id \in Peers /\ s.index \in Nat /\ s.hs \in Seq(Handlers)
    BY DEF Adapter!PeerSession
  <1> QED BY <1>1, <1>2, <1>3, <1>4, LenProperties

\* The handlers of an element are those of its peer, and there is one.
LEMMA AListed ==
  ASSUME Adapter!TypeOK, Adapter!PeersListed, NEW i \in 1 .. Len(info.peers)
  PROVE  /\ info.peers[i].hs # <<>> /\ Len(info.peers[i].hs) \in Nat \ {0}
         /\ \A k \in 1 .. Len(info.peers[i].hs) :
              /\ info.peers[i].hs[k] \in linked
              /\ PeerOf[info.peers[i].hs[k]] = info.peers[i].id
  <1> DEFINE s == info.peers[i]
  <1>1. /\ DOMAIN info.peers = 1 .. Len(info.peers)
        /\ s.id \in Peers /\ s.hs \in Seq(Handlers)
    BY ATyped
  <1>2. s.id \in Adapter!ConnectedPeers
    BY <1>1 DEF Adapter!PeersListed
  <1>3. PICK h \in linked : PeerOf[h] = s.id
    BY <1>2 DEF Adapter!ConnectedPeers
  <1>4. {s.hs[k] : k \in DOMAIN s.hs} = {g \in linked : PeerOf[g] = s.id}
    BY <1>1 DEF Adapter!PeersListed, Adapter!ToSet
  <1> HIDE DEF s
  <1>5. DOMAIN s.hs = 1 .. Len(s.hs) /\ Len(s.hs) \in Nat
    BY <1>1
  <1>6. PICK l \in DOMAIN s.hs : s.hs[l] = h
    BY <1>3, <1>4
  <1>7. s.hs # <<>> /\ Len(s.hs) # 0
    BY <1>5, <1>6
  <1>8. \A k \in 1 .. Len(s.hs) : s.hs[k] \in linked /\ PeerOf[s.hs[k]] = s.id
    BY <1>4, <1>5
  <1> QED BY <1>5, <1>7, <1>8 DEF s

\* One call of GetMcpHandler() yields a connected handler of the next peer.
LEMMA GetMcpHandlerYields ==
  ASSUME Adapter!TypeOK, Adapter!PeersListed, info.peers # <<>>, NEW a, LikeInfo(a)
  PROVE  LET n == Len(info.peers)
             q == NextElement(a.index, n)
             g == Adapter!GetMcpHandler(a)
         IN  /\ n \in Nat \ {0} /\ q \in 1 .. n
             /\ LikeInfo(g.info) /\ g.info.index = q
             /\ g.h \in linked /\ g.h \in Handlers /\ PeerOf[g.h] = info.peers[q].id
  <1> DEFINE n == Len(info.peers)
             q == NextElement(a.index, n)
             s == a.peers[q]
             k == Adapter!InRange(s.index, Len(s.hs))
             e == [s EXCEPT !.index = k + 1]
             peers == [a.peers EXCEPT ![q] = e]
  <1>1. n \in Nat \ {0}
    BY ATyped, EmptySeq
  <1>2. /\ a.peers \in Seq(Adapter!PeerSession) /\ a.index \in Nat /\ Len(a.peers) = n
        /\ \A i \in 1 .. n : a.peers[i].id = info.peers[i].id /\ a.peers[i].hs = info.peers[i].hs
    BY DEF LikeInfo, ATable
  <1>3. q \in 1 .. n /\ Adapter!InRange(a.index, Len(a.peers)) + 1 = q
    BY <1>1, <1>2 DEF NextElement, Adapter!InRange
  <1>4. /\ s \in Adapter!PeerSession /\ s.id = info.peers[q].id /\ s.hs = info.peers[q].hs
        /\ s.index \in Nat
    <2>1. s \in Adapter!PeerSession
      BY <1>2, <1>3
    <2>2. \A x \in Adapter!PeerSession : x.index \in Nat
      BY DEF Adapter!PeerSession
    <2> HIDE DEF s
    <2>3. s.index \in Nat
      BY <2>1, <2>2
    <2> QED BY <1>2, <1>3, <2>1, <2>3 DEF s
  <1>5. /\ Len(s.hs) \in Nat \ {0}
        /\ \A l \in 1 .. Len(s.hs) : s.hs[l] \in linked /\ PeerOf[s.hs[l]] = info.peers[q].id
    BY <1>3, <1>4, AListed
  <1>6. k \in Nat /\ k + 1 \in 1 .. Len(s.hs)
    BY <1>4, <1>5 DEF Adapter!InRange
  <1>7. e \in Adapter!PeerSession /\ e.id = s.id /\ e.hs = s.hs
    BY <1>4, <1>6 DEF Adapter!PeerSession
  <1>8. Adapter!GetMcpHandler(a) = [h |-> s.hs[k + 1], info |-> [peers |-> peers, index |-> q]]
    <2>1. [a.peers EXCEPT ![Adapter!InRange(a.index, Len(a.peers)) + 1].index = k + 1] = peers
      BY <1>3
    <2> QED BY <1>3, <2>1 DEF Adapter!GetMcpHandler
  <1> HIDE DEF n, q, s, k, e
  <1>9. /\ peers \in Seq(Adapter!PeerSession) /\ Len(peers) = n
        /\ \A i \in 1 .. n : peers[i] = IF i = q THEN e ELSE a.peers[i]
    BY <1>2, <1>3, <1>7, ExceptSeq
  <1>10. \A i \in 1 .. n : peers[i].id = info.peers[i].id /\ peers[i].hs = info.peers[i].hs
    BY <1>2, <1>3, <1>4, <1>7, <1>9
  <1> DEFINE b == [peers |-> peers, index |-> q]
  <1>11. LikeInfo(b)
    <2> HIDE DEF peers
    <2> QED BY <1>1, <1>3, <1>9, <1>10 DEF LikeInfo, ATable, n
  <1>12. s.hs[k + 1] \in linked /\ PeerOf[s.hs[k + 1]] = info.peers[q].id
    BY <1>5, <1>6
  <1>13. linked \subseteq Handlers
    BY ATyped
  <1> HIDE DEF peers, b
  <1>14. Adapter!GetMcpHandler(a).info = b /\ b.index = q /\ Adapter!GetMcpHandler(a).h = s.hs[k + 1]
    BY <1>8 DEF b
  <1> QED BY <1>1, <1>3, <1>11, <1>12, <1>13, <1>14 DEF n, q

\* What n calls yield is well defined: a recursive function over numbers.
LEMMA PickedIs ==
  ASSUME Adapter!TypeOK, Adapter!PeersListed, info.peers # <<>>
  PROVE  /\ Adapter!Picked[0] = [hs |-> <<>>, info |-> info]
         /\ \A n \in Nat \ {0} :
              LET v == Adapter!Picked[n - 1]
                  g == Adapter!GetMcpHandler(v.info)
              IN  Adapter!Picked[n] = [hs |-> Append(v.hs, g.h), info |-> g.info]
  <1> DEFINE V == [hs : Seq(Handlers), info : {a \in ATable : LikeInfo(a)}]
             base == [hs |-> <<>>, info |-> info]
             Next1(v) == [hs |-> Append(v.hs, Adapter!GetMcpHandler(v.info).h),
                          info |-> Adapter!GetMcpHandler(v.info).info]
             step == [n \in Nat \ {0} |-> [v \in V |-> Next1(v)]]
             Solves(f) == f = [n \in Nat |-> IF n = 0 THEN base ELSE Next1(f[n - 1])]
  <1>1. base \in V
    <2>1. info \in ATable
      BY DEF Adapter!TypeOK, ATable
    <2>2. LikeInfo(info)
      BY <2>1 DEF LikeInfo
    <2>3. <<>> \in Seq(Handlers)
      BY EmptySeq
    <2> QED BY <2>1, <2>2, <2>3
  <1>2. ASSUME NEW v \in V
        PROVE  Next1(v) \in V
    <2>1. v.hs \in Seq(Handlers) /\ v.info \in ATable /\ LikeInfo(v.info)
      OBVIOUS
    <2>2. /\ LikeInfo(Adapter!GetMcpHandler(v.info).info)
          /\ Adapter!GetMcpHandler(v.info).h \in Handlers
      BY <2>1, GetMcpHandlerYields
    <2>3. Adapter!GetMcpHandler(v.info).info \in ATable
      BY <2>2 DEF LikeInfo
    <2>4. Append(v.hs, Adapter!GetMcpHandler(v.info).h) \in Seq(Handlers)
      BY <2>1, <2>2, AppendProperties
    <2> QED BY <2>2, <2>3, <2>4
  <1>3. step \in [Nat \ {0} -> [V -> V]]
    BY <1>2
  <1>4. PICK f \in [Nat -> V] : f[0] = base /\ \A n \in Nat \ {0} : f[n] = step[n][f[n - 1]]
    <2> HIDE DEF step, base, V
    <2> QED BY <1>1, <1>3, IteratesNat
  <1>5. Solves(f)
    <2>1. ASSUME NEW n \in Nat
          PROVE  f[n] = IF n = 0 THEN base ELSE Next1(f[n - 1])
      <3>1. CASE n = 0
        BY <1>4, <3>1
      <3>2. CASE n # 0
        <4>1. n \in Nat \ {0} /\ f[n - 1] \in V
          BY <1>4, <3>2
        <4> HIDE DEF V, Next1
        <4> QED BY <1>4, <4>1, <3>2
      <3> QED BY <3>1, <3>2
    <2> HIDE DEF base, V, Next1
    <2> QED BY <1>4, <2>1
  <1>6. Adapter!Picked = CHOOSE g : Solves(g)
    BY Zenon DEF Adapter!Picked
  <1>7. Solves(Adapter!Picked)
    <2> HIDE DEF Solves
    <2> QED BY <1>5, <1>6
  <1>8. /\ Adapter!Picked[0] = base
        /\ \A n \in Nat \ {0} : Adapter!Picked[n] = Next1(Adapter!Picked[n - 1])
    <2>1. \A n \in Nat : Adapter!Picked[n] = IF n = 0 THEN base ELSE Next1(Adapter!Picked[n - 1])
      <3> HIDE DEF base, Next1
      <3> QED BY <1>7, Zenon
    <2> HIDE DEF base, Next1
    <2> QED BY <2>1
  <1> QED BY <1>8

\* How often a peer was picked among handlers.
Times(hs, p) == {i \in DOMAIN hs : PeerOf[hs[i]] = p}

\* One handler more counts for its peer and for no other.
LEMMA TimesMore ==
  ASSUME NEW hs \in Seq(Handlers), NEW h \in Handlers, NEW p
  PROVE  /\ IsFiniteSet(Times(hs, p)) /\ Cardinality(Times(hs, p)) \in Nat
         /\ Cardinality(Times(Append(hs, h), p)) =
              Cardinality(Times(hs, p)) + (IF PeerOf[h] = p THEN 1 ELSE 0)
  <1> DEFINE n == Len(hs)
             more == Append(hs, h)
  <1>1. /\ n \in Nat /\ DOMAIN hs = 1 .. n
        /\ DOMAIN more = 1 .. n + 1 /\ more[n + 1] = h
        /\ \A i \in 1 .. n : more[i] = hs[i]
    BY AppendProperties, LenProperties
  <1> HIDE DEF n, more
  <1>2. IsFiniteSet(Times(hs, p)) /\ Cardinality(Times(hs, p)) \in Nat
    <2>1. IsFiniteSet(1 .. n)
      BY <1>1, FS_Interval
    <2>2. Times(hs, p) \subseteq 1 .. n
      BY <1>1 DEF Times
    <2> QED BY <2>1, <2>2, FS_Subset, FS_CardinalityType
  <1>3. CASE PeerOf[h] = p
    <2>1. Times(more, p) = Times(hs, p) \cup {n + 1} /\ n + 1 \notin Times(hs, p)
      BY <1>1, <1>3 DEF Times
    <2> QED BY <1>2, <1>3, <2>1, FS_AddElement DEF more
  <1>4. CASE PeerOf[h] # p
    <2>1. Times(more, p) = Times(hs, p)
      BY <1>1, <1>4 DEF Times
    <2> QED BY <1>2, <1>4, <2>1 DEF more
  <1> QED BY <1>2, <1>3, <1>4

\* What n calls have yielded: connected handlers, the last of them of the peers
\* passed last and in that order, and the picks of the peers are still even.
Passed(v, n) ==
  LET size == Len(info.peers)
      p == LastElement(v.info.index, size)
  IN  \A i \in 1 .. n : n - i < size =>
        \E k \in 1 .. size : PeerOf[v.hs[i]] = info.peers[k].id /\ Ago(k, p, size) = n - i

EvenAfter(v) ==
  LET size == Len(info.peers)
      p == LastElement(v.info.index, size)
  IN  \E base \in Nat, j \in 0 .. size - 1 : \A k \in 1 .. size :
        picks[info.peers[k].id] + Cardinality(Times(v.hs, info.peers[k].id)) =
          base + (IF Ago(k, p, size) < j THEN 1 ELSE 0)

RunOf(v, n) ==
  /\ v.hs \in Seq(Handlers) /\ Len(v.hs) = n
  /\ \A i \in 1 .. n : v.hs[i] \in linked
  /\ LikeInfo(v.info) /\ v.info.index <= Len(info.peers) /\ (n > 0 => v.info.index > 0)
  /\ Passed(v, n)
  /\ EvenAfter(v)

\* Before the first call nothing is passed.
LEMMA RunStarts ==
  ASSUME Adapter!TypeOK, Adapter!PeersListed, Adapter!PicksRun, info.peers # <<>>
  PROVE  RunOf([hs |-> <<>>, info |-> info], 0)
  <1> DEFINE v == [hs |-> <<>>, info |-> info]
             n == Len(info.peers)
             f == [i \in DOMAIN info.peers |-> info.peers[i].id]
  <1>1. v.hs = <<>> /\ v.info = info
    OBVIOUS
  <1>2. info.peers \in Seq(Adapter!PeerSession) /\ info.index \in Nat /\ DOMAIN info.peers = 1 .. n
        /\ picks \in [Peers -> Nat] /\ n \in Nat \ {0}
        /\ \A i \in 1 .. n : info.peers[i].id \in Peers
    BY ATyped, EmptySeq
  <1> HIDE DEF v
  <1>3. v.hs \in Seq(Handlers) /\ Len(v.hs) = 0
    BY <1>1, EmptySeq
  <1>4. LikeInfo(v.info) /\ v.info.index <= Len(info.peers)
    BY <1>1 DEF LikeInfo, ATable, Adapter!TypeOK, Adapter!PicksRun
  <1>5. Passed(v, 0)
    BY DEF Passed
  <1>6. EvenAfter(v)
    <2>1. Adapter!Even(picks, f, Adapter!LastPicked, n)
      BY DEF Adapter!PicksRun
    <2>2. Adapter!LastPicked = LastElement(v.info.index, n)
      BY <1>1 DEF Adapter!LastPicked, LastElement
    <2>3. PICK j \in 0 .. n - 1 : \A i \in 1 .. n :
            picks[f[i]] = IF Ago(i, LastElement(v.info.index, n), n) < j THEN 1 ELSE 0
      <3> HIDE DEF f, n
      <3> QED BY <2>1, <2>2 DEF Adapter!Even, Adapter!Ago, Ago
    <2>4. ASSUME NEW p
          PROVE  Cardinality(Times(v.hs, p)) = 0
      <3>1. DOMAIN v.hs = {}
        BY <1>1
      <3>2. Times(v.hs, p) = {}
        BY <3>1 DEF Times
      <3> QED BY <3>2, FS_EmptySet
    <2>5. ASSUME NEW k \in 1 .. n
          PROVE  picks[info.peers[k].id] + Cardinality(Times(v.hs, info.peers[k].id)) =
                   0 + (IF Ago(k, LastElement(v.info.index, n), n) < j THEN 1 ELSE 0)
      <3>1. f[k] = info.peers[k].id
        BY <1>2
      <3>2. picks[f[k]] = IF Ago(k, LastElement(v.info.index, n), n) < j THEN 1 ELSE 0
        BY <2>3
      <3>3. Cardinality(Times(v.hs, info.peers[k].id)) = 0
        BY <2>4
      <3> HIDE DEF f, n
      <3> QED BY <3>1, <3>2, <3>3
    <2>6. \A k \in 1 .. n : picks[info.peers[k].id] + Cardinality(Times(v.hs, info.peers[k].id)) =
                   0 + (IF Ago(k, LastElement(v.info.index, n), n) < j THEN 1 ELSE 0)
      BY <2>5
    <2> HIDE DEF f
    <2> QED BY <2>6 DEF EvenAfter
  <1> QED BY <1>3, <1>4, <1>5, <1>6 DEF RunOf, v

\* One call more passes the next peer.
LEMMA RunGoesOn ==
  ASSUME Adapter!TypeOK, Adapter!PeersListed, info.peers # <<>>,
         NEW n \in Nat, NEW v, RunOf(v, n)
  PROVE  LET g == Adapter!GetMcpHandler(v.info)
         IN  RunOf([hs |-> Append(v.hs, g.h), info |-> g.info], n + 1)
  <1> DEFINE size == Len(info.peers)
             p == LastElement(v.info.index, size)
             g == Adapter!GetMcpHandler(v.info)
             q == NextElement(v.info.index, size)
             w == [hs |-> Append(v.hs, g.h), info |-> g.info]
  <1>1. /\ size \in Nat \ {0} /\ q \in 1 .. size
        /\ LikeInfo(g.info) /\ g.info.index = q
        /\ g.h \in linked /\ g.h \in Handlers /\ PeerOf[g.h] = info.peers[q].id
    BY GetMcpHandlerYields DEF RunOf
  <1>2. v.info.index \in Nat /\ v.info.index <= size
    BY DEF RunOf, LikeInfo, ATable
  <1>3. p \in 1 .. size /\ q = IF p = size THEN 1 ELSE p + 1
    BY <1>1, <1>2 DEF LastElement, NextElement
  <1>4. w.hs = Append(v.hs, g.h) /\ w.info = g.info /\ LastElement(w.info.index, size) = q
    BY <1>1 DEF LastElement
  <1> HIDE DEF w, g, p, q
  <1>5. /\ v.hs \in Seq(Handlers) /\ Len(v.hs) = n
        /\ \A i \in 1 .. n : v.hs[i] \in linked
        /\ Passed(v, n) /\ EvenAfter(v)
    BY DEF RunOf
  <1>6. /\ w.hs \in Seq(Handlers) /\ Len(w.hs) = n + 1
        /\ w.hs[n + 1] = g.h /\ \A i \in 1 .. n : w.hs[i] = v.hs[i]
    BY <1>1, <1>4, <1>5, AppendProperties
  <1>7. \A i \in 1 .. n + 1 : w.hs[i] \in linked
    BY <1>1, <1>5, <1>6
  <1>8. /\ q \in 1 .. size /\ Ago(q, p, size) = size - 1 /\ Ago(q, q, size) = 0
        /\ \A i \in 1 .. size : /\ Ago(i, p, size) \in 0 .. size - 1
                                /\ i # q => Ago(i, p, size) < size - 1
                                /\ i # q => Ago(i, q, size) = Ago(i, p, size) + 1
    BY <1>1, <1>3, AgoNext
  <1>9. Passed(w, n + 1)
    <2> HIDE DEF size
    <2>1. ASSUME NEW i \in 1 .. n + 1, (n + 1) - i < size
          PROVE  \E k \in 1 .. size : /\ PeerOf[w.hs[i]] = info.peers[k].id
                                      /\ Ago(k, q, size) = (n + 1) - i
      <3>1. CASE i = n + 1
        BY <1>1, <1>6, <1>8, <3>1
      <3>2. CASE i \in 1 .. n
        <4>1. n - i < size
          BY <1>1, <2>1, <3>2
        <4>2. PICK k \in 1 .. size : PeerOf[v.hs[i]] = info.peers[k].id /\ Ago(k, p, size) = n - i
          BY <1>5, <3>2, <4>1 DEF Passed, size, p
        <4>3. k # q
          BY <1>1, <1>8, <2>1, <3>2, <4>2
        <4> QED BY <1>6, <1>8, <3>2, <4>2, <4>3
      <3> QED BY <3>1, <3>2
    <2> QED BY <1>4, <2>1 DEF Passed, size
  <1>10. EvenAfter(w)
    <2> DEFINE id(k) == info.peers[k].id
               C(hs, k) == Cardinality(Times(hs, id(k)))
    <2>1. PICK base \in Nat, j \in 0 .. size - 1 : \A k \in 1 .. size :
            picks[id(k)] + C(v.hs, k) = base + (IF Ago(k, p, size) < j THEN 1 ELSE 0)
      BY <1>5 DEF EvenAfter, p
    <2>2. \A k \in 1 .. size : picks[id(k)] \in Nat /\ C(v.hs, k) \in Nat
      BY <1>1, <1>5, ATyped, TimesMore
    <2>3. ASSUME NEW k \in 1 .. size
          PROVE  C(w.hs, k) = C(v.hs, k) + (IF k = q THEN 1 ELSE 0)
      <3>1. C(w.hs, k) = C(v.hs, k) + (IF PeerOf[g.h] = id(k) THEN 1 ELSE 0)
        BY <1>1, <1>4, <1>5, TimesMore
      <3>2. id(q) = id(k) => q = k
        BY <1>1, ATyped DEF Adapter!PeersListed
      <3> HIDE DEF C
      <3> QED BY <1>1, <3>1, <3>2
    <2> HIDE DEF C, id, size
    <2>4. \A k \in 1 .. size : picks[id(k)] + C(w.hs, k) =
            base + (IF k = q \/ Ago(k, p, size) < j THEN 1 ELSE 0)
      BY <1>8, <2>1, <2>2, <2>3, SMTT(40)
    <2>5. \E b \in Nat, i \in 0 .. size - 1 : \A k \in 1 .. size :
            picks[id(k)] + C(w.hs, k) = b + (IF Ago(k, q, size) < i THEN 1 ELSE 0)
      <3> DEFINE Spread == \E b \in Nat, i \in 0 .. size - 1 : \A k \in 1 .. size :
                   picks[id(k)] + C(w.hs, k) = b + (IF Ago(k, q, size) < i THEN 1 ELSE 0)
      <3> SUFFICES Spread
        OBVIOUS
      <3>1. CASE j = size - 1
        <4>1. \A k \in 1 .. size : picks[id(k)] + C(w.hs, k) =
                (base + 1) + (IF Ago(k, q, size) < 0 THEN 1 ELSE 0)
          <5>1. \A k \in 1 .. size : k = q \/ Ago(k, p, size) < j
            BY <1>8, <3>1
          <5>2. \A k \in 1 .. size : ~(Ago(k, q, size) < 0)
            BY <1>8
          <5> QED BY <2>4, <5>1, <5>2
        <4>2. base + 1 \in Nat /\ 0 \in 0 .. size - 1
          BY <1>1
        <4> QED BY <4>1, <4>2
      <3>2. CASE j < size - 1
        <4>1. \A k \in 1 .. size : (k = q \/ Ago(k, p, size) < j) <=> Ago(k, q, size) < j + 1
          BY <1>1, <1>8, <3>2
        <4>2. j + 1 \in 0 .. size - 1
          BY <1>1, <3>2
        <4>3. \A k \in 1 .. size : picks[id(k)] + C(w.hs, k) =
                base + (IF Ago(k, q, size) < j + 1 THEN 1 ELSE 0)
          BY <2>4, <4>1
        <4> QED BY <4>2, <4>3
      <3>3. j = size - 1 \/ j < size - 1
        BY <1>1
      <3> HIDE DEF Spread
      <3> QED BY <3>1, <3>2, <3>3
    <2> QED BY <1>4, <2>5 DEF EvenAfter, C, id, size
  <1>11. w.info.index <= size /\ w.info.index > 0 /\ LikeInfo(w.info)
    BY <1>1, <1>4
  <1>12. RunOf(w, n + 1)
    BY <1>6, <1>7, <1>9, <1>10, <1>11 DEF RunOf
  <1> QED BY <1>12 DEF w, g

\* By induction, n calls have passed the last n peers.
LEMMA PickedRuns ==
  ASSUME Adapter!TypeOK, Adapter!PeersListed, Adapter!PicksRun, info.peers # <<>>
  PROVE  \A n \in Nat : RunOf(Adapter!Picked[n], n)
  <1> DEFINE S == {n \in Nat : RunOf(Adapter!Picked[n], n)}
  <1>1. 0 \in S
    BY PickedIs, RunStarts
  <1>2. ASSUME NEW n \in Nat, n \in S
        PROVE  n + 1 \in S
    <2> DEFINE v == Adapter!Picked[n]
               g == Adapter!GetMcpHandler(v.info)
    <2>1. n + 1 \in Nat \ {0} /\ (n + 1) - 1 = n
      OBVIOUS
    <2>2. Adapter!Picked[n + 1] = [hs |-> Append(v.hs, g.h), info |-> g.info]
      BY <2>1, PickedIs, Zenon
    <2>3. RunOf([hs |-> Append(v.hs, g.h), info |-> g.info], n + 1)
      BY <1>2, RunGoesOn
    <2> QED BY <2>2, <2>3
  <1>3. \A n \in Nat : n \in S
    <2> HIDE DEF S
    <2> QED BY <1>1, <1>2, SetInduction
  <1> QED BY <1>3

(* What the steps of the adapter do to its table. *)

\* The adapter's module counts as this one does.
LEMMA AdapterCounts == \A S : Adapter!Cardinality(S) = Cardinality(S)
  BY DEF Adapter!Cardinality, Cardinality, Adapter!IsFiniteSet, IsFiniteSet

\* The least element of a set that has one.
LEMMA AdapterLeast ==
  ASSUME NEW S, S \subseteq Int, NEW v \in S, \A x \in S : v <= x
  PROVE  Adapter!Min(S) = v
  <1> DEFINE IsLeast(x) == x \in S /\ \A y \in S : x <= y
  <1>1. Adapter!Min(S) = CHOOSE x : IsLeast(x)
    BY DEF Adapter!Min
  <1>2. IsLeast(v)
    OBVIOUS
  <1>3. \A x : IsLeast(x) => x = v
    OBVIOUS
  <1> HIDE DEF IsLeast
  <1> QED BY <1>1, <1>2, <1>3

\* An element's place is taken by the last one.
LEMMA WithoutOne ==
  ASSUME NEW S, NEW seq \in Seq(S), NEW i \in 1 .. Len(seq)
  PROVE  /\ Adapter!Without(seq, i) \in Seq(S)
         /\ Len(Adapter!Without(seq, i)) = Len(seq) - 1
         /\ \A j \in 1 .. Len(seq) - 1 :
              Adapter!Without(seq, i)[j] = IF j = i THEN seq[Len(seq)] ELSE seq[j]
  <1> DEFINE n == Len(seq)
             moved == [seq EXCEPT ![i] = seq[n]]
  <1>1. n \in Nat \ {0} /\ DOMAIN seq = 1 .. n
    BY LenProperties
  <1>2. \A j \in 1 .. n : seq[j] \in S
    BY <1>1
  <1>3. /\ moved \in Seq(S) /\ Len(moved) = n
        /\ \A j \in 1 .. n : moved[j] = IF j = i THEN seq[n] ELSE seq[j]
    BY <1>1, <1>2, ExceptSeq
  <1>4. Adapter!Without(seq, i) = SubSeq(moved, 1, n - 1)
    BY <1>3 DEF Adapter!Without, Adapter!Front, Adapter!Last
  <1> HIDE DEF moved, n
  <1>5. \A j \in 1 .. n - 1 : moved[j] \in S
    BY <1>1, <1>2, <1>3
  <1>6. /\ SubSeq(moved, 1, n - 1) \in Seq(S)
        /\ Len(SubSeq(moved, 1, n - 1)) = n - 1
        /\ \A j \in 1 .. n - 1 : SubSeq(moved, 1, n - 1)[j] = moved[j]
    <2>1. 1 \in Int /\ n - 1 \in Int /\ (1 <= n - 1 => (n - 1) - 1 + 1 = n - 1)
          /\ (~(1 <= n - 1) => n - 1 = 0)
      BY <1>1
    <2>2. /\ SubSeq(moved, 1, n - 1) \in Seq(S)
          /\ Len(SubSeq(moved, 1, n - 1)) = IF 1 <= n - 1 THEN (n - 1) - 1 + 1 ELSE 0
          /\ \A j \in 1 .. (n - 1) - 1 + 1 : SubSeq(moved, 1, n - 1)[j] = moved[1 + j - 1]
      BY <1>5, <2>1, SubSeqProperties
    <2>3. (n - 1) - 1 + 1 = n - 1 /\ \A j \in 1 .. n - 1 : 1 + j - 1 = j
      BY <1>1
    <2> QED BY <2>1, <2>2, <2>3
  <1>7. \A j \in 1 .. n - 1 : moved[j] = IF j = i THEN seq[n] ELSE seq[j]
    BY <1>1, <1>3
  <1> QED BY <1>4, <1>6, <1>7 DEF n

\* Taking one element out of a sequence without duplicates takes it out of the
\* set of elements.
LEMMA WithoutSet ==
  ASSUME NEW S, NEW seq \in Seq(S), NEW i \in 1 .. Len(seq),
         \A j, k \in 1 .. Len(seq) : seq[j] = seq[k] => j = k
  PROVE  LET w == Adapter!Without(seq, i)
         IN  /\ {w[j] : j \in DOMAIN w} = {seq[j] : j \in DOMAIN seq} \ {seq[i]}
             /\ \A j, k \in DOMAIN w : w[j] = w[k] => j = k
  <1> DEFINE n == Len(seq)
             w == Adapter!Without(seq, i)
  <1>1. n \in Nat \ {0} /\ DOMAIN seq = 1 .. n
    BY LenProperties
  <1>2. DOMAIN w = 1 .. n - 1 /\ \A j \in 1 .. n - 1 : w[j] = IF j = i THEN seq[n] ELSE seq[j]
    BY WithoutOne, LenProperties
  <1>0. i \in 1 .. n /\ \A j, k \in 1 .. n : seq[j] = seq[k] => j = k
    OBVIOUS
  <1> HIDE DEF w, n
  <1>3. \A j \in DOMAIN w : \E k \in 1 .. n : k # i /\ w[j] = seq[k]
    <2>1. ASSUME NEW j \in 1 .. n - 1
          PROVE  \E k \in 1 .. n : k # i /\ w[j] = seq[k]
      <3>1. CASE j = i
        <4>1. n \in 1 .. n /\ n # i /\ w[j] = seq[n]
          BY <1>0, <1>1, <1>2, <3>1
        <4> QED BY <4>1
      <3>2. CASE j # i
        <4>1. j \in 1 .. n /\ w[j] = seq[j]
          BY <1>1, <1>2, <3>2
        <4> QED BY <3>2, <4>1
      <3> QED BY <3>1, <3>2
    <2> QED BY <1>2, <2>1
  <1>4. ASSUME NEW k \in 1 .. n, k # i
        PROVE  \E j \in DOMAIN w : w[j] = seq[k]
    <2>1. CASE k = n
      <3>1. i \in 1 .. n - 1 /\ w[i] = seq[k]
        BY <1>0, <1>1, <1>2, <1>4, <2>1
      <3> QED BY <1>2, <3>1
    <2>2. CASE k # n
      <3>1. k \in 1 .. n - 1 /\ w[k] = seq[k]
        BY <1>1, <1>2, <1>4, <2>2
      <3> QED BY <1>2, <3>1
    <2> QED BY <2>1, <2>2
  <1>5. \A x : x \in {w[j] : j \in DOMAIN w} <=> x \in {seq[j] : j \in DOMAIN seq} /\ x # seq[i]
    <2>1. ASSUME NEW j \in DOMAIN w
          PROVE  w[j] \in {seq[k] : k \in DOMAIN seq} /\ w[j] # seq[i]
      <3>1. PICK k \in 1 .. n : k # i /\ w[j] = seq[k]
        BY <1>3
      <3>2. seq[k] # seq[i]
        BY <1>0, <3>1
      <3> QED BY <1>1, <3>1, <3>2
    <2>2. ASSUME NEW k \in DOMAIN seq, seq[k] # seq[i]
          PROVE  seq[k] \in {w[j] : j \in DOMAIN w}
      <3>1. PICK j \in DOMAIN w : w[j] = seq[k]
        BY <1>1, <1>4, <2>2
      <3> QED BY <3>1
    <2> QED BY <2>1, <2>2
  <1>6. \A j, k \in DOMAIN w : w[j] = w[k] => j = k
    <2> SUFFICES ASSUME NEW j \in 1 .. n - 1, NEW k \in 1 .. n - 1, w[j] = w[k]
                 PROVE  j = k
      BY <1>2
    <2>1. /\ n \in 1 .. n /\ j \in 1 .. n /\ k \in 1 .. n /\ j # n /\ k # n
      BY <1>1
    <2>2. (IF j = i THEN n ELSE j) = (IF k = i THEN n ELSE k)
      <3>1. /\ w[j] = seq[IF j = i THEN n ELSE j] /\ w[k] = seq[IF k = i THEN n ELSE k]
            /\ (IF j = i THEN n ELSE j) \in 1 .. n /\ (IF k = i THEN n ELSE k) \in 1 .. n
        BY <1>2, <2>1
      <3> QED BY <1>0, <3>1
    <2> QED BY <2>1, <2>2
  <1> QED BY <1>5, <1>6 DEF w

\* The uses of the peers are even, the round robin being at element p.
EvenPicks(use, peers, p) ==
  \E j \in 0 .. Len(peers) - 1 : \A k \in 1 .. Len(peers) :
    use[peers[k].id] = IF Ago(k, p, Len(peers)) < j THEN 1 ELSE 0

\* The picks of a call, counted, are even again.
LEMMA CallCounted ==
  ASSUME Adapter!TypeOK, Adapter!PeersListed, info.peers # <<>>,
         NEW n \in Nat, NEW v, RunOf(v, n), NEW use, use = Adapter!Counted(picks, v.hs)
  PROVE  /\ use \in [Peers -> Nat]
         /\ EvenPicks(use, info.peers, LastElement(v.info.index, Len(info.peers)))
  <1> DEFINE size == Len(info.peers)
             p == LastElement(v.info.index, size)
             C(y) == Cardinality(Times(v.hs, y))
             more == [y \in Peers |-> picks[y] + C(y)]
             values == {more[y] : y \in Adapter!ConnectedPeers}
  <1>1. use = [y \in Peers |-> IF y \in Adapter!ConnectedPeers
                               THEN more[y] - Adapter!Min(values) ELSE 0]
    <2>1. \A y : Adapter!Cardinality({i \in DOMAIN v.hs : PeerOf[v.hs[i]] = y}) = C(y)
      BY AdapterCounts DEF Times
    <2>2. [y \in Peers |-> picks[y] +
             Adapter!Cardinality({i \in DOMAIN v.hs : PeerOf[v.hs[i]] = y})] = more
      <3> HIDE DEF C
      <3> QED BY <2>1, Zenon
    <2> HIDE DEF more, C
    <2> QED BY <2>2, Zenon DEF Adapter!Counted
  <1>2. /\ size \in Nat \ {0} /\ DOMAIN info.peers = 1 .. size
        /\ \A k \in 1 .. size : info.peers[k].id \in Peers
        /\ picks \in [Peers -> Nat]
    BY ATyped, EmptySeq
  <1>3. /\ \A k \in 1 .. size : info.peers[k].id \in Adapter!ConnectedPeers
        /\ \A y \in Adapter!ConnectedPeers : \E k \in 1 .. size : y = info.peers[k].id
        /\ \A y \in Adapter!ConnectedPeers : y \in Peers
    BY <1>2 DEF Adapter!PeersListed
  <1>4. v.hs \in Seq(Handlers) /\ EvenAfter(v)
        /\ LikeInfo(v.info) /\ v.info.index <= size
    BY DEF RunOf
  <1>5. \A y \in Peers : more[y] \in Nat
    <2>1. PICK h \in Handlers : TRUE
      <3>1. PICK y \in Adapter!ConnectedPeers : TRUE
        BY <1>2, <1>3
      <3>2. linked \subseteq Handlers
        BY ATyped
      <3> QED BY <3>1, <3>2 DEF Adapter!ConnectedPeers
    <2>2. \A y : C(y) \in Nat
      BY <1>4, <2>1, TimesMore
    <2> HIDE DEF C
    <2> QED BY <1>2, <2>2
  <1>6. PICK base \in Nat, j \in 0 .. size - 1 : \A k \in 1 .. size :
          more[info.peers[k].id] = base + (IF Ago(k, p, size) < j THEN 1 ELSE 0)
    <2>1. PICK base \in Nat, j \in 0 .. size - 1 : \A k \in 1 .. size :
            picks[info.peers[k].id] + C(info.peers[k].id) =
              base + (IF Ago(k, p, size) < j THEN 1 ELSE 0)
      BY <1>4 DEF EvenAfter
    <2>2. \A k \in 1 .. size :
            more[info.peers[k].id] = picks[info.peers[k].id] + C(info.peers[k].id)
      BY <1>2
    <2> HIDE DEF C, more, p, size
    <2> QED BY <2>1, <2>2
  <1>7. p \in 1 .. size
    <2>1. v.info.index \in Nat
      BY <1>4 DEF LikeInfo, ATable
    <2> QED BY <1>2, <1>4, <2>1 DEF LastElement
  <1> HIDE DEF more, C, p, size
  <1>8. Adapter!Min(values) = base
    <2> DEFINE q == IF p = size THEN 1 ELSE p + 1
    <2>1. q \in 1 .. size /\ Ago(q, p, size) = size - 1
      BY <1>2, <1>7, AgoNext
    <2>2. ~(Ago(q, p, size) < j)
      BY <1>2, <2>1
    <2>3. more[info.peers[q].id] = base
      <3> HIDE DEF q
      <3> QED BY <1>6, <2>1, <2>2
    <2>4. base \in values
      <3> HIDE DEF q
      <3> QED BY <1>3, <2>1, <2>3
    <2>5. \A x \in values : base <= x /\ x \in Int
      <3>1. ASSUME NEW y \in Adapter!ConnectedPeers
            PROVE  base <= more[y] /\ more[y] \in Int
        <4>1. PICK k \in 1 .. size : y = info.peers[k].id
          BY <1>3
        <4> QED BY <1>6, <4>1
      <3> QED BY <3>1
    <2> HIDE DEF values
    <2> QED BY <2>4, <2>5, AdapterLeast
  <1>9. \A k \in 1 .. size :
          use[info.peers[k].id] = IF Ago(k, p, size) < j THEN 1 ELSE 0
    <2> SUFFICES ASSUME NEW k \in 1 .. size
                 PROVE  use[info.peers[k].id] = IF Ago(k, p, size) < j THEN 1 ELSE 0
      OBVIOUS
    <2>1. use[info.peers[k].id] = more[info.peers[k].id] - base
      BY <1>1, <1>2, <1>3, <1>8
    <2> QED BY <1>6, <2>1
  <1>10. use \in [Peers -> Nat]
    <2>1. ASSUME NEW y \in Peers, y \in Adapter!ConnectedPeers
          PROVE  more[y] - base \in Nat
      <3>1. PICK k \in 1 .. size : y = info.peers[k].id
        BY <1>3, <2>1
      <3> QED BY <1>6, <3>1
    <2> HIDE DEF values
    <2> QED BY <1>1, <1>8, <2>1
  <1> QED BY <1>9, <1>10 DEF EvenPicks, size, p

\* Even, written out.
LEMMA AdapterEven ==
  ASSUME NEW use, NEW f, NEW p, NEW n
  PROVE  Adapter!Even(use, f, p, n) <=>
           \E j \in 0 .. n - 1 : \A i \in 1 .. n :
             use[f[i]] = IF Ago(i, p, n) < j THEN 1 ELSE 0
  BY DEF Adapter!Even, Adapter!Ago, Ago

\* The peers list the connections of L: Adapter!PeersListed, element by element.
Lists(peers, L) ==
  /\ \A i \in DOMAIN peers : \E h \in L : PeerOf[h] = peers[i].id
  /\ \A h \in L : \E i \in DOMAIN peers : peers[i].id = PeerOf[h]
  /\ \A i, j \in DOMAIN peers : peers[i].id = peers[j].id => i = j
  /\ \A i \in DOMAIN peers :
       /\ \A k \in DOMAIN peers[i].hs : peers[i].hs[k] \in L /\ PeerOf[peers[i].hs[k]] = peers[i].id
       /\ \A h \in L : PeerOf[h] = peers[i].id => \E k \in DOMAIN peers[i].hs : peers[i].hs[k] = h
       /\ \A k, l \in DOMAIN peers[i].hs : peers[i].hs[k] = peers[i].hs[l] => k = l

ListsAsSets(peers, L) ==
  /\ {peers[i].id : i \in DOMAIN peers} = {PeerOf[h] : h \in L}
  /\ \A i, j \in DOMAIN peers : peers[i].id = peers[j].id => i = j
  /\ \A i \in DOMAIN peers :
       LET s == peers[i]
       IN  /\ {s.hs[k] : k \in DOMAIN s.hs} = {h \in L : PeerOf[h] = s.id}
           /\ \A k, l \in DOMAIN s.hs : s.hs[k] = s.hs[l] => k = l

\* The two ways to say what the peers list are the same.
LEMMA ListsSets ==
  ASSUME NEW peers, NEW L
  PROVE  ListsAsSets(peers, L) <=> Lists(peers, L)
  <1>1. {peers[i].id : i \in DOMAIN peers} = {PeerOf[h] : h \in L} <=>
          /\ \A i \in DOMAIN peers : \E h \in L : PeerOf[h] = peers[i].id
          /\ \A h \in L : \E i \in DOMAIN peers : peers[i].id = PeerOf[h]
    <2> DEFINE id == [i \in DOMAIN peers |-> peers[i].id]
    <2>1. /\ DOMAIN id = DOMAIN peers /\ \A i \in DOMAIN peers : id[i] = peers[i].id
          /\ {peers[i].id : i \in DOMAIN peers} = {id[i] : i \in DOMAIN id}
      OBVIOUS
    <2> HIDE DEF id
    <2>2. ASSUME {id[i] : i \in DOMAIN id} = {PeerOf[h] : h \in L}
          PROVE  /\ \A i \in DOMAIN id : \E h \in L : PeerOf[h] = id[i]
                 /\ \A h \in L : \E i \in DOMAIN id : id[i] = PeerOf[h]
      <3>1. \A i \in DOMAIN id : id[i] \in {PeerOf[h] : h \in L}
        BY <2>2
      <3>2. \A h \in L : PeerOf[h] \in {id[i] : i \in DOMAIN id}
        BY <2>2
      <3>3. \A h \in L : \E i \in DOMAIN id : id[i] = PeerOf[h]
        BY <3>2
      <3> QED BY <3>1, <3>3
    <2>3. ASSUME \A i \in DOMAIN id : \E h \in L : PeerOf[h] = id[i],
                 \A h \in L : \E i \in DOMAIN id : id[i] = PeerOf[h]
          PROVE  {id[i] : i \in DOMAIN id} = {PeerOf[h] : h \in L}
      BY <2>3
    <2>4. {id[i] : i \in DOMAIN id} = {PeerOf[h] : h \in L} <=>
            /\ \A i \in DOMAIN id : \E h \in L : PeerOf[h] = id[i]
            /\ \A h \in L : \E i \in DOMAIN id : id[i] = PeerOf[h]
      BY <2>2, <2>3, Zenon
    <2>5. /\ (\A i \in DOMAIN id : \E h \in L : PeerOf[h] = id[i]) <=>
               \A i \in DOMAIN peers : \E h \in L : PeerOf[h] = peers[i].id
          /\ (\A h \in L : \E i \in DOMAIN id : id[i] = PeerOf[h]) <=>
               \A h \in L : \E i \in DOMAIN peers : peers[i].id = PeerOf[h]
      <3>1. DOMAIN id = DOMAIN peers /\ \A i \in DOMAIN peers : id[i] = peers[i].id
        BY <2>1
      <3> QED BY <3>1
    <2>6. {id[i] : i \in DOMAIN id} = {peers[i].id : i \in DOMAIN peers}
      BY <2>1
    <2> QED BY <2>4, <2>5, <2>6
  <1>2. ASSUME NEW i \in DOMAIN peers
        PROVE  {peers[i].hs[k] : k \in DOMAIN peers[i].hs} = {h \in L : PeerOf[h] = peers[i].id} <=>
                 /\ \A k \in DOMAIN peers[i].hs :
                      peers[i].hs[k] \in L /\ PeerOf[peers[i].hs[k]] = peers[i].id
                 /\ \A h \in L : PeerOf[h] = peers[i].id =>
                      \E k \in DOMAIN peers[i].hs : peers[i].hs[k] = h
    <2> DEFINE hs == peers[i].hs
               id == peers[i].id
    <2> HIDE DEF hs, id
    <2>1. {hs[k] : k \in DOMAIN hs} = {h \in L : PeerOf[h] = id} <=>
            /\ \A k \in DOMAIN hs : hs[k] \in L /\ PeerOf[hs[k]] = id
            /\ \A h \in L : PeerOf[h] = id => \E k \in DOMAIN hs : hs[k] = h
      <3>1. ASSUME {hs[k] : k \in DOMAIN hs} = {h \in L : PeerOf[h] = id}
            PROVE  /\ \A k \in DOMAIN hs : hs[k] \in L /\ PeerOf[hs[k]] = id
                   /\ \A h \in L : PeerOf[h] = id => \E k \in DOMAIN hs : hs[k] = h
        BY <3>1
      <3>2. ASSUME \A k \in DOMAIN hs : hs[k] \in L /\ PeerOf[hs[k]] = id,
                   \A h \in L : PeerOf[h] = id => \E k \in DOMAIN hs : hs[k] = h
            PROVE  {hs[k] : k \in DOMAIN hs} = {h \in L : PeerOf[h] = id}
        BY <3>2
      <3> QED BY <3>1, <3>2
    <2> QED BY <2>1 DEF hs, id
  <1>3. ListsAsSets(peers, L) <=>
          /\ {peers[i].id : i \in DOMAIN peers} = {PeerOf[h] : h \in L}
          /\ \A i, j \in DOMAIN peers : peers[i].id = peers[j].id => i = j
          /\ \A i \in DOMAIN peers :
               /\ {peers[i].hs[k] : k \in DOMAIN peers[i].hs} = {h \in L : PeerOf[h] = peers[i].id}
               /\ \A k, l \in DOMAIN peers[i].hs : peers[i].hs[k] = peers[i].hs[l] => k = l
    BY Zenon DEF ListsAsSets
  <1>4. Lists(peers, L) <=>
          /\ (/\ \A i \in DOMAIN peers : \E h \in L : PeerOf[h] = peers[i].id
              /\ \A h \in L : \E i \in DOMAIN peers : peers[i].id = PeerOf[h])
          /\ \A i, j \in DOMAIN peers : peers[i].id = peers[j].id => i = j
          /\ \A i \in DOMAIN peers :
               /\ /\ \A k \in DOMAIN peers[i].hs :
                       peers[i].hs[k] \in L /\ PeerOf[peers[i].hs[k]] = peers[i].id
                  /\ \A h \in L : PeerOf[h] = peers[i].id =>
                       \E k \in DOMAIN peers[i].hs : peers[i].hs[k] = h
               /\ \A k, l \in DOMAIN peers[i].hs : peers[i].hs[k] = peers[i].hs[l] => k = l
    BY Zenon DEF Lists
  <1> QED BY <1>1, <1>2, <1>3, <1>4, Zenon

\* PeersListed says that the peers list the connections.
LEMMA AdapterListed == Adapter!PeersListed <=> Lists(info.peers, linked)
  <1>1. Adapter!PeersListed <=> ListsAsSets(info.peers, linked)
    BY Zenon DEF Adapter!PeersListed, Adapter!ConnectedPeers, Adapter!ToSet, Adapter!IsInjective,
                 ListsAsSets
  <1> QED BY <1>1, ListsSets

\* The same after a step.
LEMMA AdapterListedNext == Adapter!PeersListed' <=> Lists(info'.peers, linked')
  <1>1. Adapter!PeersListed' <=> ListsAsSets(info'.peers, linked')
    BY Zenon DEF Adapter!PeersListed, Adapter!ConnectedPeers, Adapter!ToSet, Adapter!IsInjective,
                 ListsAsSets
  <1> QED BY <1>1, ListsSets

\* A table at other indices lists the same connections.
LEMMA SameTable ==
  ASSUME Adapter!TypeOK, Adapter!PeersListed, LikeInfo(info'), linked' = linked
  PROVE  Adapter!PeersListed'
  <1> DEFINE n == Len(info.peers)
             peers == info'.peers
  <1>1. DOMAIN info.peers = 1 .. n /\ peers \in Seq(Adapter!PeerSession)
    BY ATyped DEF LikeInfo, ATable
  <1>2. /\ DOMAIN peers = DOMAIN info.peers
        /\ \A i \in DOMAIN peers : peers[i].id = info.peers[i].id /\ peers[i].hs = info.peers[i].hs
    BY <1>1, LenProperties DEF LikeInfo
  <1>3. Lists(info.peers, linked)
    BY AdapterListed
  <1> HIDE DEF n, peers
  <1>4. Lists(peers, linked)
    BY <1>2, <1>3 DEF Lists
  <1> QED BY <1>4, AdapterListedNext DEF peers

\* A call keeps the invariant, and the peers it has picked are different ones.
LEMMA CallsKeep ==
  ASSUME Adapter!IInv, info.peers # <<>>, NEW n \in Nat \ {0}, NEW first \in 1 .. n,
         n <= Len(info.peers) \/ first = n, Adapter!Calls(n, first)
  PROVE  Adapter!IInv'
  <1> DEFINE v == Adapter!Picked[n]
             size == Len(info.peers)
  <1>1. Adapter!TypeOK /\ Adapter!PeersListed /\ Adapter!PicksRun
    BY DEF Adapter!IInv, Adapter!TableExact
  <1>2. RunOf(v, n)
    BY <1>1, PickedRuns
  <1>3. /\ info' = v.info /\ sent' = SubSeq(v.hs, first, n)
        /\ picks' = Adapter!Counted(picks, v.hs) /\ linked' = linked
    BY DEF Adapter!Calls
  <1> HIDE DEF v
  <1>4. /\ v.hs \in Seq(Handlers) /\ Len(v.hs) = n
        /\ \A i \in 1 .. n : v.hs[i] \in linked
        /\ LikeInfo(info') /\ info'.index <= size /\ info'.index > 0 /\ Passed(v, n)
    BY <1>2, <1>3 DEF RunOf
  <1>5. picks' \in [Peers -> Nat] /\ EvenPicks(picks', info.peers, LastElement(info'.index, size))
    <2>1. n \in Nat
      OBVIOUS
    <2> QED BY <1>1, <1>2, <1>3, <2>1, CallCounted
  <1>6. /\ sent' \in Seq(Handlers) /\ DOMAIN sent' = 1 .. n - first + 1
        /\ \A i \in 1 .. n - first + 1 : sent'[i] = v.hs[first + i - 1]
    <2>1. \A i \in first .. n : v.hs[i] \in Handlers
      BY <1>4
    <2>2. first \in Int /\ n \in Int /\ first <= n
      OBVIOUS
    <2> QED BY <1>3, <2>1, <2>2, SubSeqProperties, LenProperties
  <1>7. Adapter!TypeOK'
    BY <1>1, <1>3, <1>4, <1>5, <1>6 DEF Adapter!TypeOK, LikeInfo, ATable
  <1>8. Adapter!PeersListed'
    BY <1>1, <1>3, <1>4, SameTable
  <1>9. Adapter!SentApart'
    <2>1. ASSUME NEW i \in 1 .. n - first + 1
          PROVE  first + i - 1 \in 1 .. n /\ sent'[i] = v.hs[first + i - 1]
      BY <1>6
    <2>2. \A i \in 1 .. n - first + 1 : sent'[i] \in linked
      BY <1>4, <2>1
    <2>3. ASSUME NEW i \in 1 .. n - first + 1, NEW j \in 1 .. n - first + 1,
                 PeerOf[sent'[i]] = PeerOf[sent'[j]]
          PROVE  i = j
      <3>1. CASE first = n
        BY <3>1
      <3>2. CASE n <= size
        <4> DEFINE a == first + i - 1
                   b == first + j - 1
        <4>1. a \in 1 .. n /\ b \in 1 .. n /\ PeerOf[v.hs[a]] = PeerOf[v.hs[b]]
          BY <2>1, <2>3
        <4>2. size \in Nat
          BY <1>1, ATyped
        <4> HIDE DEF a, b, size
        <4>3. n - a < size /\ n - b < size
          BY <3>2, <4>1, <4>2
        <4>4. PICK k \in 1 .. size : /\ PeerOf[v.hs[a]] = info.peers[k].id
                                     /\ Ago(k, LastElement(v.info.index, size), size) = n - a
          BY <1>4, <4>1, <4>3 DEF Passed, size
        <4>5. PICK l \in 1 .. size : /\ PeerOf[v.hs[b]] = info.peers[l].id
                                     /\ Ago(l, LastElement(v.info.index, size), size) = n - b
          BY <1>4, <4>1, <4>3 DEF Passed, size
        <4>6. k = l
          <5>1. DOMAIN info.peers = 1 .. size
            BY <1>1, ATyped DEF size
          <5> QED BY <1>1, <4>1, <4>4, <4>5, <5>1 DEF Adapter!PeersListed
        <4>7. a = b
          BY <4>1, <4>4, <4>5, <4>6
        <4> QED BY <4>7 DEF a, b
      <3> QED BY <3>1, <3>2
    <2>4. {sent'[i] : i \in DOMAIN sent'} \subseteq linked
      BY <1>6, <2>2
    <2>5. \A i, j \in DOMAIN sent' : PeerOf[sent'[i]] = PeerOf[sent'[j]] => i = j
      BY <1>6, <2>3
    <2> QED BY <1>3, <2>4, <2>5 DEF Adapter!SentApart, Adapter!ToSet
  <1>10. Adapter!PicksRun'
    <2> DEFINE f == [i \in DOMAIN info'.peers |-> info'.peers[i].id]
    <2>1. /\ DOMAIN info'.peers = 1 .. size /\ Len(info'.peers) = size
          /\ \A i \in 1 .. size : info'.peers[i].id = info.peers[i].id
      BY <1>4, LenProperties DEF LikeInfo, ATable
    <2>2. \A i \in 1 .. size : f[i] = info.peers[i].id
      BY <2>1
    <2>3. Adapter!LastPicked' = LastElement(info'.index, size)
      BY <2>1 DEF Adapter!LastPicked, LastElement
    <2> HIDE DEF f, size
    <2>4. Adapter!Even(picks', f, LastElement(info'.index, size), size)
      BY <1>5, <2>2, AdapterEven DEF EvenPicks, size
    <2> QED BY <1>4, <2>1, <2>3, <2>4 DEF Adapter!PicksRun, f
  <1> QED BY <1>7, <1>8, <1>9, <1>10 DEF Adapter!IInv, Adapter!TableExact

\* A step that sends nothing sends to different peers.
LEMMA SentNothing == sent' = <<>> => Adapter!SentApart'
  BY DEF Adapter!SentApart, Adapter!ToSet

\* A session of a known peer changes its handlers.
LEMMA ReplaceSession ==
  ASSUME Adapter!IInv, NEW i \in 1 .. Len(info.peers), NEW s \in Adapter!PeerSession,
         s.id = info.peers[i].id, info' = [info EXCEPT !.peers[i] = s],
         linked' \subseteq Handlers, sent' = <<>>, picks' = picks, s.hs # <<>>,
         \A k \in DOMAIN s.hs : s.hs[k] \in linked' /\ PeerOf[s.hs[k]] = s.id,
         \A h \in linked' : PeerOf[h] = s.id => \E k \in DOMAIN s.hs : s.hs[k] = h,
         \A k, l \in DOMAIN s.hs : s.hs[k] = s.hs[l] => k = l,
         \A h : PeerOf[h] # s.id => (h \in linked' <=> h \in linked)
  PROVE  Adapter!IInv'
  <1> DEFINE n == Len(info.peers)
             peers == [info.peers EXCEPT ![i] = s]
  <1>1. Adapter!TypeOK /\ Adapter!PeersListed /\ Adapter!PicksRun
    BY DEF Adapter!IInv, Adapter!TableExact
  <1>2. /\ info.peers \in Seq(Adapter!PeerSession) /\ info.index \in Nat /\ n \in Nat
        /\ info = [peers |-> info.peers, index |-> info.index] /\ picks \in [Peers -> Nat]
        /\ DOMAIN info.peers = 1 .. n /\ \A k \in 1 .. n : info.peers[k].hs \in Seq(Handlers)
    BY <1>1, ATyped
  <1>3. info' = [peers |-> peers, index |-> info.index]
    BY <1>2
  <1>4. /\ peers \in Seq(Adapter!PeerSession) /\ Len(peers) = n /\ DOMAIN peers = 1 .. n
        /\ \A k \in 1 .. n : peers[k] = IF k = i THEN s ELSE info.peers[k]
    BY <1>2, ExceptSeq
  <1> HIDE DEF peers
  <1>5. info'.peers = peers /\ info'.index = info.index
    BY <1>3
  <1>6. Adapter!TypeOK'
    <2>1. [peers |-> peers, index |-> info.index] \in [peers : Seq(Adapter!PeerSession), index : Nat]
      BY <1>2, <1>4
    <2>2. sent' \in Seq(Handlers) /\ picks' \in [Peers -> Nat]
      BY <1>2, EmptySeq
    <2> QED BY <1>3, <2>1, <2>2 DEF Adapter!TypeOK
  <1>7. \A k \in 1 .. n : peers[k].id = info.peers[k].id
    BY <1>4
  <1>8. Adapter!PeersListed'
    <2> HIDE DEF n
    <2>1. Lists(info.peers, linked)
      BY <1>1, AdapterListed
    <2>2. \A k \in 1 .. n : k # i => peers[k].id # s.id
      BY <1>2, <1>7, <2>1 DEF Lists, n
    <2>3. PICK g \in linked' : PeerOf[g] = s.id
      <3>1. s.hs \in Seq(Handlers)
        <4>1. \A x \in Adapter!PeerSession : x.hs \in Seq(Handlers)
          BY DEF Adapter!PeerSession
        <4> QED BY <4>1
      <3>2. 1 \in DOMAIN s.hs
        BY <3>1, EmptySeq, LenProperties
      <3> QED BY <3>2
    <2>4. ASSUME NEW k \in 1 .. n
          PROVE  \E h \in linked' : PeerOf[h] = peers[k].id
      <3>1. CASE k = i
        BY <1>4, <2>3, <3>1
      <3>2. CASE k # i
        <4>1. PICK h \in linked : PeerOf[h] = peers[k].id
          BY <1>2, <1>7, <2>1 DEF Lists
        <4> QED BY <2>2, <3>2, <4>1
      <3> QED BY <3>1, <3>2
    <2>5. ASSUME NEW h \in linked'
          PROVE  \E k \in 1 .. n : peers[k].id = PeerOf[h]
      <3>1. CASE PeerOf[h] = s.id
        BY <1>4, <3>1 DEF n
      <3>2. CASE PeerOf[h] # s.id
        <4>1. h \in linked
          BY <3>2
        <4> QED BY <1>2, <1>7, <2>1, <4>1 DEF Lists
      <3> QED BY <3>1, <3>2
    <2>6. \A k, l \in 1 .. n : peers[k].id = peers[l].id => k = l
      BY <1>2, <1>7, <2>1 DEF Lists
    <2>7. ASSUME NEW k \in 1 .. n, NEW r, r = peers[k]
          PROVE  /\ \A l \in DOMAIN r.hs : r.hs[l] \in linked' /\ PeerOf[r.hs[l]] = r.id
                 /\ \A h \in linked' : PeerOf[h] = r.id => \E l \in DOMAIN r.hs : r.hs[l] = h
                 /\ \A l, m \in DOMAIN r.hs : r.hs[l] = r.hs[m] => l = m
      <3>1. CASE k = i
        <4>1. r = s
          BY <1>4, <2>7, <3>1
        <4> QED BY <4>1
      <3>2. CASE k # i
        <4>1. r = info.peers[k] /\ k \in DOMAIN info.peers /\ r.id # s.id
          BY <1>2, <1>4, <2>2, <2>7, <3>2
        <4>2. /\ \A l \in DOMAIN r.hs : r.hs[l] \in linked /\ PeerOf[r.hs[l]] = r.id
              /\ \A h \in linked : PeerOf[h] = r.id => \E l \in DOMAIN r.hs : r.hs[l] = h
              /\ \A l, m \in DOMAIN r.hs : r.hs[l] = r.hs[m] => l = m
          BY <2>1, <4>1 DEF Lists
        <4> QED BY <4>1, <4>2
      <3> QED BY <3>1, <3>2
    <2>8. Lists(peers, linked')
      BY <1>4, <2>4, <2>5, <2>6, <2>7 DEF Lists
    <2> QED BY <1>5, <2>8, AdapterListedNext
  <1>9. Adapter!PicksRun'
    <2> DEFINE f == [k \in DOMAIN info.peers |-> info.peers[k].id]
               g == [k \in DOMAIN info'.peers |-> info'.peers[k].id]
    <2>1. DOMAIN info'.peers = 1 .. n /\ Len(info'.peers) = n
      BY <1>4, <1>5
    <2>2. g = f
      BY <1>2, <1>5, <1>7, <2>1
    <2>3. Adapter!LastPicked' = Adapter!LastPicked
      BY <1>5, <2>1 DEF Adapter!LastPicked
    <2>4. info.peers # <<>>
      BY EmptySeq
    <2>5. info.index <= n /\ Adapter!Even(picks, f, Adapter!LastPicked, n)
      BY <1>1, <2>4 DEF Adapter!PicksRun
    <2>6. info'.index <= Len(info'.peers) /\ Adapter!Even(picks', g, Adapter!LastPicked', Len(info'.peers))
      <3> HIDE DEF f, g, n
      <3> QED BY <1>5, <2>1, <2>2, <2>3, <2>5
    <2> QED BY <2>6 DEF Adapter!PicksRun
  <1> QED BY <1>6, <1>8, <1>9, SentNothing DEF Adapter!IInv, Adapter!TableExact

\* An index a table of another size may have, and no picks counted yet.
LEMMA FreshRun ==
  ASSUME info'.index \in Nat, Len(info'.peers) \in Nat, info'.index <= Len(info'.peers),
         DOMAIN info'.peers = 1 .. Len(info'.peers),
         \A i \in 1 .. Len(info'.peers) : info'.peers[i].id \in Peers,
         picks' = Adapter!Fresh
  PROVE  Adapter!PicksRun'
  <1> DEFINE n == Len(info'.peers)
             f == [i \in DOMAIN info'.peers |-> info'.peers[i].id]
  <1>1. \A i \in 1 .. n : picks'[f[i]] = 0
    BY DEF Adapter!Fresh
  <1>2. ASSUME NEW p \in Nat, p <= n, n > 0, NEW i \in 1 .. n
        PROVE  ~(Ago(i, p, n) < 0)
    BY <1>2 DEF Ago
  <1>3. Adapter!LastPicked' \in Nat /\ Adapter!LastPicked' <= n
    BY DEF Adapter!LastPicked
  <1>4. ASSUME n > 0
        PROVE  Adapter!Even(picks', f, Adapter!LastPicked', n)
    <2>1. 0 \in 0 .. n - 1
      BY <1>4
    <2>2. \A i \in 1 .. n : picks'[f[i]] = IF Ago(i, Adapter!LastPicked', n) < 0 THEN 1 ELSE 0
      BY <1>1, <1>2, <1>3, <1>4
    <2> HIDE DEF n, f
    <2> QED BY <2>1, <2>2, AdapterEven
  <1>5. ASSUME info'.peers # <<>>
        PROVE  n > 0
    <2>1. CASE n = 0
      <3>1. DOMAIN info'.peers = {}
        BY <2>1
      <3> QED BY <1>5, <3>1
    <2> QED BY <2>1
  <1> QED BY <1>4, <1>5 DEF Adapter!PicksRun

\* A handler belongs to a peer.
LEMMA PeerOfType == \A h \in Handlers : PeerOf[h] \in Peers
  BY TableAssumption

\* The inductive invariant holds at the start.
LEMMA AdapterInit == Adapter!Init => Adapter!IInv
  <1> SUFFICES ASSUME Adapter!Init PROVE Adapter!IInv
    OBVIOUS
  <1>1. info.peers = <<>> /\ info.index = 0 /\ linked = {} /\ sent = <<>>
        /\ info = [peers |-> <<>>, index |-> 0] /\ picks = [p \in Peers |-> 0]
    BY DEF Adapter!Init, Adapter!Fresh
  <1>2. DOMAIN <<>> = {} /\ \A S : <<>> \in Seq(S)
    BY EmptySeq
  <1>3. Adapter!TypeOK
    <2>1. [peers |-> <<>>, index |-> 0] \in [peers : Seq(Adapter!PeerSession), index : Nat]
      BY <1>2
    <2> QED BY <1>1, <1>2, <2>1 DEF Adapter!TypeOK
  <1>4. Adapter!PeersListed
    BY <1>1, <1>2, AdapterListed DEF Lists
  <1>5. Adapter!SentApart
    BY <1>1, <1>2 DEF Adapter!SentApart, Adapter!ToSet
  <1>6. Adapter!PicksRun
    BY <1>1 DEF Adapter!PicksRun
  <1> QED BY <1>3, <1>4, <1>5, <1>6 DEF Adapter!IInv, Adapter!TableExact

\* FindSession finds the peer's element, and only when it is listed.
LEMMA AdapterFound ==
  ASSUME Adapter!IInv, NEW p, NEW i \in Adapter!FindSession(p)
  PROVE  i \in 1 .. Len(info.peers) /\ info.peers[i].id = p
  <1>1. DOMAIN info.peers = 1 .. Len(info.peers)
    BY ATyped DEF Adapter!IInv
  <1> QED BY <1>1 DEF Adapter!FindSession

\* A handler more of a peer that is listed.
LEMMA ConnectKnown ==
  ASSUME Adapter!IInv, NEW h \in Handlers, h \notin linked,
         NEW i \in Adapter!FindSession(PeerOf[h]), NEW s \in Adapter!AddHandler(info.peers[i], h),
         info' = [info EXCEPT !.peers[i] = s], linked' = linked \cup {h}, sent' = <<>>,
         picks' = picks
  PROVE  Adapter!IInv'
  <1> DEFINE r == info.peers[i]
  <1>1. Adapter!TypeOK /\ Adapter!PeersListed
    BY DEF Adapter!IInv, Adapter!TableExact
  <1>2. i \in 1 .. Len(info.peers) /\ r.id = PeerOf[h]
    BY AdapterFound
  <1>3. r \in Adapter!PeerSession /\ r.hs \in Seq(Handlers) /\ linked \subseteq Handlers
        /\ i \in DOMAIN info.peers
    BY <1>1, <1>2, ATyped
  <1>4. /\ \A k \in DOMAIN r.hs : r.hs[k] \in linked /\ PeerOf[r.hs[k]] = r.id
        /\ \A g \in linked : PeerOf[g] = r.id => \E k \in DOMAIN r.hs : r.hs[k] = g
        /\ \A k, l \in DOMAIN r.hs : r.hs[k] = r.hs[l] => k = l
    BY <1>1, <1>3, AdapterListed, Zenon DEF Lists
  <1> HIDE DEF r
  <1> DEFINE n == Len(r.hs)
             hs == Append(r.hs, h)
  <1>5. /\ n \in Nat /\ DOMAIN r.hs = 1 .. n /\ hs \in Seq(Handlers) /\ DOMAIN hs = 1 .. n + 1
        /\ hs[n + 1] = h /\ \A k \in 1 .. n : hs[k] = r.hs[k]
    BY <1>3, AppendProperties, LenProperties
  <1>6. PICK k \in 0 .. n : s = [r EXCEPT !.hs = hs, !.index = k]
    <2>1. PICK k \in Adapter!Random(n + 1) : s = [r EXCEPT !.hs = hs, !.index = k]
      BY DEF Adapter!AddHandler, r
    <2>2. k \in 0 .. n
      BY <1>5 DEF Adapter!Random
    <2> QED BY <2>1, <2>2
  <1> HIDE DEF hs
  <1>7. s \in Adapter!PeerSession /\ s.id = r.id /\ s.hs = hs
    <2>1. k \in Nat
      BY <1>5, <1>6
    <2> QED BY <1>3, <1>5, <1>6, <2>1 DEF Adapter!PeerSession
  <1>8. hs # <<>>
    BY <1>5
  <1>9. \A j \in DOMAIN hs : hs[j] \in linked' /\ PeerOf[hs[j]] = r.id
    <2>1. ASSUME NEW j \in 1 .. n + 1
          PROVE  hs[j] \in linked' /\ PeerOf[hs[j]] = r.id
      <3>1. CASE j = n + 1
        BY <1>2, <1>5, <3>1 DEF r
      <3>2. CASE j \in 1 .. n
        BY <1>4, <1>5, <3>2
      <3> QED BY <1>5, <3>1, <3>2
    <2> QED BY <1>5, <2>1
  <1>10. \A g \in linked' : PeerOf[g] = r.id => \E j \in DOMAIN hs : hs[j] = g
    <2>1. ASSUME NEW g \in linked', PeerOf[g] = r.id
          PROVE  \E j \in 1 .. n + 1 : hs[j] = g
      <3>1. CASE g = h
        <4>1. n + 1 \in 1 .. n + 1
          BY <1>5
        <4> QED BY <1>5, <3>1, <4>1
      <3>2. CASE g \in linked
        <4>1. PICK j \in 1 .. n : r.hs[j] = g
          BY <1>4, <1>5, <2>1, <3>2
        <4>2. j \in 1 .. n + 1 /\ hs[j] = g
          BY <1>5, <4>1
        <4> QED BY <4>2
      <3> QED BY <3>1, <3>2
    <2> QED BY <1>5, <2>1
  <1>11. \A j, l \in DOMAIN hs : hs[j] = hs[l] => j = l
    <2>1. \A j \in 1 .. n : hs[j] # h
      BY <1>4, <1>5
    <2>2. \A j, l \in 1 .. n : hs[j] = hs[l] => j = l
      BY <1>4, <1>5
    <2>3. \A j \in DOMAIN hs : j \in 1 .. n \/ j = n + 1
      BY <1>5
    <2> QED BY <1>5, <2>1, <2>2, <2>3
  <1>12. \A g : PeerOf[g] # r.id => (g \in linked' <=> g \in linked)
    BY <1>2 DEF r
  <1>13. linked' \subseteq Handlers
    BY <1>3
  <1> QED BY <1>2, <1>7, <1>8, <1>9, <1>10, <1>11, <1>12, <1>13, ReplaceSession DEF r

\* A handler less of a peer that has others.
LEMMA DisconnectOne ==
  ASSUME Adapter!IInv, NEW h \in linked,
         NEW i \in Adapter!FindSession(PeerOf[h]), Len(info.peers[i].hs) > 1,
         NEW s \in Adapter!RemoveHandler(info.peers[i], h),
         info' = [info EXCEPT !.peers[i] = s], linked' = linked \ {h}, sent' = <<>>,
         picks' = picks
  PROVE  Adapter!IInv'
  <1> DEFINE r == info.peers[i]
  <1>1. Adapter!TypeOK /\ Adapter!PeersListed
    BY DEF Adapter!IInv, Adapter!TableExact
  <1>2. i \in 1 .. Len(info.peers) /\ r.id = PeerOf[h]
    BY AdapterFound
  <1>3. r \in Adapter!PeerSession /\ r.hs \in Seq(Handlers) /\ linked \subseteq Handlers
        /\ i \in DOMAIN info.peers
    BY <1>1, <1>2, ATyped
  <1>4. /\ \A k \in DOMAIN r.hs : r.hs[k] \in linked /\ PeerOf[r.hs[k]] = r.id
        /\ \A g \in linked : PeerOf[g] = r.id => \E k \in DOMAIN r.hs : r.hs[k] = g
        /\ \A k, l \in DOMAIN r.hs : r.hs[k] = r.hs[l] => k = l
    BY <1>1, <1>3, AdapterListed, Zenon DEF Lists
  <1> HIDE DEF r
  <1> DEFINE n == Len(r.hs)
             k == CHOOSE j \in DOMAIN r.hs : r.hs[j] = h
             hs == Adapter!Without(r.hs, k)
  <1>5. n \in Nat /\ n > 1 /\ DOMAIN r.hs = 1 .. n
    BY <1>3, LenProperties DEF r
  <1>6. k \in 1 .. n /\ r.hs[k] = h
    <2>1. \E j \in DOMAIN r.hs : r.hs[j] = h
      BY <1>2, <1>4 DEF r
    <2> QED BY <1>5, <2>1
  <1> HIDE DEF k
  <1>7. /\ hs \in Seq(Handlers) /\ Len(hs) = n - 1 /\ DOMAIN hs = 1 .. n - 1
        /\ {hs[j] : j \in DOMAIN hs} = {r.hs[j] : j \in DOMAIN r.hs} \ {h}
        /\ \A j, l \in DOMAIN hs : hs[j] = hs[l] => j = l
    <2>1. \A j, l \in 1 .. Len(r.hs) : r.hs[j] = r.hs[l] => j = l
      BY <1>4, <1>5
    <2>2. k \in 1 .. Len(r.hs)
      BY <1>6
    <2>3. hs \in Seq(Handlers) /\ Len(hs) = n - 1
      BY <1>3, <2>2, WithoutOne
    <2>4. /\ {hs[j] : j \in DOMAIN hs} = {r.hs[j] : j \in DOMAIN r.hs} \ {r.hs[k]}
          /\ \A j, l \in DOMAIN hs : hs[j] = hs[l] => j = l
      BY <1>3, <2>1, <2>2, WithoutSet
    <2> HIDE DEF hs
    <2> QED BY <1>6, <2>3, <2>4, LenProperties
  <1>8. PICK x \in Nat : s = [r EXCEPT !.hs = hs, !.index = x]
    <2>1. PICK x \in Adapter!Random(Len(hs)) : s = [r EXCEPT !.hs = hs, !.index = x]
      BY DEF Adapter!RemoveHandler, r, k
    <2>2. Len(hs) \in Nat
      BY <1>5, <1>7
    <2> HIDE DEF hs
    <2>3. x \in Nat
      BY <2>2 DEF Adapter!Random
    <2> QED BY <2>1, <2>3
  <1> HIDE DEF hs
  <1>9. s \in Adapter!PeerSession /\ s.id = r.id /\ s.hs = hs
    BY <1>3, <1>7, <1>8 DEF Adapter!PeerSession
  <1>10. hs # <<>>
    BY <1>5, <1>7
  <1>11. \A j \in DOMAIN hs : hs[j] \in linked' /\ PeerOf[hs[j]] = r.id
    <2> SUFFICES ASSUME NEW j \in DOMAIN hs
                 PROVE  hs[j] \in linked' /\ PeerOf[hs[j]] = r.id
      OBVIOUS
    <2>1. hs[j] # h /\ hs[j] \in {r.hs[l] : l \in DOMAIN r.hs}
      BY <1>7
    <2> QED BY <1>4, <2>1
  <1>12. \A g \in linked' : PeerOf[g] = r.id => \E j \in DOMAIN hs : hs[j] = g
    <2> SUFFICES ASSUME NEW g \in linked', PeerOf[g] = r.id
                 PROVE  \E j \in DOMAIN hs : hs[j] = g
      OBVIOUS
    <2>1. g \in {r.hs[l] : l \in DOMAIN r.hs} /\ g # h
      BY <1>4
    <2>2. g \in {hs[j] : j \in DOMAIN hs}
      BY <1>7, <2>1
    <2> QED BY <2>2
  <1>13. \A g : PeerOf[g] # r.id => (g \in linked' <=> g \in linked)
    BY <1>2 DEF r
  <1>14. linked' \subseteq Handlers
    BY <1>3
  <1>15. s.id = info.peers[i].id /\ s.hs # <<>> /\ \A j, l \in DOMAIN s.hs : s.hs[j] = s.hs[l] => j = l
    BY <1>7, <1>9, <1>10 DEF r
  <1>16. /\ \A j \in DOMAIN s.hs : s.hs[j] \in linked' /\ PeerOf[s.hs[j]] = s.id
         /\ \A g \in linked' : PeerOf[g] = s.id => \E j \in DOMAIN s.hs : s.hs[j] = g
         /\ \A g : PeerOf[g] # s.id => (g \in linked' <=> g \in linked)
    BY <1>9, <1>11, <1>12, <1>13
  <1>17. s \in Adapter!PeerSession
    BY <1>9
  <1> QED BY <1>2, <1>14, <1>15, <1>16, <1>17, ReplaceSession

\* A peer more.
LEMMA ConnectNew ==
  ASSUME Adapter!IInv, NEW h \in Handlers, h \notin linked, Adapter!FindSession(PeerOf[h]) = {},
         info' \in Adapter!AllocSession(PeerOf[h], h), linked' = linked \cup {h}, sent' = <<>>,
         picks' = Adapter!Fresh
  PROVE  Adapter!IInv'
  <1> DEFINE n == Len(info.peers)
             s == [id |-> PeerOf[h], hs |-> <<h>>, index |-> 0]
             peers == Append(info.peers, s)
  <1>1. Adapter!TypeOK /\ Adapter!PeersListed
    BY DEF Adapter!IInv, Adapter!TableExact
  <1>2. /\ info.peers \in Seq(Adapter!PeerSession) /\ n \in Nat /\ DOMAIN info.peers = 1 .. n
        /\ linked \subseteq Handlers /\ Lists(info.peers, linked)
    BY <1>1, ATyped, AdapterListed
  <1>3. \A i \in 1 .. n : info.peers[i].id # PeerOf[h]
    BY <1>2 DEF Adapter!FindSession
  <1>4. PICK k \in 0 .. n : info' = [peers |-> peers, index |-> k]
    <2>1. PICK k \in Adapter!Random(n + 1) : info' = [peers |-> peers, index |-> k]
      BY DEF Adapter!AllocSession
    <2>2. k \in 0 .. n
      BY <1>2 DEF Adapter!Random
    <2> QED BY <2>1, <2>2
  <1>5. s \in Adapter!PeerSession /\ s.id = PeerOf[h] /\ s.hs = <<h>> /\ DOMAIN s.hs = {1} /\ s.hs[1] = h
    <2>1. <<h>> \in Seq(Handlers) /\ DOMAIN <<h>> = 1 .. 1
      OBVIOUS
    <2> QED BY <2>1, PeerOfType DEF Adapter!PeerSession
  <1> HIDE DEF s, n
  <1>6. /\ peers \in Seq(Adapter!PeerSession) /\ DOMAIN peers = 1 .. n + 1 /\ Len(peers) = n + 1
        /\ peers[n + 1] = s /\ \A i \in 1 .. n : peers[i] = info.peers[i]
    BY <1>2, <1>5, AppendProperties, LenProperties DEF n
  <1> HIDE DEF peers
  <1>7. info'.peers = peers /\ info'.index = k
    BY <1>4
  <1>8. Adapter!TypeOK'
    <2>1. [peers |-> peers, index |-> k] \in [peers : Seq(Adapter!PeerSession), index : Nat]
      BY <1>6
    <2>2. sent' \in Seq(Handlers) /\ picks' \in [Peers -> Nat]
      BY EmptySeq DEF Adapter!Fresh
    <2> QED BY <1>2, <1>4, <2>1, <2>2 DEF Adapter!TypeOK
  <1>9. Lists(peers, linked')
    <2>1. \A g \in linked : PeerOf[g] # PeerOf[h]
      BY <1>2, <1>3 DEF Lists
    <2>2. ASSUME NEW j \in 1 .. n + 1
          PROVE  \/ j = n + 1 /\ peers[j] = s
                 \/ j \in 1 .. n /\ j \in DOMAIN info.peers /\ peers[j] = info.peers[j]
                      /\ peers[j].id # s.id
      BY <1>2, <1>3, <1>5, <1>6
    <2>3. ASSUME NEW j \in 1 .. n + 1
          PROVE  \E g \in linked' : PeerOf[g] = peers[j].id
      BY <1>2, <1>5, <2>2, SMTT(40) DEF Lists
    <2>4. ASSUME NEW g \in linked'
          PROVE  \E j \in 1 .. n + 1 : peers[j].id = PeerOf[g]
      <3>1. CASE g = h
        <4>1. n + 1 \in 1 .. n + 1
          BY <1>2
        <4> QED BY <1>5, <1>6, <3>1, <4>1
      <3>2. CASE g \in linked
        <4>1. PICK j \in 1 .. n : info.peers[j].id = PeerOf[g]
          BY <1>2, <3>2 DEF Lists
        <4>2. j \in 1 .. n + 1 /\ peers[j].id = PeerOf[g]
          BY <1>2, <1>6, <4>1
        <4> QED BY <4>2
      <3> QED BY <3>1, <3>2
    <2>5. ASSUME NEW j \in 1 .. n + 1, NEW l \in 1 .. n + 1, peers[j].id = peers[l].id
          PROVE  j = l
      BY <1>2, <2>2, <2>5, ZenonT(40) DEF Lists
    <2>6. ASSUME NEW j \in 1 .. n + 1, NEW r, r = peers[j]
          PROVE  /\ \A l \in DOMAIN r.hs : r.hs[l] \in linked' /\ PeerOf[r.hs[l]] = r.id
                 /\ \A g \in linked' : PeerOf[g] = r.id => \E l \in DOMAIN r.hs : r.hs[l] = g
                 /\ \A l, m \in DOMAIN r.hs : r.hs[l] = r.hs[m] => l = m
      <3>1. CASE j = n + 1 /\ peers[j] = s
        BY <1>5, <2>1, <2>6, <3>1
      <3>2. CASE j \in DOMAIN info.peers /\ peers[j] = info.peers[j] /\ peers[j].id # s.id
        <4>1. /\ \A l \in DOMAIN r.hs : r.hs[l] \in linked /\ PeerOf[r.hs[l]] = r.id
              /\ \A g \in linked : PeerOf[g] = r.id => \E l \in DOMAIN r.hs : r.hs[l] = g
              /\ \A l, m \in DOMAIN r.hs : r.hs[l] = r.hs[m] => l = m
          BY <1>2, <2>6, <3>2 DEF Lists
        <4>2. PeerOf[h] # r.id
          BY <1>5, <2>6, <3>2
        <4> QED BY <4>1, <4>2
      <3> QED BY <2>2, <3>1, <3>2
    <2> QED BY <1>6, <2>3, <2>4, <2>5, <2>6 DEF Lists
  <1>10. Adapter!PeersListed'
    BY <1>7, <1>9, AdapterListedNext
  <1>11. Adapter!PicksRun'
    <2>1. \A x \in Adapter!PeerSession : x.id \in Peers
      BY DEF Adapter!PeerSession
    <2>2. \A j \in 1 .. n + 1 : peers[j].id \in Peers
      BY <1>6, <2>1
    <2>3. /\ info'.index \in Nat /\ Len(info'.peers) \in Nat /\ info'.index <= Len(info'.peers)
          /\ DOMAIN info'.peers = 1 .. Len(info'.peers)
          /\ \A j \in 1 .. Len(info'.peers) : info'.peers[j].id \in Peers
      BY <1>2, <1>6, <1>7, <2>2
    <2> QED BY <2>3, FreshRun
  <1> QED BY <1>8, <1>10, <1>11, SentNothing DEF Adapter!IInv, Adapter!TableExact

\* A peer less.
LEMMA DisconnectLast ==
  ASSUME Adapter!IInv, NEW h \in linked,
         NEW i \in Adapter!FindSession(PeerOf[h]), Len(info.peers[i].hs) = 1,
         info' \in Adapter!FreeSession(i), linked' = linked \ {h}, sent' = <<>>,
         picks' = Adapter!Fresh
  PROVE  Adapter!IInv'
  <1> DEFINE n == Len(info.peers)
             r == info.peers[i]
             peers == Adapter!Without(info.peers, i)
  <1>1. Adapter!TypeOK /\ Adapter!PeersListed
    BY DEF Adapter!IInv, Adapter!TableExact
  <1>2. i \in 1 .. n /\ r.id = PeerOf[h]
    BY AdapterFound
  <1>3. /\ info.peers \in Seq(Adapter!PeerSession) /\ info.index \in Nat
        /\ n \in Nat /\ DOMAIN info.peers = 1 .. n
        /\ linked \subseteq Handlers /\ Lists(info.peers, linked) /\ r.hs \in Seq(Handlers)
    BY <1>1, <1>2, ATyped, AdapterListed
  <1>4. \A g \in linked : PeerOf[g] = PeerOf[h] => g = h
    <2>1. DOMAIN r.hs = {1}
      BY <1>3
    <2>2. \A g \in linked : PeerOf[g] = r.id => \E k \in DOMAIN r.hs : r.hs[k] = g
      BY <1>2, <1>3, Zenon DEF Lists
    <2> HIDE DEF r
    <2>3. \A g \in linked : PeerOf[g] = r.id => r.hs[1] = g
      BY <2>1, <2>2
    <2> QED BY <1>2, <2>3
  <1>5. \A j, k \in 1 .. n : info.peers[j].id = info.peers[k].id => j = k
    BY <1>3, Zenon DEF Lists
  <1>6. /\ peers \in Seq(Adapter!PeerSession) /\ Len(peers) = n - 1
        /\ {peers[j] : j \in DOMAIN peers} = {info.peers[j] : j \in DOMAIN info.peers} \ {r}
        /\ \A j, k \in DOMAIN peers : peers[j] = peers[k] => j = k
    <2>1. \A j, k \in 1 .. n : info.peers[j] = info.peers[k] => j = k
      BY <1>5
    <2>2. i \in 1 .. Len(info.peers) /\ \A j, k \in 1 .. Len(info.peers) :
                                       info.peers[j] = info.peers[k] => j = k
      BY <1>2, <2>1
    <2>3. peers \in Seq(Adapter!PeerSession) /\ Len(peers) = n - 1
      BY <1>3, <2>2, WithoutOne
    <2>4. /\ {peers[j] : j \in DOMAIN peers} = {info.peers[j] : j \in DOMAIN info.peers} \ {r}
          /\ \A j, k \in DOMAIN peers : peers[j] = peers[k] => j = k
      BY <1>3, <2>2, WithoutSet
    <2> QED BY <2>3, <2>4
  <1>7. PICK k \in Nat : /\ info' = [peers |-> peers, index |-> k]
                         /\ peers # <<>> => k <= n - 1
    <2> DEFINE K == IF peers = <<>> THEN {info.index} ELSE Adapter!Random(Len(peers))
    <2>1. info' \in {[peers |-> peers, index |-> k] : k \in K}
      BY DEF Adapter!FreeSession
    <2> HIDE DEF peers, n
    <2>2. \A k \in K : k \in Nat /\ (peers # <<>> => k <= n - 1)
      <3>1. \A k \in 0 .. (n - 1) - 1 : k \in Nat /\ k <= n - 1
        BY <1>3
      <3> QED BY <1>3, <1>6, <3>1 DEF Adapter!Random
    <2> HIDE DEF K
    <2> QED BY <2>1, <2>2
  <1> HIDE DEF peers, n, r
  <1>8. info'.peers = peers /\ info'.index = k
    BY <1>7
  <1>9. DOMAIN peers = 1 .. n - 1 /\ n - 1 \in Nat
    BY <1>2, <1>3, <1>6, LenProperties
  <1>10. \A j \in DOMAIN peers : \E l \in 1 .. n : l # i /\ peers[j] = info.peers[l]
    <2> SUFFICES ASSUME NEW j \in DOMAIN peers
                 PROVE  \E l \in 1 .. n : l # i /\ peers[j] = info.peers[l]
      OBVIOUS
    <2>1. peers[j] \in {info.peers[l] : l \in DOMAIN info.peers} /\ peers[j] # r
      BY <1>6
    <2>2. PICK l \in DOMAIN info.peers : peers[j] = info.peers[l]
      BY <2>1
    <2> QED BY <1>3, <2>1, <2>2 DEF r
  <1>11. \A l \in 1 .. n : l # i => \E j \in DOMAIN peers : peers[j] = info.peers[l]
    <2> SUFFICES ASSUME NEW l \in 1 .. n, l # i
                 PROVE  \E j \in DOMAIN peers : peers[j] = info.peers[l]
      OBVIOUS
    <2>1. info.peers[l] # r
      BY <1>2, <1>5 DEF r
    <2>2. info.peers[l] \in {peers[j] : j \in DOMAIN peers}
      BY <1>3, <1>6, <2>1
    <2> QED BY <2>2
  <1>12. Adapter!TypeOK'
    <2>1. [peers |-> peers, index |-> k] \in [peers : Seq(Adapter!PeerSession), index : Nat]
      BY <1>6
    <2>2. sent' \in Seq(Handlers) /\ picks' \in [Peers -> Nat]
      BY EmptySeq DEF Adapter!Fresh
    <2> QED BY <1>3, <1>7, <2>1, <2>2 DEF Adapter!TypeOK
  <1>13. Lists(peers, linked')
    <2>1. ASSUME NEW j \in DOMAIN peers
          PROVE  \E g \in linked' : PeerOf[g] = peers[j].id
      <3>1. PICK l \in 1 .. n : l # i /\ peers[j] = info.peers[l]
        BY <1>10
      <3>2. PICK g \in linked : PeerOf[g] = info.peers[l].id
        BY <1>3 DEF Lists
      <3>3. g # h
        BY <1>2, <1>5, <3>1, <3>2 DEF r
      <3> QED BY <3>1, <3>2, <3>3
    <2>2. ASSUME NEW g \in linked'
          PROVE  \E j \in DOMAIN peers : peers[j].id = PeerOf[g]
      <3>1. g \in linked /\ PeerOf[g] # PeerOf[h]
        BY <1>4
      <3>2. PICK l \in 1 .. n : info.peers[l].id = PeerOf[g]
        BY <1>3, <3>1 DEF Lists
      <3>3. l # i
        BY <1>2, <3>1, <3>2 DEF r
      <3> QED BY <1>11, <3>2, <3>3
    <2>3. ASSUME NEW j \in DOMAIN peers, NEW m \in DOMAIN peers, peers[j].id = peers[m].id
          PROVE  j = m
      <3>1. PICK l \in 1 .. n : peers[j] = info.peers[l]
        BY <1>10
      <3>2. PICK o \in 1 .. n : peers[m] = info.peers[o]
        BY <1>10
      <3>3. l = o
        BY <1>5, <2>3, <3>1, <3>2
      <3> QED BY <1>6, <3>1, <3>2, <3>3
    <2>4. ASSUME NEW j \in DOMAIN peers, NEW x, x = peers[j]
          PROVE  /\ \A l \in DOMAIN x.hs : x.hs[l] \in linked' /\ PeerOf[x.hs[l]] = x.id
                 /\ \A g \in linked' : PeerOf[g] = x.id => \E l \in DOMAIN x.hs : x.hs[l] = g
                 /\ \A l, m \in DOMAIN x.hs : x.hs[l] = x.hs[m] => l = m
      <3>1. PICK o \in 1 .. n : o # i /\ x = info.peers[o]
        BY <1>10, <2>4
      <3>2. /\ \A l \in DOMAIN x.hs : x.hs[l] \in linked /\ PeerOf[x.hs[l]] = x.id
            /\ \A g \in linked : PeerOf[g] = x.id => \E l \in DOMAIN x.hs : x.hs[l] = g
            /\ \A l, m \in DOMAIN x.hs : x.hs[l] = x.hs[m] => l = m
        <4>1. o \in DOMAIN info.peers
          BY <1>3
        <4> QED BY <1>3, <3>1, <4>1 DEF Lists
      <3>3. PeerOf[h] # x.id
        BY <1>2, <1>5, <3>1 DEF r
      <3> QED BY <3>2, <3>3
    <2> QED BY <2>1, <2>2, <2>3, <2>4 DEF Lists
  <1>14. Adapter!PeersListed'
    BY <1>8, <1>13, AdapterListedNext
  <1>15. Adapter!PicksRun'
    <2>1. CASE peers = <<>>
      BY <1>8, <2>1 DEF Adapter!PicksRun
    <2>2. CASE peers # <<>>
      <3>1. \A x \in Adapter!PeerSession : x.id \in Peers
        BY DEF Adapter!PeerSession
      <3>2. \A j \in 1 .. n - 1 : peers[j].id \in Peers
        BY <1>6, <1>9, <3>1
      <3>3. /\ info'.index \in Nat /\ Len(info'.peers) \in Nat /\ info'.index <= Len(info'.peers)
            /\ DOMAIN info'.peers = 1 .. Len(info'.peers)
            /\ \A j \in 1 .. Len(info'.peers) : info'.peers[j].id \in Peers
        BY <1>6, <1>7, <1>8, <1>9, <2>2, <3>2
      <3> QED BY <3>3, FreshRun
    <2> QED BY <2>1, <2>2
  <1> QED BY <1>12, <1>14, <1>15, SentNothing DEF Adapter!IInv, Adapter!TableExact

\* Every step keeps it: a connection that comes or goes, and a call.
LEMMA AdapterStep == Adapter!IInv /\ [Adapter!Next]_Adapter!vars => Adapter!IInv'
  <1> SUFFICES ASSUME Adapter!IInv, [Adapter!Next]_Adapter!vars
               PROVE  Adapter!IInv'
    OBVIOUS
  <1>1. ASSUME NEW h \in Handlers, Adapter!OnConnectedNodify(h)
        PROVE  Adapter!IInv'
    <2> DEFINE found == Adapter!FindSession(PeerOf[h])
    <2>1. h \notin linked /\ linked' = linked \cup {h} /\ sent' = <<>>
      BY <1>1 DEF Adapter!OnConnectedNodify
    <2>2. CASE found = {} /\ info' \in Adapter!AllocSession(PeerOf[h], h) /\ picks' = Adapter!Fresh
      BY <2>1, <2>2, ConnectNew
    <2>3. CASE /\ \E i \in found : \E s \in Adapter!AddHandler(info.peers[i], h) :
                    info' = [info EXCEPT !.peers[i] = s]
               /\ picks' = picks
      <3>1. PICK i \in found : \E s \in Adapter!AddHandler(info.peers[i], h) :
                    info' = [info EXCEPT !.peers[i] = s]
        BY <2>3
      <3>2. PICK s \in Adapter!AddHandler(info.peers[i], h) : info' = [info EXCEPT !.peers[i] = s]
        BY <3>1
      <3> QED BY <2>1, <2>3, <3>2, ConnectKnown
    <2> QED BY <1>1, <2>2, <2>3 DEF Adapter!OnConnectedNodify
  <1>2. ASSUME NEW h \in Handlers, Adapter!OnNetworkError(h)
        PROVE  Adapter!IInv'
    <2>1. PICK i \in Adapter!FindSession(PeerOf[h]) :
            /\ h \in linked
            /\ linked' = linked \ {h}
            /\ sent' = <<>>
            /\ \/ /\ Len(info.peers[i].hs) = 1
                  /\ info' \in Adapter!FreeSession(i)
                  /\ picks' = Adapter!Fresh
               \/ /\ Len(info.peers[i].hs) > 1
                  /\ \E s \in Adapter!RemoveHandler(info.peers[i], h) :
                       info' = [info EXCEPT !.peers[i] = s]
                  /\ picks' = picks
      BY <1>2 DEF Adapter!OnNetworkError
    <2>2. CASE Len(info.peers[i].hs) = 1 /\ info' \in Adapter!FreeSession(i) /\ picks' = Adapter!Fresh
      BY <2>1, <2>2, DisconnectLast
    <2>3. CASE /\ Len(info.peers[i].hs) > 1
               /\ \E s \in Adapter!RemoveHandler(info.peers[i], h) :
                    info' = [info EXCEPT !.peers[i] = s]
               /\ picks' = picks
      <3>1. PICK s \in Adapter!RemoveHandler(info.peers[i], h) : info' = [info EXCEPT !.peers[i] = s]
        BY <2>3
      <3> QED BY <2>1, <2>3, <3>1, DisconnectOne
    <2> QED BY <2>1, <2>2, <2>3
  <1>3. Len(info.peers) \in Nat /\ DOMAIN info.peers = 1 .. Len(info.peers)
    BY ATyped DEF Adapter!IInv
  <1>4. CASE Adapter!SendMultiEndorseMessage
    <2>1. PICK n \in 1 .. EndorseCount : Adapter!Calls(n, 1)
      BY <1>4 DEF Adapter!SendMultiEndorseMessage
    <2>2. EndorseCount \in Nat /\ Len(info.peers) >= EndorseCount
      BY <1>4, TableAssumption DEF Adapter!SendMultiEndorseMessage
    <2>3. n \in Nat \ {0} /\ 1 \in 1 .. n /\ n <= Len(info.peers)
      BY <1>3, <2>2
    <2>4. info.peers # <<>>
      BY <1>3, <2>3, EmptySeq
    <2> QED BY <2>1, <2>3, <2>4, CallsKeep
  <1>5. CASE Adapter!QueryUserInfo
    BY <1>5, CallsKeep DEF Adapter!QueryUserInfo
  <1>6. CASE Adapter!QueryTransactionInfo
    BY <1>6, CallsKeep DEF Adapter!QueryTransactionInfo
  <1>7. CASE UNCHANGED Adapter!vars
    <2>1. info' = info /\ linked' = linked /\ sent' = sent /\ picks' = picks
      BY <1>7 DEF Adapter!vars
    <2>2. Adapter!TypeOK'
      BY <2>1 DEF Adapter!IInv, Adapter!TypeOK
    <2>3. Adapter!PeersListed'
      BY <2>1, AdapterListed, AdapterListedNext DEF Adapter!IInv, Adapter!TableExact
    <2>4. Adapter!SentApart'
      BY <2>1 DEF Adapter!IInv, Adapter!TableExact, Adapter!SentApart
    <2>5. Adapter!LastPicked' = Adapter!LastPicked
      BY <2>1 DEF Adapter!LastPicked
    <2>6. Adapter!PicksRun'
      BY <2>1, <2>5 DEF Adapter!IInv, Adapter!PicksRun
    <2> QED BY <2>2, <2>3, <2>4, <2>6 DEF Adapter!IInv, Adapter!TableExact
  <1> QED BY <1>1, <1>2, <1>4, <1>5, <1>6, <1>7 DEF Adapter!Next

\* The inductive invariant of the adapter's table: its type, the peers it lists,
\* the peers its calls went to and where the round robin is (AdapterConnTable).
THEOREM AdapterTableInvariance == Adapter!Spec => []Adapter!IInv
  BY AdapterInit, AdapterStep, PTL DEF Adapter!Spec

\* The adapter's table lists exactly its connections, whatever their number and
\* order, and one call of Propose goes over connections of different peers.
THEOREM AdapterTablesExact == Adapter!Spec => []AdapterTableExact
  <1>1. Adapter!IInv => AdapterTableExact
    BY DEF Adapter!IInv, AdapterTableExact
  <1> QED BY <1>1, AdapterTableInvariance, PTL

\* GetMcpHandler() takes the adapter's peers in turn: none is picked a second
\* time while another has not been picked.
THEOREM AdapterPicksEven == Adapter!Spec => []PicksEvenlySpread
  <1>1. Adapter!IInv => PicksEvenlySpread
    <2> SUFFICES ASSUME Adapter!IInv, NEW p \in Adapter!ConnectedPeers
                 PROVE  picks[p] <= 1
      BY DEF PicksEvenlySpread, Adapter!PicksEvenlySpread
    <2> DEFINE n == Len(info.peers)
               f == [i \in DOMAIN info.peers |-> info.peers[i].id]
    <2>1. DOMAIN info.peers = 1 .. n /\ n \in Nat
      BY ATyped DEF Adapter!IInv
    <2>2. PICK k \in 1 .. n : info.peers[k].id = p
      BY <2>1 DEF Adapter!IInv, Adapter!TableExact, Adapter!PeersListed
    <2>3. info.peers # <<>>
      BY <2>1, EmptySeq
    <2>4. Adapter!Even(picks, f, Adapter!LastPicked, n)
      BY <2>3 DEF Adapter!IInv, Adapter!PicksRun
    <2>5. f[k] = p
      BY <2>1, <2>2
    <2> HIDE DEF f, n
    <2>6. PICK j \in 0 .. n - 1 : \A i \in 1 .. n :
            picks[f[i]] = IF Ago(i, Adapter!LastPicked, n) < j THEN 1 ELSE 0
      BY <2>4, AdapterEven
    <2>7. picks[p] = 1 \/ picks[p] = 0
      BY <2>2, <2>5, <2>6
    <2> QED BY <2>7
  <1> QED BY <1>1, AdapterTableInvariance, PTL

(* The arrays of sessions, one connection per session. *)

\* A fold over one element is one step.
LEMMA InsertOne ==
  ASSUME NEW s, NEW h
  PROVE  Arrays!InsertAll(<<h>>, s) = Arrays!Insert(t, h, s)
  <1> DEFINE D == DOMAIN <<h>>
             Solves(f) == f = [d \in SUBSET D |->
                                 IF d = {} THEN t
                                 ELSE Arrays!Insert(f[d \ {Arrays!Max(d)}], <<h>>[Arrays!Max(d)], s)]
             g == [d \in SUBSET D |-> IF d = {} THEN t ELSE Arrays!Insert(t, h, s)]
             iter == CHOOSE f : Solves(f)
  <1>1. D = {1} /\ Arrays!Max({1}) = 1 /\ <<h>>[1] = h
    BY DEF Arrays!Max
  <1>2. Arrays!InsertAll(<<h>>, s) = iter[D]
    BY Zenon DEF Arrays!InsertAll, Arrays!FoldLeft, Arrays!MapThenFoldSet
  <1>3. Solves(g)
    <2>1. ASSUME NEW d \in SUBSET D, d # {}
          PROVE  g[d] = Arrays!Insert(g[d \ {Arrays!Max(d)}], <<h>>[Arrays!Max(d)], s)
      <3>1. d = {1}
        BY <1>1, <2>1
      <3>2. d \ {Arrays!Max(d)} = {} /\ {} \in SUBSET D /\ <<h>>[Arrays!Max(d)] = h
        BY <1>1, <3>1
      <3> HIDE DEF D
      <3>3. g[d \ {Arrays!Max(d)}] = t
        BY <3>2
      <3>4. g[d] = Arrays!Insert(t, h, s)
        BY <2>1
      <3> QED BY <3>2, <3>3, <3>4
    <2>2. \A d \in SUBSET D : g[d] = IF d = {} THEN t
            ELSE Arrays!Insert(g[d \ {Arrays!Max(d)}], <<h>>[Arrays!Max(d)], s)
      <3>1. \A d \in SUBSET D : d = {} => g[d] = t
        OBVIOUS
      <3> HIDE DEF D, g
      <3> QED BY <2>1, <3>1
    <2>3. g = [d \in SUBSET D |-> g[d]]
      OBVIOUS
    <2> HIDE DEF D, g
    <2> QED BY <2>2, <2>3, Zenon
  <1>4. Solves(iter)
    <2> HIDE DEF Solves
    <2> QED BY <1>3, Zenon
  <1> HIDE DEF iter, D
  <1>5. iter[{1}] = Arrays!Insert(iter[{}], h, s) /\ iter[{}] = t
    <2>1. {1} \in SUBSET D /\ {} \in SUBSET D /\ {1} # {} /\ {1} \ {1} = {}
      BY <1>1
    <2>2. \A d \in SUBSET D : iter[d] = IF d = {} THEN t
            ELSE Arrays!Insert(iter[d \ {Arrays!Max(d)}], <<h>>[Arrays!Max(d)], s)
      BY <1>4, Zenon
    <2>3. iter[{}] = t
      BY <2>1, <2>2, Zenon
    <2>4. iter[{1}] = Arrays!Insert(iter[{1} \ {Arrays!Max({1})}], <<h>>[Arrays!Max({1})], s)
      BY <2>1, <2>2, Zenon
    <2> QED BY <1>1, <2>1, <2>3, <2>4
  <1> QED BY <1>1, <1>2, <1>5

\* The same for erasing.
LEMMA EraseOne ==
  ASSUME NEW u, NEW h, NEW s, NEW ignored
  PROVE  Arrays!EraseAll(u, <<h>>, s, ignored) =
           IF h \in ignored THEN u ELSE Arrays!Erase(u, h, s)
  <1> DEFINE D == DOMAIN <<h>>
             Op(v, x) == IF x \in ignored THEN v ELSE Arrays!Erase(v, x, s)
             Solves(f) == f = [d \in SUBSET D |->
                                 IF d = {} THEN u
                                 ELSE Op(f[d \ {Arrays!Max(d)}], <<h>>[Arrays!Max(d)])]
             g == [d \in SUBSET D |-> IF d = {} THEN u ELSE Op(u, h)]
             iter == CHOOSE f : Solves(f)
  <1>1. D = {1} /\ Arrays!Max({1}) = 1 /\ <<h>>[1] = h
    BY DEF Arrays!Max
  <1>2. Arrays!EraseAll(u, <<h>>, s, ignored) = iter[D]
    BY Zenon DEF Arrays!EraseAll, Arrays!FoldLeft, Arrays!MapThenFoldSet
  <1> HIDE DEF Op
  <1>3. Solves(g)
    <2>1. ASSUME NEW d \in SUBSET D, d # {}
          PROVE  g[d] = Op(g[d \ {Arrays!Max(d)}], <<h>>[Arrays!Max(d)])
      <3>1. d = {1}
        BY <1>1, <2>1
      <3>2. d \ {Arrays!Max(d)} = {} /\ {} \in SUBSET D /\ <<h>>[Arrays!Max(d)] = h
        BY <1>1, <3>1
      <3> HIDE DEF D
      <3>3. g[d \ {Arrays!Max(d)}] = u
        BY <3>2
      <3>4. g[d] = Op(u, h)
        BY <2>1
      <3> QED BY <3>2, <3>3, <3>4
    <2>2. \A d \in SUBSET D : g[d] = IF d = {} THEN u
            ELSE Op(g[d \ {Arrays!Max(d)}], <<h>>[Arrays!Max(d)])
      <3>1. \A d \in SUBSET D : d = {} => g[d] = u
        OBVIOUS
      <3> HIDE DEF D, g
      <3> QED BY <2>1, <3>1
    <2>3. g = [d \in SUBSET D |-> g[d]]
      OBVIOUS
    <2> HIDE DEF D, g
    <2> QED BY <2>2, <2>3, Zenon
  <1>4. Solves(iter)
    <2> HIDE DEF Solves
    <2> QED BY <1>3, Zenon
  <1> HIDE DEF iter, D
  <1>5. iter[{1}] = Op(iter[{}], h) /\ iter[{}] = u
    <2>1. {1} \in SUBSET D /\ {} \in SUBSET D /\ {1} # {} /\ {1} \ {1} = {}
      BY <1>1
    <2>2. \A d \in SUBSET D : iter[d] = IF d = {} THEN u
            ELSE Op(iter[d \ {Arrays!Max(d)}], <<h>>[Arrays!Max(d)])
      BY <1>4, Zenon
    <2>3. iter[{}] = u
      BY <2>1, <2>2, Zenon
    <2>4. iter[{1}] = Op(iter[{1} \ {Arrays!Max({1})}], <<h>>[Arrays!Max({1})])
      BY <2>1, <2>2, Zenon
    <2> QED BY <1>1, <2>1, <2>3, <2>4
  <1> QED BY <1>1, <1>2, <1>5 DEF Op

(* The inductive invariant: a session hangs on no connection or on one, and *)
(* the arrays hold it there, at its index.                                  *)

OneLink == {<<>>} \cup {<<h>> : h \in Handlers}

ArrayTypeOK ==
  /\ t \in [arr : [Handlers -> Seq(Sessions)], m_nIndex : [Sessions -> Nat]]
  /\ links \in [Sessions -> OneLink]

Held(arr, index, ls) ==
  \A h \in Handlers :
    /\ \A k \in 1 .. Len(arr[h]) : ls[arr[h][k]] = <<h>> /\ index[arr[h][k]] = k - 1
    /\ \A s \in Sessions : ls[s] = <<h>> => \E k \in 1 .. Len(arr[h]) : arr[h][k] = s

ArrayInv == ArrayTypeOK /\ Held(t.arr, t.m_nIndex, links)

\* A list of one connection is that connection.
LEMMA OneTuple == \A g, h : /\ <<g>> = <<h>> => g = h
                            /\ <<g>> # <<>> /\ DOMAIN <<g>> = {1} /\ <<g>>[1] = g
  OBVIOUS

\* What the type invariant says of the arrays.
LEMMA ArrayTyped ==
  ASSUME ArrayTypeOK
  PROVE  /\ t = [arr |-> t.arr, m_nIndex |-> t.m_nIndex]
         /\ t.arr \in [Handlers -> Seq(Sessions)] /\ t.m_nIndex \in [Sessions -> Nat]
         /\ links \in [Sessions -> OneLink]
         /\ \A h \in Handlers : /\ t.arr[h] \in Seq(Sessions) /\ Len(t.arr[h]) \in Nat
                                /\ DOMAIN t.arr[h] = 1 .. Len(t.arr[h])
                                /\ \A k \in 1 .. Len(t.arr[h]) : t.arr[h][k] \in Sessions
  <1>1. t = [arr |-> t.arr, m_nIndex |-> t.m_nIndex]
        /\ t.arr \in [Handlers -> Seq(Sessions)] /\ t.m_nIndex \in [Sessions -> Nat]
        /\ links \in [Sessions -> OneLink]
    BY DEF ArrayTypeOK
  <1>2. ASSUME NEW h \in Handlers
        PROVE  /\ t.arr[h] \in Seq(Sessions) /\ Len(t.arr[h]) \in Nat
               /\ DOMAIN t.arr[h] = 1 .. Len(t.arr[h])
               /\ \A k \in 1 .. Len(t.arr[h]) : t.arr[h][k] \in Sessions
    <2>1. t.arr[h] \in Seq(Sessions)
      BY <1>1
    <2> QED BY <2>1, LenProperties
  <1> QED BY <1>1, <1>2

\* The arrays are exact.
LEMMA HeldIsExact == ArrayInv => ArraysExact
  <1> SUFFICES ASSUME ArrayInv, NEW h \in Handlers
               PROVE  /\ Arrays!ToSet(t.arr[h]) = Arrays!On(h) /\ Arrays!IsInjective(t.arr[h])
                      /\ \A i \in DOMAIN t.arr[h] : t.m_nIndex[t.arr[h][i]] = i - 1
    BY DEF ArraysExact, Arrays!ArraysExact
  <1> DEFINE a == t.arr[h]
             index == t.m_nIndex
  <1>1. /\ a \in Seq(Sessions) /\ DOMAIN a = 1 .. Len(a) /\ Len(a) \in Nat
        /\ \A k \in 1 .. Len(a) : a[k] \in Sessions
        /\ links \in [Sessions -> OneLink]
    BY ArrayTyped DEF ArrayInv
  <1>2. /\ \A k \in 1 .. Len(a) : links[a[k]] = <<h>> /\ index[a[k]] = k - 1
        /\ \A s \in Sessions : links[s] = <<h>> => \E k \in 1 .. Len(a) : a[k] = s
    BY DEF ArrayInv, Held
  <1> HIDE DEF a, index
  <1>3. Arrays!On(h) = {s \in Sessions : links[s] = <<h>>}
    <2>1. ASSUME NEW s \in Sessions
          PROVE  (links[s] # <<>> /\ h \in {links[s][i] : i \in DOMAIN links[s]}) <=> links[s] = <<h>>
      <3>1. CASE links[s] = <<>>
        BY <3>1, OneTuple
      <3>2. ASSUME NEW g \in Handlers, links[s] = <<g>>
            PROVE  (links[s] # <<>> /\ h \in {links[s][i] : i \in DOMAIN links[s]}) <=> links[s] = <<h>>
        <4>1. {<<g>>[i] : i \in DOMAIN <<g>>} = {g}
          BY OneTuple
        <4> QED BY <3>2, <4>1, OneTuple
      <3> QED BY <1>1, <3>1, <3>2 DEF OneLink
    <2> QED BY <2>1 DEF Arrays!On, Arrays!Used, Arrays!ToSet
  <1>4. {a[k] : k \in DOMAIN a} = {s \in Sessions : links[s] = <<h>>}
    <2>1. \A k \in DOMAIN a : a[k] \in Sessions /\ links[a[k]] = <<h>>
      BY <1>1, <1>2
    <2>2. \A s \in Sessions : links[s] = <<h>> => \E k \in DOMAIN a : s = a[k]
      BY <1>1, <1>2
    <2>3. ASSUME NEW s \in {a[k] : k \in DOMAIN a}
          PROVE  s \in Sessions /\ links[s] = <<h>>
      BY <2>1
    <2>4. ASSUME NEW s \in Sessions, links[s] = <<h>>
          PROVE  s \in {a[k] : k \in DOMAIN a}
      BY <2>2, <2>4
    <2> DEFINE A == {a[k] : k \in DOMAIN a}
               B == {s \in Sessions : links[s] = <<h>>}
    <2>5. \A s : s \in A <=> s \in B
      BY <2>3, <2>4
    <2> HIDE DEF A, B
    <2>6. A = B
      BY <2>5
    <2> QED BY <2>6 DEF A, B
  <1>5. \A k, l \in DOMAIN a : a[k] = a[l] => k = l
    <2> SUFFICES ASSUME NEW k \in 1 .. Len(a), NEW l \in 1 .. Len(a), a[k] = a[l]
                 PROVE  k = l
      BY <1>1
    <2>1. k - 1 = l - 1
      BY <1>2
    <2> QED BY <1>1, <2>1
  <1>6. \A i \in DOMAIN a : index[a[i]] = i - 1
    BY <1>1, <1>2
  <1> QED BY <1>3, <1>4, <1>5, <1>6 DEF Arrays!ToSet, Arrays!IsInjective, a, index

\* Nothing is held at the start.
LEMMA ArrayInit == Arrays!Init => ArrayInv
  <1> SUFFICES ASSUME Arrays!Init PROVE ArrayInv
    OBVIOUS
  <1> DEFINE arr == [h \in Handlers |-> <<>>]
             index == [s \in Sessions |-> 0]
  <1>1. t = [arr |-> arr, m_nIndex |-> index] /\ links = [s \in Sessions |-> <<>>]
    BY DEF Arrays!Init
  <1>2. arr \in [Handlers -> Seq(Sessions)] /\ index \in [Sessions -> Nat]
    BY EmptySeq
  <1>3. \A h \in Handlers : Len(arr[h]) = 0
    BY EmptySeq
  <1> HIDE DEF arr, index
  <1>4. t.arr = arr /\ t.m_nIndex = index
    BY <1>1
  <1>5. links \in [Sessions -> OneLink] /\ \A s \in Sessions : links[s] = <<>>
    BY <1>1 DEF OneLink
  <1>6. \A h \in Handlers, s \in Sessions : links[s] # <<h>>
    BY <1>5, OneTuple
  <1>7. Held(arr, index, links)
    BY <1>3, <1>6 DEF Held
  <1> QED BY <1>1, <1>2, <1>4, <1>5, <1>7 DEF ArrayInv, ArrayTypeOK

\* A new session goes to the end of its connection's array.
LEMMA OpenKeeps ==
  ASSUME ArrayInv, NEW s \in Sessions, NEW hs \in Arrays!BoundedSeq(Handlers, 1),
         Arrays!Open(s, hs)
  PROVE  ArrayInv'
  <1>1. PICK h \in Handlers : hs = <<h>>
    <2>1. PICK m \in 0 .. 1 : hs \in [1 .. m -> Handlers]
      BY DEF Arrays!BoundedSeq, Arrays!SeqOf
    <2>2. Len(hs) \in 1 .. 1
      BY DEF Arrays!Open
    <2>3. hs \in [1 .. 1 -> Handlers]
      <3>1. m \in Nat => Len(hs) = m
        BY <2>1
      <3>2. m = 1
        BY <2>1, <2>2, <3>1
      <3> QED BY <2>1, <3>2
    <2>4. hs = <<hs[1]>> /\ hs[1] \in Handlers
      BY <2>3
    <2> QED BY <2>4
  <1> DEFINE a == t.arr[h]
             n == Len(a)
             more == Append(a, s)
             arr == [t.arr EXCEPT ![h] = more]
             index == [t.m_nIndex EXCEPT ![s] = n]
             ls == [links EXCEPT ![s] = <<h>>]
  <1>2. /\ t.arr \in [Handlers -> Seq(Sessions)] /\ t.m_nIndex \in [Sessions -> Nat]
        /\ links \in [Sessions -> OneLink] /\ a \in Seq(Sessions) /\ n \in Nat
        /\ \A g \in Handlers : Len(t.arr[g]) \in Nat /\ \A k \in 1 .. Len(t.arr[g]) : t.arr[g][k] \in Sessions
    BY ArrayTyped DEF ArrayInv
  <1>3. t' = [arr |-> arr, m_nIndex |-> index] /\ links' = ls
    BY <1>1, <1>2, InsertOne DEF Arrays!Open, Arrays!Insert
  <1>4. links[s] = <<>>
    BY DEF Arrays!Open, Arrays!Used
  <1>5. /\ more \in Seq(Sessions) /\ Len(more) = n + 1 /\ more[n + 1] = s
        /\ \A k \in 1 .. n : more[k] = a[k]
    BY <1>2, AppendProperties
  <1>6. Held(t.arr, t.m_nIndex, links)
    BY DEF ArrayInv
  <1> HIDE DEF more, n, a
  <1>7. /\ arr \in [Handlers -> Seq(Sessions)] /\ arr[h] = more
        /\ \A g \in Handlers : g # h => arr[g] = t.arr[g]
        /\ index \in [Sessions -> Nat] /\ index[s] = n
        /\ \A x \in Sessions : x # s => index[x] = t.m_nIndex[x]
        /\ ls \in [Sessions -> OneLink] /\ ls[s] = <<h>>
        /\ \A x \in Sessions : x # s => ls[x] = links[x]
    BY <1>2, <1>5 DEF OneLink
  <1> HIDE DEF arr, index, ls
  <1>8. ASSUME NEW g \in Handlers, NEW k \in 1 .. Len(t.arr[g]), NEW x, x = t.arr[g][k]
        PROVE  x \in Sessions /\ x # s /\ ls[x] = <<g>> /\ index[x] = k - 1
    <2>1. x \in Sessions /\ links[x] = <<g>> /\ t.m_nIndex[x] = k - 1
      BY <1>2, <1>6, <1>8 DEF Held
    <2>2. x # s
      BY <1>4, <2>1, OneTuple
    <2> QED BY <1>7, <2>1, <2>2
  <1>9. ASSUME NEW g \in Handlers
        PROVE  /\ \A k \in 1 .. Len(arr[g]) : ls[arr[g][k]] = <<g>> /\ index[arr[g][k]] = k - 1
               /\ \A x \in Sessions : ls[x] = <<g>> => \E k \in 1 .. Len(arr[g]) : arr[g][k] = x
    <2>1. CASE g # h
      <3>1. arr[g] = t.arr[g]
        BY <1>7, <2>1
      <3>2. ASSUME NEW x \in Sessions, ls[x] = <<g>>
            PROVE  \E k \in 1 .. Len(t.arr[g]) : t.arr[g][k] = x
        <4>1. links[x] = <<g>>
          BY <1>7, <2>1, <3>2, OneTuple
        <4> QED BY <1>6, <4>1 DEF Held
      <3>3. ASSUME NEW k \in 1 .. Len(t.arr[g])
            PROVE  ls[t.arr[g][k]] = <<g>> /\ index[t.arr[g][k]] = k - 1
        BY <1>8, ZenonT(30)
      <3> QED BY <3>1, <3>2, <3>3
    <2>2. CASE g = h
      <3>1. arr[g] = more /\ Len(arr[g]) = n + 1
        BY <1>5, <1>7, <2>2
      <3>2. ASSUME NEW k \in 1 .. n + 1
            PROVE  ls[more[k]] = <<g>> /\ index[more[k]] = k - 1
        <4>1. CASE k = n + 1
          BY <1>2, <1>5, <1>7, <2>2, <4>1
        <4>2. CASE k \in 1 .. n
          <5>1. k \in 1 .. Len(t.arr[g]) /\ more[k] = t.arr[g][k]
            BY <1>5, <2>2, <4>2 DEF a, n
          <5> QED BY <1>8, <5>1
        <4> QED BY <1>2, <4>1, <4>2
      <3>3. ASSUME NEW x \in Sessions, ls[x] = <<g>>
            PROVE  \E k \in 1 .. n + 1 : more[k] = x
        <4>1. CASE x = s
          <5>1. n + 1 \in 1 .. n + 1
            BY <1>2
          <5> QED BY <1>5, <4>1, <5>1
        <4>2. CASE x # s
          <5>1. links[x] = <<h>>
            BY <1>7, <2>2, <3>3, <4>2
          <5>2. PICK k \in 1 .. n : a[k] = x
            BY <1>6, <5>1 DEF Held, a, n
          <5>3. k \in 1 .. n + 1 /\ more[k] = x
            BY <1>2, <1>5, <5>2
          <5> QED BY <5>3
        <4> QED BY <4>1, <4>2
      <3> QED BY <3>1, <3>2, <3>3
    <2> QED BY <2>1, <2>2
  <1>10. Held(arr, index, ls)
    BY <1>9 DEF Held
  <1>11. t'.arr = arr /\ t'.m_nIndex = index
    BY <1>3
  <1> QED BY <1>3, <1>7, <1>10, <1>11 DEF ArrayInv, ArrayTypeOK

\* The last element takes the place of the one at pos.
LEMMA FillOne ==
  ASSUME NEW S, NEW seq \in Seq(S), NEW i \in 1 .. Len(seq)
  PROVE  /\ Arrays!Fill(seq, i) \in Seq(S)
         /\ Len(Arrays!Fill(seq, i)) = Len(seq) - 1
         /\ \A j \in 1 .. Len(seq) - 1 :
              Arrays!Fill(seq, i)[j] = IF j = i THEN seq[Len(seq)] ELSE seq[j]
  <1>1. Arrays!Fill(seq, i) = Adapter!Without(seq, i)
    BY Zenon DEF Arrays!Fill, Arrays!Front, Arrays!Last, Adapter!Without, Adapter!Front, Adapter!Last
  <1> QED BY <1>1, WithoutOne

\* A session that hangs on a connection hangs on that one.
LEMMA LinkOf ==
  ASSUME ArrayTypeOK, NEW s \in Sessions, links[s] # <<>>
  PROVE  \E h \in Handlers : links[s] = <<h>>
  BY DEF ArrayTypeOK, OneLink

\* A session released leaves its array, and the last one takes its place.
LEMMA ReleaseKeeps ==
  ASSUME ArrayInv, NEW s \in Sessions, Arrays!Release(s)
  PROVE  ArrayInv'
  <1>1. PICK h \in Handlers : links[s] = <<h>>
    BY LinkOf DEF ArrayInv, Arrays!Release, Arrays!Used
  <1> DEFINE a == t.arr[h]
             n == Len(a)
  <1>2. /\ t.arr \in [Handlers -> Seq(Sessions)] /\ t.m_nIndex \in [Sessions -> Nat]
        /\ links \in [Sessions -> OneLink] /\ a \in Seq(Sessions) /\ n \in Nat
        /\ DOMAIN a = 1 .. n /\ t = [arr |-> t.arr, m_nIndex |-> t.m_nIndex]
        /\ \A g \in Handlers : Len(t.arr[g]) \in Nat /\ \A k \in 1 .. Len(t.arr[g]) : t.arr[g][k] \in Sessions
    BY ArrayTyped DEF ArrayInv
  <1>3. Held(t.arr, t.m_nIndex, links)
    BY DEF ArrayInv
  <1>4. PICK p \in 1 .. n : a[p] = s /\ t.m_nIndex[s] = p - 1
    <2>1. PICK p \in 1 .. n : a[p] = s
      BY <1>1, <1>3 DEF Held
    <2>2. t.m_nIndex[a[p]] = p - 1
      BY <1>3 DEF Held
    <2> QED BY <2>1, <2>2
  <1> DEFINE last == a[n]
             less == Arrays!Fill(a, p)
             arr == [t.arr EXCEPT ![h] = less]
             index == [t.m_nIndex EXCEPT ![last] = p - 1]
             ls == [links EXCEPT ![s] = <<>>]
  <1>5. t' = [arr |-> arr, m_nIndex |-> index] /\ links' = ls
    <2>1. t' = Arrays!EraseAll(t, <<h>>, s, {}) /\ links' = ls
      BY <1>1 DEF Arrays!Release
    <2>2. t' = Arrays!Erase(t, h, s)
      BY <2>1, EraseOne
    <2>3. t.m_nIndex[s] + 1 = p /\ p \in DOMAIN t.arr[h]
      BY <1>2, <1>4
    <2>4. Arrays!Last(t.arr[h]) = last
      BY DEF Arrays!Last
    <2> HIDE DEF last, less
    <2>5. [t.arr EXCEPT ![h] = Arrays!Fill(@, p)] = arr
      BY DEF less
    <2> HIDE DEF arr, a
    <2>6. Arrays!Erase(t, h, s) = [arr |-> [t.arr EXCEPT ![h] = Arrays!Fill(@, p)],
                                   m_nIndex |-> [t.m_nIndex EXCEPT ![last] = p - 1]]
      BY <2>3, <2>4, Zenon DEF Arrays!Erase
    <2> QED BY <2>1, <2>2, <2>5, <2>6
  <1>6. /\ less \in Seq(Sessions) /\ Len(less) = n - 1
        /\ \A j \in 1 .. n - 1 : less[j] = IF j = p THEN last ELSE a[j]
    BY <1>2, FillOne
  <1>7. n \in 1 .. n /\ last \in Sessions
    <2>1. n \in 1 .. n
      BY <1>2, <1>4
    <2> QED BY <1>2, <2>1
  <1>8. \A k \in 1 .. n : /\ a[k] \in Sessions /\ links[a[k]] = <<h>> /\ t.m_nIndex[a[k]] = k - 1
    BY <1>2, <1>3 DEF Held
  <1> HIDE DEF less, n, a
  <1>9. t.m_nIndex[last] = n - 1 /\ links[last] = <<h>>
    BY <1>7, <1>8
  <1> HIDE DEF last
  <1>10. /\ arr \in [Handlers -> Seq(Sessions)] /\ arr[h] = less
         /\ \A g \in Handlers : g # h => arr[g] = t.arr[g]
         /\ index \in [Sessions -> Nat] /\ index[last] = p - 1
         /\ \A x \in Sessions : x # last => index[x] = t.m_nIndex[x]
         /\ ls \in [Sessions -> OneLink] /\ ls[s] = <<>>
         /\ \A x \in Sessions : x # s => ls[x] = links[x]
    <2>1. p - 1 \in Nat
      BY <1>2, <1>4
    <2> QED BY <1>2, <1>6, <1>7, <2>1 DEF OneLink
  <1> HIDE DEF arr, index, ls
  <1>11. ASSUME NEW g \in Handlers
         PROVE  /\ \A k \in 1 .. Len(arr[g]) : ls[arr[g][k]] = <<g>> /\ index[arr[g][k]] = k - 1
                /\ \A x \in Sessions : ls[x] = <<g>> => \E k \in 1 .. Len(arr[g]) : arr[g][k] = x
    <2>1. CASE g # h
      <3>1. arr[g] = t.arr[g]
        BY <1>10, <2>1
      <3>2. ASSUME NEW k \in 1 .. Len(t.arr[g]), NEW x, x = t.arr[g][k]
            PROVE  ls[x] = <<g>> /\ index[x] = k - 1
        <4>1. x \in Sessions /\ links[x] = <<g>> /\ t.m_nIndex[x] = k - 1
          BY <1>2, <1>3, <3>2 DEF Held
        <4>2. x # s /\ x # last
          BY <1>1, <1>9, <2>1, <4>1, OneTuple
        <4> QED BY <1>10, <4>1, <4>2
      <3>3. ASSUME NEW x \in Sessions, ls[x] = <<g>>
            PROVE  \E k \in 1 .. Len(t.arr[g]) : t.arr[g][k] = x
        <4>1. links[x] = <<g>>
          BY <1>10, <3>3, OneTuple
        <4> QED BY <1>3, <4>1 DEF Held
      <3> QED BY <3>1, <3>2, <3>3
    <2>2. CASE g = h
      <3>1. arr[g] = less /\ Len(arr[g]) = n - 1
        BY <1>6, <1>10, <2>2
      <3>2. ASSUME NEW k \in 1 .. n - 1
            PROVE  ls[less[k]] = <<g>> /\ index[less[k]] = k - 1
        <4>1. CASE k = p
          <5>1. less[k] = last /\ last # s
            BY <1>2, <1>4, <1>6, <1>9, <4>1
          <5> QED BY <1>7, <1>9, <1>10, <2>2, <4>1, <5>1
        <4>2. CASE k # p
          <5>1. k \in 1 .. n /\ k # n /\ less[k] = a[k]
            BY <1>2, <1>6, <4>2
          <5>2. a[k] \in Sessions /\ links[a[k]] = <<h>> /\ t.m_nIndex[a[k]] = k - 1
            BY <1>8, <5>1
          <5>3. a[k] # s /\ a[k] # last
            BY <1>2, <1>4, <1>9, <4>2, <5>1, <5>2
          <5> QED BY <1>10, <2>2, <5>1, <5>2, <5>3
        <4> QED BY <4>1, <4>2
      <3>3. ASSUME NEW x \in Sessions, ls[x] = <<g>>
            PROVE  \E k \in 1 .. n - 1 : less[k] = x
        <4>1. x # s /\ links[x] = <<h>>
          BY <1>10, <2>2, <3>3, OneTuple
        <4>2. PICK k \in 1 .. n : a[k] = x
          BY <1>3, <4>1 DEF Held, a, n
        <4>3. k # p
          BY <1>4, <4>1, <4>2
        <4>4. CASE k = n
          <5>1. p \in 1 .. n - 1 /\ less[p] = x
            BY <1>2, <1>4, <1>6, <4>2, <4>3, <4>4 DEF last
          <5> QED BY <5>1
        <4>5. CASE k # n
          <5>1. k \in 1 .. n - 1 /\ less[k] = x
            BY <1>2, <1>6, <4>2, <4>3, <4>5
          <5> QED BY <5>1
        <4> QED BY <4>4, <4>5
      <3> QED BY <3>1, <3>2, <3>3
    <2> QED BY <2>1, <2>2
  <1>12. Held(arr, index, ls)
    BY <1>11 DEF Held
  <1>13. t'.arr = arr /\ t'.m_nIndex = index
    BY <1>5
  <1> QED BY <1>5, <1>10, <1>12, <1>13 DEF ArrayInv, ArrayTypeOK

\* The sessions of a broken connection are in no other array.
LEMMA LostFold ==
  ASSUME ArrayInv, NEW h \in Handlers
  PROVE  Arrays!FoldLeft(LAMBDA v, s : Arrays!EraseAll(v, links[s], s, {h}), t, t.arr[h]) = t
  <1> DEFINE lost == t.arr[h]
             n == Len(lost)
             D == DOMAIN lost
             Op(v, s) == Arrays!EraseAll(v, links[s], s, {h})
             Solves(f) == f = [d \in SUBSET D |->
                                 IF d = {} THEN t
                                 ELSE Op(f[d \ {Arrays!Max(d)}], lost[Arrays!Max(d)])]
             g == [d \in SUBSET D |-> t]
             iter == CHOOSE f : Solves(f)
  <1>1. n \in Nat /\ D = 1 .. n
    BY ArrayTyped DEF ArrayInv
  <1>2. Arrays!FoldLeft(LAMBDA v, s : Arrays!EraseAll(v, links[s], s, {h}), t, t.arr[h]) = iter[D]
    BY Zenon DEF Arrays!FoldLeft, Arrays!MapThenFoldSet
  <1>3. ASSUME NEW d \in SUBSET D, d # {}
        PROVE  Arrays!Max(d) \in d /\ \A x \in d : x <= Arrays!Max(d)
    <2>1. \E m \in d : \A x \in d : x <= m
      BY <1>1, <1>3, GreatestUpTo
    <2>2. \E m \in d : \A x \in d : m >= x
      <3>1. \A x \in d : x \in Int
        BY <1>1
      <3> QED BY <2>1, <3>1
    <2>3. Arrays!Max(d) \in d /\ \A x \in d : Arrays!Max(d) >= x
      BY <2>2, Zenon DEF Arrays!Max
    <2>4. \A x \in d : x \in Int
      BY <1>1
    <2> QED BY <2>3, <2>4
  <1>4. ASSUME NEW v, NEW k \in D
        PROVE  Op(v, lost[k]) = v
    <2>1. links[lost[k]] = <<h>>
      BY <1>1 DEF ArrayInv, Held
    <2> QED BY <2>1, EraseOne
  <1> HIDE DEF Op, D, lost, n
  <1>5. Solves(g)
    <2>1. ASSUME NEW d \in SUBSET D
          PROVE  t = IF d = {} THEN t ELSE Op(g[d \ {Arrays!Max(d)}], lost[Arrays!Max(d)])
      <3>1. CASE d # {}
        <4>1. d \ {Arrays!Max(d)} \in SUBSET D /\ Arrays!Max(d) \in D
          BY <1>3, <3>1
        <4>2. g[d \ {Arrays!Max(d)}] = t
          BY <4>1
        <4> HIDE DEF g
        <4> QED BY <1>4, <3>1, <4>1, <4>2
      <3> QED BY <3>1
    <2>2. g = [d \in SUBSET D |->
                 IF d = {} THEN t ELSE Op(g[d \ {Arrays!Max(d)}], lost[Arrays!Max(d)])]
      <3>1. \A d \in SUBSET D : g[d] = t
        OBVIOUS
      <3>2. g = [d \in SUBSET D |-> g[d]]
        OBVIOUS
      <3> HIDE DEF g
      <3>3. \A d \in SUBSET D :
              g[d] = IF d = {} THEN t ELSE Op(g[d \ {Arrays!Max(d)}], lost[Arrays!Max(d)])
        BY <2>1, <3>1, Zenon
      <3> QED BY <3>2, <3>3, Zenon
    <2> HIDE DEF g
    <2> QED BY <2>2, Zenon
  <1>6. \A d \in SUBSET D : iter[d] =
          IF d = {} THEN t ELSE Op(iter[d \ {Arrays!Max(d)}], lost[Arrays!Max(d)])
    <2>1. Solves(iter)
      <3> HIDE DEF Solves
      <3> QED BY <1>5, Zenon
    <2> HIDE DEF iter
    <2> QED BY <2>1, Zenon
  <1> HIDE DEF iter, g
  <1> DEFINE S == {m \in Nat : \A d \in SUBSET D : d \subseteq 1 .. m => iter[d] = t}
  <1>7. 0 \in S
    <2>1. \A d : d \subseteq 1 .. 0 => d = {}
      OBVIOUS
    <2> QED BY <1>6, <2>1
  <1>8. ASSUME NEW m \in Nat, m \in S
        PROVE  m + 1 \in S
    <2>1. ASSUME NEW d \in SUBSET D, d \subseteq 1 .. m + 1
          PROVE  iter[d] = t
      <3>1. CASE d = {}
        BY <1>6, <3>1
      <3>2. CASE d # {}
        <4> DEFINE x == Arrays!Max(d)
        <4>1. x \in d /\ x \in D /\ \A y \in d : y <= x
          BY <1>3, <3>2
        <4> HIDE DEF x
        <4>2. d \ {x} \in SUBSET D /\ d \ {x} \subseteq 1 .. m
          BY <2>1, <4>1
        <4>3. iter[d \ {x}] = t
          BY <1>8, <4>2
        <4>4. iter[d] = Op(iter[d \ {x}], lost[x])
          BY <1>6, <3>2, Zenon DEF x
        <4> QED BY <1>4, <4>1, <4>3, <4>4
      <3> QED BY <3>1, <3>2
    <2> QED BY <2>1
  <1>9. n \in S
    <2>1. \A m \in Nat : m \in S
      <3> HIDE DEF S
      <3> QED BY <1>7, <1>8, SetInduction
    <2> QED BY <1>1, <2>1
  <1>10. iter[D] = t
    BY <1>1, <1>9
  <1> QED BY <1>2, <1>10

\* A broken connection loses its array, its sessions their link.
LEMMA BreakKeeps ==
  ASSUME ArrayInv, NEW h \in Handlers, Arrays!OnNetworkError(h)
  PROVE  ArrayInv'
  <1> DEFINE lost == {t.arr[h][k] : k \in DOMAIN t.arr[h]}
             arr == [t.arr EXCEPT ![h] = <<>>]
             ls == [s \in Sessions |-> IF s \in lost THEN <<>> ELSE links[s]]
  <1>1. /\ t.arr \in [Handlers -> Seq(Sessions)] /\ t.m_nIndex \in [Sessions -> Nat]
        /\ links \in [Sessions -> OneLink] /\ t = [arr |-> t.arr, m_nIndex |-> t.m_nIndex]
        /\ \A g \in Handlers : /\ DOMAIN t.arr[g] = 1 .. Len(t.arr[g])
                               /\ \A k \in 1 .. Len(t.arr[g]) : t.arr[g][k] \in Sessions
    BY ArrayTyped DEF ArrayInv
  <1>2. Held(t.arr, t.m_nIndex, links)
    BY DEF ArrayInv
  <1>3. t' = [arr |-> arr, m_nIndex |-> t.m_nIndex] /\ links' = ls
    <2>1. t' = [Arrays!FoldLeft(LAMBDA v, s : Arrays!EraseAll(v, links[s], s, {h}), t, t.arr[h])
                  EXCEPT !.arr[h] = <<>>]
          /\ links' = [s \in Sessions |-> IF s \in Arrays!ToSet(t.arr[h]) THEN <<>> ELSE links[s]]
      BY Zenon DEF Arrays!OnNetworkError
    <2>2. t' = [t EXCEPT !.arr[h] = <<>>]
      BY <2>1, LostFold, Zenon
    <2>3. Arrays!ToSet(t.arr[h]) = lost
      BY DEF Arrays!ToSet
    <2>4. [t EXCEPT !.arr[h] = <<>>] = [arr |-> arr, m_nIndex |-> t.m_nIndex]
      <3>1. t = [arr |-> t.arr, m_nIndex |-> t.m_nIndex]
        BY <1>1
      <3>2. \A x, y : [[arr |-> x, m_nIndex |-> y] EXCEPT !.arr[h] = <<>>] =
                       [arr |-> [x EXCEPT ![h] = <<>>], m_nIndex |-> y]
        OBVIOUS
      <3> QED BY <3>1, <3>2, Zenon
    <2> HIDE DEF lost
    <2> QED BY <2>1, <2>2, <2>3, <2>4
  <1>4. \A x : x \in lost <=> \E k \in 1 .. Len(t.arr[h]) : t.arr[h][k] = x
    BY <1>1
  <1> HIDE DEF lost
  <1>5. \A x \in Sessions : x \in lost <=> links[x] = <<h>>
    <2>1. ASSUME NEW x \in Sessions, x \in lost
          PROVE  links[x] = <<h>>
      <3>1. PICK k \in 1 .. Len(t.arr[h]) : t.arr[h][k] = x
        BY <1>4, <2>1
      <3> QED BY <1>2, <3>1 DEF Held
    <2>2. ASSUME NEW x \in Sessions, links[x] = <<h>>
          PROVE  x \in lost
      BY <1>2, <1>4, <2>2 DEF Held
    <2> QED BY <2>1, <2>2
  <1>6. /\ arr \in [Handlers -> Seq(Sessions)] /\ arr[h] = <<>> /\ Len(arr[h]) = 0
        /\ \A g \in Handlers : g # h => arr[g] = t.arr[g]
        /\ ls \in [Sessions -> OneLink]
        /\ \A x \in Sessions : ls[x] = IF links[x] = <<h>> THEN <<>> ELSE links[x]
    BY <1>1, <1>5, EmptySeq DEF OneLink
  <1> HIDE DEF arr, ls
  <1>7. ASSUME NEW g \in Handlers
        PROVE  /\ \A k \in 1 .. Len(arr[g]) : ls[arr[g][k]] = <<g>> /\ t.m_nIndex[arr[g][k]] = k - 1
               /\ \A x \in Sessions : ls[x] = <<g>> => \E k \in 1 .. Len(arr[g]) : arr[g][k] = x
    <2>1. CASE g = h
      <3>1. \A x \in Sessions : ls[x] # <<g>>
        BY <1>6, <2>1, OneTuple
      <3> QED BY <1>6, <2>1, <3>1
    <2>2. CASE g # h
      <3>1. arr[g] = t.arr[g]
        BY <1>6, <2>2
      <3>2. ASSUME NEW k \in 1 .. Len(t.arr[g]), NEW x, x = t.arr[g][k]
            PROVE  ls[x] = <<g>> /\ t.m_nIndex[x] = k - 1
        <4>1. x \in Sessions /\ links[x] = <<g>> /\ t.m_nIndex[x] = k - 1
          BY <1>1, <1>2, <3>2 DEF Held
        <4> QED BY <1>6, <2>2, <4>1, OneTuple
      <3>3. ASSUME NEW x \in Sessions, ls[x] = <<g>>
            PROVE  \E k \in 1 .. Len(t.arr[g]) : t.arr[g][k] = x
        <4>1. links[x] = <<g>>
          BY <1>6, <3>3, OneTuple
        <4> QED BY <1>2, <4>1 DEF Held
      <3> QED BY <3>1, <3>2, <3>3
    <2> QED BY <2>1, <2>2
  <1>8. Held(arr, t.m_nIndex, ls)
    BY <1>7 DEF Held
  <1>9. t'.arr = arr /\ t'.m_nIndex = t.m_nIndex
    BY <1>3
  <1> QED BY <1>1, <1>3, <1>6, <1>8, <1>9 DEF ArrayInv, ArrayTypeOK

\* Every step keeps the arrays.
LEMMA ArrayStep == ArrayInv /\ [Arrays!Next]_Arrays!vars => ArrayInv'
  <1> SUFFICES ASSUME ArrayInv, [Arrays!Next]_Arrays!vars
               PROVE  ArrayInv'
    OBVIOUS
  <1>1. ASSUME NEW s \in Sessions, NEW hs \in Arrays!BoundedSeq(Handlers, 1), Arrays!Open(s, hs)
        PROVE  ArrayInv'
    BY <1>1, OpenKeeps
  <1>2. ASSUME NEW s \in Sessions, Arrays!Release(s)
        PROVE  ArrayInv'
    BY <1>2, ReleaseKeeps
  <1>3. ASSUME NEW h \in Handlers, Arrays!OnNetworkError(h)
        PROVE  ArrayInv'
    BY <1>3, BreakKeeps
  <1>4. CASE UNCHANGED Arrays!vars
    BY <1>4 DEF Arrays!vars, ArrayInv, ArrayTypeOK
  <1> QED BY <1>1, <1>2, <1>3, <1>4 DEF Arrays!Next

\* The inductive invariant of the arrays of sessions: what they hold, and where.
THEOREM ArrayInvariance == Arrays!Spec => []ArrayInv
  BY ArrayInit, ArrayStep, PTL DEF Arrays!Spec

\* The sessions on a connection's array are those that hang on it, each at the
\* index it remembers, so that Release erases the right one and none is left.
THEOREM SessionArraysExact == Arrays!Spec => []ArraysExact
  BY HeldIsExact, ArrayInvariance, PTL

(* The rows of the configuration in the order of their PEER_ID. *)

Below(f, n, v) == {i \in 1 .. n : f[i] < v}
UpTo(f, n, v) == {i \in 1 .. n : f[i] <= v}

\* Rows are counted with numbers up to n.
LEMMA RowCounts ==
  ASSUME NEW n \in Nat, NEW T, T \subseteq 1 .. n
  PROVE  IsFiniteSet(T) /\ Cardinality(T) \in Nat /\ Cardinality(T) <= n
  <1>1. IsFiniteSet(1 .. n) /\ Cardinality(1 .. n) = n
    BY FS_Interval
  <1>2. IsFiniteSet(T) /\ Cardinality(T) <= Cardinality(1 .. n)
    BY <1>1, FS_Subset
  <1> QED BY <1>1, <1>2, FS_CardinalityType

\* A subset that lacks an element has less of them.
LEMMA RowCountsLess ==
  ASSUME NEW n \in Nat, NEW T, T \subseteq 1 .. n, NEW U, U \subseteq T
  PROVE  /\ Cardinality(U) <= Cardinality(T)
         /\ U # T => Cardinality(U) < Cardinality(T)
  <1>1. IsFiniteSet(T) /\ Cardinality(T) \in Nat /\ Cardinality(U) \in Nat
    BY RowCounts
  <1>2. Cardinality(U) <= Cardinality(T) /\ (Cardinality(U) = Cardinality(T) => U = T)
    BY <1>1, FS_Subset
  <1> QED BY <1>1, <1>2

\* Some row has the greatest value of a set of rows.
LEMMA GreatestRow ==
  ASSUME NEW n \in Nat, NEW f, \A i \in 1 .. n : f[i] \in Int, NEW T, T \subseteq 1 .. n, T # {}
  PROVE  \E i \in T : \A j \in T : f[j] <= f[i]
  <1> DEFINE R(i) == Cardinality(UpTo(f, n, f[i]))
             ranks == {R(i) : i \in T}
  <1>1. ASSUME NEW i \in T
        PROVE  R(i) \in 1 .. n
    <2>1. UpTo(f, n, f[i]) \subseteq 1 .. n /\ i \in UpTo(f, n, f[i])
      BY DEF UpTo
    <2>2. R(i) \in Nat /\ R(i) <= n
      BY <2>1, RowCounts
    <2>3. Cardinality({}) < R(i)
      BY <2>1, RowCountsLess
    <2> QED BY <2>2, <2>3, FS_EmptySet
  <1>2. ASSUME NEW i \in T, NEW j \in T, f[i] < f[j]
        PROVE  R(i) < R(j)
    <2>1. /\ UpTo(f, n, f[i]) \subseteq UpTo(f, n, f[j]) /\ UpTo(f, n, f[j]) \subseteq 1 .. n
          /\ j \in UpTo(f, n, f[j]) /\ j \notin UpTo(f, n, f[i])
      BY <1>2 DEF UpTo
    <2> QED BY <2>1, RowCountsLess
  <1> HIDE DEF R
  <1>3. ranks \subseteq 1 .. n /\ ranks # {}
    BY <1>1
  <1>4. \E m \in ranks : \A k \in ranks : k <= m
    <2> HIDE DEF ranks
    <2> QED BY <1>3, GreatestUpTo
  <1>5. PICK i \in T : \A k \in ranks : k <= R(i)
    BY <1>4
  <1>6. ASSUME NEW j \in T
        PROVE  f[j] <= f[i]
    <2>1. R(j) <= R(i) /\ R(i) \in Int /\ R(j) \in Int
      BY <1>1, <1>5
    <2>2. ~(f[i] < f[j])
      BY <1>2, <2>1
    <2> QED BY <2>2
  <1> QED BY <1>6

\* Some row has the least one.
LEMMA LeastRow ==
  ASSUME NEW n \in Nat, NEW f, \A i \in 1 .. n : f[i] \in Int, NEW T, T \subseteq 1 .. n, T # {}
  PROVE  \E i \in T : \A j \in T : f[i] <= f[j]
  <1> DEFINE g == [i \in 1 .. n |-> -f[i]]
  <1>1. \A i \in 1 .. n : g[i] \in Int /\ g[i] = -f[i]
    OBVIOUS
  <1> HIDE DEF g
  <1>2. PICK i \in T : \A j \in T : g[j] <= g[i]
    BY <1>1, GreatestRow
  <1>3. \A j \in T : f[i] <= f[j]
    BY <1>1, <1>2
  <1> QED BY <1>3

\* There is a k-th row.
LEMMA NthRow ==
  ASSUME NEW n \in Nat, NEW f, \A i \in 1 .. n : f[i] \in Int, NEW k \in 1 .. n
  PROVE  \E i \in 1 .. n : /\ Cardinality(Below(f, n, f[i])) < k
                           /\ k <= Cardinality(UpTo(f, n, f[i]))
  <1> DEFINE C == {i \in 1 .. n : k <= Cardinality(UpTo(f, n, f[i]))}
  <1>1. C # {} /\ C \subseteq 1 .. n
    <2>1. 1 .. n # {} /\ 1 .. n \subseteq 1 .. n
      OBVIOUS
    <2>2. PICK i \in 1 .. n : \A j \in 1 .. n : f[j] <= f[i]
      BY <2>1, GreatestRow
    <2>3. UpTo(f, n, f[i]) = 1 .. n
      BY <2>2 DEF UpTo
    <2>4. Cardinality(1 .. n) = n
      BY FS_Interval
    <2>5. i \in C
      BY <2>3, <2>4
    <2> QED BY <2>5
  <1>2. PICK i \in C : \A j \in C : f[i] <= f[j]
    <2> HIDE DEF C
    <2> QED BY <1>1, LeastRow
  <1> DEFINE T == Below(f, n, f[i])
  <1>3. T \subseteq 1 .. n /\ Cardinality(T) \in Nat
    <2>1. T \subseteq 1 .. n
      BY DEF Below
    <2> QED BY <2>1, RowCounts
  <1>4. ASSUME k <= Cardinality(T)
        PROVE  FALSE
    <2>1. T # {}
      <3> HIDE DEF T
      <3> QED BY <1>4, FS_EmptySet
    <2>2. PICK j \in T : \A m \in T : f[m] <= f[j]
      <3> HIDE DEF T
      <3> QED BY <1>3, <2>1, GreatestRow
    <2>3. j \in 1 .. n /\ i \in 1 .. n /\ f[j] < f[i]
      BY DEF Below
    <2>4. UpTo(f, n, f[j]) = T
      BY <2>2, <2>3 DEF UpTo, Below
    <2>5. j \in C
      BY <1>4, <2>3, <2>4
    <2> QED BY <1>2, <2>3, <2>5
  <1>5. Cardinality(T) < k
    <2> HIDE DEF T
    <2> QED BY <1>3, <1>4
  <1> QED BY <1>2, <1>5

\* The configuration's module counts as this one does.
LEMMA ConfigCounts == \A S : Config!Cardinality(S) = Cardinality(S)
  BY DEF Config!Cardinality, Cardinality, Config!IsFiniteSet, IsFiniteSet

Rows(rows) == \E n \in Nat : rows \in [1 .. n -> PeerIds]

\* The rows are numbered from 1, and the handles with them.
LEMMA RowsAre ==
  ASSUME Rows(ES_ADDR_CFG)
  PROVE  LET n == Len(ES_ADDR_CFG)
         IN  /\ n \in Nat /\ DOMAIN ES_ADDR_CFG = 1 .. n /\ Config!Handles = 1 .. n
             /\ \A i \in 1 .. n : ES_ADDR_CFG[i] \in PeerIds /\ ES_ADDR_CFG[i] \in Int
  <1>1. PICK n \in Nat : ES_ADDR_CFG \in [1 .. n -> PeerIds]
    BY DEF Rows
  <1>2. Len(ES_ADDR_CFG) = n
    BY <1>1
  <1>3. PeerIds \subseteq Int
    BY ConfigAssumption
  <1> QED BY <1>1, <1>2, <1>3 DEF Config!Handles

\* Ordered is a row's PEER_ID, and they come in order.
LEMMA OrderedIs ==
  ASSUME Rows(ES_ADDR_CFG)
  PROVE  LET n == Len(ES_ADDR_CFG)
             ord == Config!Ordered
         IN  /\ n \in Nat /\ ord \in [1 .. n -> PeerIds]
             /\ \A k \in 1 .. n : ord[k] \in Int /\ \E i \in 1 .. n : ord[k] = ES_ADDR_CFG[i]
             /\ \A g, h \in 1 .. n : g <= h => ord[g] <= ord[h]
  <1> DEFINE n == Len(ES_ADDR_CFG)
             f == ES_ADDR_CFG
             ord == Config!Ordered
             IsNth(k, id) == /\ id \in {f[i] : i \in 1 .. n}
                             /\ Cardinality(Below(f, n, id)) < k
                             /\ k <= Cardinality(UpTo(f, n, id))
  <1>1. /\ n \in Nat /\ DOMAIN f = 1 .. n /\ Config!Handles = 1 .. n
        /\ \A i \in 1 .. n : f[i] \in PeerIds /\ f[i] \in Int
    BY RowsAre
  <1>2. ord = [k \in 1 .. n |-> CHOOSE id : IsNth(k, id)]
    <2>1. \A id : /\ Config!Cardinality({i \in Config!Handles : ES_ADDR_CFG[i] < id}) =
                       Cardinality(Below(f, n, id))
                  /\ Config!Cardinality({i \in Config!Handles : ES_ADDR_CFG[i] <= id}) =
                       Cardinality(UpTo(f, n, id))
      BY <1>1, ConfigCounts, Zenon DEF Below, UpTo
    <2>2. Config!ToSet(ES_ADDR_CFG) = {f[i] : i \in 1 .. n}
      BY <1>1, Zenon DEF Config!ToSet
    <2> DEFINE Nth(k) == CHOOSE id \in Config!ToSet(ES_ADDR_CFG) :
                   /\ Config!Cardinality({i \in Config!Handles : ES_ADDR_CFG[i] < id}) < k
                   /\ k <= Config!Cardinality({i \in Config!Handles : ES_ADDR_CFG[i] <= id})
    <2>3. \A k : Nth(k) = CHOOSE id : IsNth(k, id)
      BY <2>1, <2>2, Zenon
    <2>4. ord = [k \in Config!Handles |-> Nth(k)]
      BY Zenon DEF Config!Ordered
    <2> HIDE DEF IsNth, Nth, ord, n
    <2>5. ord = [k \in 1 .. n |-> Nth(k)]
      BY <1>1, <2>4
    <2> QED BY <2>3, <2>5
  <1>3. ASSUME NEW k \in 1 .. n
        PROVE  IsNth(k, ord[k])
    <2>1. PICK i \in 1 .. n : /\ Cardinality(Below(f, n, f[i])) < k
                              /\ k <= Cardinality(UpTo(f, n, f[i]))
      <3> HIDE DEF f, n
      <3> QED BY <1>1, NthRow
    <2>2. IsNth(k, f[i])
      BY <2>1
    <2>3. ord[k] = CHOOSE id : IsNth(k, id)
      <3> HIDE DEF IsNth, ord, n
      <3> QED BY <1>2
    <2> HIDE DEF IsNth, ord
    <2> QED BY <2>2, <2>3, Zenon
  <1> HIDE DEF ord, n, f
  <1>4. \A k \in 1 .. n : ord[k] \in Int /\ ord[k] \in PeerIds /\ \E i \in 1 .. n : ord[k] = f[i]
    BY <1>1, <1>3
  <1>5. ASSUME NEW g \in 1 .. n, NEW h \in 1 .. n, g <= h, ord[h] < ord[g]
        PROVE  FALSE
    <2>1. /\ UpTo(f, n, ord[h]) \subseteq Below(f, n, ord[g])
          /\ Below(f, n, ord[g]) \subseteq 1 .. n /\ UpTo(f, n, ord[h]) \subseteq 1 .. n
      <3>1. ord[h] \in Int /\ ord[g] \in Int /\ ord[h] < ord[g]
        BY <1>4, <1>5
      <3>2. ASSUME NEW i \in 1 .. n, f[i] <= ord[h]
            PROVE  f[i] < ord[g]
        BY <1>1, <3>1, <3>2
      <3> QED BY <3>2 DEF UpTo, Below
    <2>2. Cardinality(UpTo(f, n, ord[h])) <= Cardinality(Below(f, n, ord[g]))
      BY <1>1, <2>1, RowCountsLess
    <2>3. Cardinality(Below(f, n, ord[g])) < g /\ h <= Cardinality(UpTo(f, n, ord[h]))
      BY <1>3
    <2>4. Cardinality(UpTo(f, n, ord[h])) \in Nat /\ Cardinality(Below(f, n, ord[g])) \in Nat
      BY <1>1, <2>1, RowCounts
    <2> QED BY <1>1, <1>5, <2>2, <2>3, <2>4
  <1>6. \A g, h \in 1 .. n : g <= h => ord[g] <= ord[h]
    BY <1>4, <1>5
  <1>7. ord \in [1 .. n -> PeerIds]
    <2>1. DOMAIN ord = 1 .. n /\ ord = [k \in 1 .. n |-> ord[k]]
      BY <1>2
    <2> QED BY <1>4, <2>1
  <1> QED BY <1>1, <1>4, <1>6, <1>7 DEF ord, n, f

(* The grouping of the rows. *)

Group == [id : Int, handles : SUBSET Int]

\* The groups of the first k rows: they hold these rows, each the ones of one
\* value, and the values grow.
Groups(list, k, ord) ==
  /\ list \in Seq(Group)
  /\ k > 0 => list # <<>> /\ k \in list[Len(list)].handles
  /\ \A i \in 1 .. Len(list) : list[i].handles # {} /\ list[i].handles \subseteq 1 .. k
  /\ \A h \in 1 .. k : \E i \in 1 .. Len(list) : h \in list[i].handles
  /\ \A i \in 1 .. Len(list) : \A h \in list[i].handles : list[i].id = ord[h] % IdSpace
  /\ \A i, j \in 1 .. Len(list) : i < j =>
       \A g \in list[i].handles, h \in list[j].handles : ord[g] < ord[h]

\* What taking one row more does to the groups.
LEMMA GroupedIs ==
  ASSUME Rows(ES_ADDR_CFG), NEW list \in Seq(Group), NEW h \in 1 .. Len(ES_ADDR_CFG)
  PROVE  LET ord == Config!Ordered
             before == IF h = 1 THEN Lowest ELSE ord[h - 1]
             next == Config!Grouped(list, h)
             m == Len(list)
         IN  /\ next \in Seq(Group)
             /\ ord[h] # before => next = Append(list, [id |-> ord[h] % IdSpace, handles |-> {h}])
             /\ ord[h] = before /\ list # <<>> =>
                  /\ Len(next) = m
                  /\ \A i \in 1 .. m - 1 : next[i] = list[i]
                  /\ next[m].id = list[m].id /\ next[m].handles = list[m].handles \cup {h}
  <1> DEFINE ord == Config!Ordered
             before == IF h = 1 THEN Lowest ELSE ord[h - 1]
             next == Config!Grouped(list, h)
             m == Len(list)
             new == [id |-> ord[h] % IdSpace, handles |-> {h}]
             longer == [list EXCEPT ![m].handles = @ \cup {h}]
             Goal == /\ next \in Seq(Group)
                     /\ ord[h] # before => next = Append(list, new)
                     /\ ord[h] = before /\ list # <<>> =>
                          /\ Len(next) = m
                          /\ \A i \in 1 .. m - 1 : next[i] = list[i]
                          /\ next[m].id = list[m].id /\ next[m].handles = list[m].handles \cup {h}
  <1> SUFFICES Goal
    OBVIOUS
  <1>1. h \in Int /\ ord[h] \in Int
    <2>1. Len(ES_ADDR_CFG) \in Nat
      BY RowsAre
    <2> QED BY <2>1, OrderedIs
  <1>2. next = IF ord[h] # before THEN Append(list, new) ELSE longer
    BY Zenon DEF Config!Grouped
  <1>3. new \in Group
    <2>1. ord[h] % IdSpace \in Int
      <3> HIDE DEF ord
      <3> QED BY <1>1, ConfigAssumption
    <2> QED BY <1>1, <2>1 DEF Group
  <1>4. Append(list, new) \in Seq(Group)
    BY <1>3, AppendProperties
  <1>5. m \in Nat /\ DOMAIN list = 1 .. m /\ \A i \in 1 .. m : list[i] \in Group
    BY LenProperties
  <1>6. CASE list = <<>>
    <2>1. DOMAIN list = {} /\ longer \in Seq(Group)
      <3>1. DOMAIN list = {}
        BY <1>6
      <3>2. longer = [i \in {} |-> <<>>]
        <4>1. DOMAIN longer = {} /\ longer = [i \in DOMAIN longer |-> longer[i]]
          BY <3>1
        <4> HIDE DEF longer
        <4>2. [i \in DOMAIN longer |-> longer[i]] = [i \in {} |-> <<>>]
          BY <4>1
        <4> QED BY <4>1, <4>2
      <3>3. [i \in {} |-> <<>>] = <<>>
        OBVIOUS
      <3> HIDE DEF longer
      <3> QED BY <3>1, <3>2, <3>3, EmptySeq
    <2> HIDE DEF longer, new, next, before
    <2> QED BY <1>2, <1>4, <1>6, <2>1
  <1>7. CASE list # <<>>
    <2>1. m \in 1 .. m
      BY <1>5, <1>7, EmptySeq
    <2> DEFINE e == [list[m] EXCEPT !.handles = @ \cup {h}]
    <2>2. longer = [list EXCEPT ![m] = e]
      BY <1>5, <2>1
    <2>3. e \in Group /\ e.id = list[m].id /\ e.handles = list[m].handles \cup {h}
      <3>1. list[m] \in Group
        BY <1>5, <2>1
      <3>2. \A x \in Group : /\ [x EXCEPT !.handles = @ \cup {h}] \in Group
                             /\ [x EXCEPT !.handles = @ \cup {h}].id = x.id
                             /\ [x EXCEPT !.handles = @ \cup {h}].handles = x.handles \cup {h}
        BY <1>1 DEF Group
      <3> HIDE DEF m
      <3> QED BY <3>1, <3>2
    <2> HIDE DEF e
    <2>4. /\ longer \in Seq(Group) /\ Len(longer) = m
          /\ \A i \in 1 .. m : longer[i] = IF i = m THEN e ELSE list[i]
      <3> HIDE DEF longer
      <3> QED BY <1>5, <2>1, <2>2, <2>3, ExceptSeq
    <2>5. \A i \in 1 .. m - 1 : longer[i] = list[i]
      <3> HIDE DEF longer, m
      <3> QED BY <1>5, <2>4
    <2>6. longer[m] = e
      <3> HIDE DEF longer, m
      <3> QED BY <2>1, <2>4
    <2> HIDE DEF longer, new, next, before, m
    <2> QED BY <1>2, <1>4, <2>3, <2>4, <2>5, <2>6
  <1> HIDE DEF Goal
  <1> QED BY <1>6, <1>7

\* The groups of the first k rows become those of the first k + 1.
LEMMA GroupsGrow ==
  ASSUME Rows(ES_ADDR_CFG), Config!Loadable, NEW k \in Nat, k + 1 <= Len(ES_ADDR_CFG),
         NEW list, Groups(list, k, Config!Ordered)
  PROVE  Groups(Config!Grouped(list, k + 1), k + 1, Config!Ordered)
  <1> DEFINE n == Len(ES_ADDR_CFG)
             ord == Config!Ordered
             h == k + 1
             before == IF h = 1 THEN Lowest ELSE ord[h - 1]
             next == Config!Grouped(list, h)
             m == Len(list)
             new == [id |-> ord[h] % IdSpace, handles |-> {h}]
  <1> SUFFICES Groups(next, h, ord)
    OBVIOUS
  <1>1. /\ n \in Nat /\ h \in 1 .. n
        /\ \A i \in 1 .. n : ord[i] \in Int
        /\ \A i, j \in 1 .. n : i <= j => ord[i] <= ord[j]
    <2>1. /\ n \in Nat
          /\ \A i \in 1 .. n : ord[i] \in Int
          /\ \A i, j \in 1 .. n : i <= j => ord[i] <= ord[j]
      BY OrderedIs
    <2>2. h <= n
      OBVIOUS
    <2> HIDE DEF n, ord
    <2> QED BY <2>1, <2>2
  <1>2. k = 0 => ord[h] # before
    <2>1. ES_ADDR_CFG # <<>>
      BY <1>1, EmptySeq
    <2> QED BY <2>1 DEF Config!Loadable
  <1>3. k # 0 => before = ord[k] /\ k \in 1 .. n
    <2>1. k # 0 => h # 1 /\ h - 1 = k
      OBVIOUS
    <2> HIDE DEF ord
    <2> QED BY <1>1, <2>1
  <1>4. /\ list \in Seq(Group)
        /\ k > 0 => list # <<>> /\ k \in list[m].handles
        /\ \A i \in 1 .. m : list[i].handles # {} /\ list[i].handles \subseteq 1 .. k
        /\ \A g \in 1 .. k : \E i \in 1 .. m : g \in list[i].handles
        /\ \A i \in 1 .. m : \A g \in list[i].handles : list[i].id = ord[g] % IdSpace
        /\ \A i, j \in 1 .. m : i < j =>
             \A g \in list[i].handles, x \in list[j].handles : ord[g] < ord[x]
    BY DEF Groups
  <1>5. /\ next \in Seq(Group)
        /\ ord[h] # before => next = Append(list, new)
        /\ ord[h] = before /\ list # <<>> =>
             /\ Len(next) = m
             /\ \A i \in 1 .. m - 1 : next[i] = list[i]
             /\ next[m].id = list[m].id /\ next[m].handles = list[m].handles \cup {h}
    BY <1>1, <1>4, GroupedIs
  <1>6. m \in Nat
    BY <1>4, LenProperties
  <1>7. new.id = ord[h] % IdSpace /\ new.handles = {h} /\ new \in Group
    <2>1. ord[h] % IdSpace \in Int
      <3> HIDE DEF ord, h
      <3> QED BY <1>1, ConfigAssumption
    <2> QED BY <2>1 DEF Group
  <1> HIDE DEF ord, next, before, new, n
  <1>8. CASE ord[h] # before
    <2>1. /\ Len(next) = m + 1 /\ next[m + 1] = new
          /\ \A i \in 1 .. m : next[i] = list[i]
      BY <1>4, <1>5, <1>7, <1>8, AppendProperties
    <2> HIDE DEF m
    <2>2. \A i \in 1 .. m + 1 : i \in 1 .. m \/ i = m + 1
      BY <1>6
    <2>3. next # <<>> /\ h \in next[m + 1].handles /\ m + 1 \in 1 .. m + 1
      <3>1. next # <<>>
        BY <1>5, <1>6, <2>1, EmptySeq
      <3> QED BY <1>6, <1>7, <2>1, <3>1
    <2>4. ASSUME NEW i \in 1 .. m + 1
          PROVE  /\ next[i].handles # {} /\ next[i].handles \subseteq 1 .. h
                 /\ \A g \in next[i].handles : next[i].id = ord[g] % IdSpace
      <3>1. CASE i \in 1 .. m
        <4>1. next[i] = list[i] /\ list[i].handles # {} /\ list[i].handles \subseteq 1 .. k
              /\ \A g \in list[i].handles : list[i].id = ord[g] % IdSpace
          BY <1>4, <2>1, <3>1
        <4>2. 1 .. k \subseteq 1 .. h
          OBVIOUS
        <4> HIDE DEF h
        <4> QED BY <4>1, <4>2
      <3>2. CASE i = m + 1
        <4>1. next[i] = new /\ h \in 1 .. h
          BY <2>1, <3>2
        <4> HIDE DEF h
        <4> QED BY <1>7, <4>1
      <3> QED BY <2>2, <3>1, <3>2
    <2>5. ASSUME NEW g \in 1 .. h
          PROVE  \E i \in 1 .. m + 1 : g \in next[i].handles
      <3>1. CASE g = h
        BY <2>1, <2>3, <3>1
      <3>2. CASE g # h
        <4>1. g \in 1 .. k
          BY <3>2
        <4>2. PICK i \in 1 .. m : g \in list[i].handles
          BY <1>4, <4>1
        <4>3. i \in 1 .. m + 1 /\ g \in next[i].handles
          BY <1>6, <2>1, <4>2
        <4> QED BY <4>3
      <3> QED BY <3>1, <3>2
    <2>6. ASSUME NEW i \in 1 .. m + 1, NEW j \in 1 .. m + 1, i < j,
                 NEW g \in next[i].handles, NEW x \in next[j].handles
          PROVE  ord[g] < ord[x]
      <3>1. i \in 1 .. m /\ g \in list[i].handles
        <4>1. i \in 1 .. m
          BY <1>6, <2>6
        <4> QED BY <2>1, <4>1
      <3>2. CASE j \in 1 .. m
        BY <1>4, <2>1, <2>6, <3>1, <3>2
      <3>3. CASE j = m + 1
        <4>1. x = h
          BY <1>7, <2>1, <3>3
        <4>2. g \in 1 .. k /\ k # 0
          BY <1>4, <3>1
        <4>3. ord[g] <= ord[k] /\ ord[k] <= ord[h] /\ ord[k] # ord[h]
          BY <1>1, <1>3, <1>8, <4>2
        <4>4. ord[g] \in Int /\ ord[k] \in Int /\ ord[h] \in Int
          BY <1>1, <1>3, <4>2
        <4> QED BY <4>1, <4>3, <4>4
      <3> QED BY <2>2, <3>2, <3>3
    <2> HIDE DEF h
    <2> QED BY <1>5, <2>1, <2>3, <2>4, <2>5, <2>6 DEF Groups
  <1>9. CASE ord[h] = before
    <2>1. k \in Nat \ {0} /\ ord[h] = ord[k] /\ list # <<>> /\ k \in list[m].handles
      BY <1>2, <1>3, <1>4, <1>9
    <2>2. /\ Len(next) = m
          /\ \A i \in 1 .. m - 1 : next[i] = list[i]
          /\ next[m].id = list[m].id /\ next[m].handles = list[m].handles \cup {h}
      BY <1>5, <1>9, <2>1
    <2>3. m \in Nat \ {0}
      BY <1>4, <1>6, <2>1, EmptySeq
    <2> HIDE DEF m
    <2>4. m \in 1 .. m /\ \A i \in 1 .. m : i # m => i \in 1 .. m - 1
      BY <2>3
    <2>5. next # <<>>
      BY <1>5, <2>2, <2>3, EmptySeq
    <2>6. ASSUME NEW i \in 1 .. m
          PROVE  /\ next[i].handles # {} /\ next[i].handles \subseteq 1 .. h
                 /\ \A g \in next[i].handles : next[i].id = ord[g] % IdSpace
                 /\ list[i].handles \subseteq next[i].handles
      <3>1. /\ list[i].handles # {} /\ list[i].handles \subseteq 1 .. h
            /\ \A g \in list[i].handles : list[i].id = ord[g] % IdSpace
        <4>1. 1 .. k \subseteq 1 .. h
          OBVIOUS
        <4> HIDE DEF h
        <4> QED BY <1>4, <4>1
      <3>2. CASE i # m
        BY <2>2, <2>4, <3>1, <3>2
      <3>3. CASE i = m
        <4>1. list[m].id = ord[h] % IdSpace
          BY <1>4, <2>1, <2>4
        <4>2. h \in 1 .. h
          OBVIOUS
        <4> HIDE DEF h
        <4> QED BY <2>2, <3>1, <3>3, <4>1, <4>2
      <3> QED BY <3>2, <3>3
    <2>7. ASSUME NEW g \in 1 .. h
          PROVE  \E i \in 1 .. m : g \in next[i].handles
      <3>1. CASE g = h
        BY <2>2, <2>4, <3>1
      <3>2. CASE g # h
        <4>1. g \in 1 .. k
          BY <3>2
        <4>2. PICK i \in 1 .. m : g \in list[i].handles
          BY <1>4, <4>1
        <4> QED BY <2>6, <4>2
      <3> QED BY <3>1, <3>2
    <2>8. ASSUME NEW i \in 1 .. m, NEW j \in 1 .. m, i < j,
                 NEW g \in next[i].handles, NEW x \in next[j].handles
          PROVE  ord[g] < ord[x]
      <3>1. g \in list[i].handles
        <4>1. i \in 1 .. m - 1
          BY <2>3, <2>8
        <4> QED BY <2>2, <4>1
      <3>2. CASE x \in list[j].handles
        BY <1>4, <2>8, <3>1, <3>2
      <3>3. CASE x \notin list[j].handles
        <4>1. j = m /\ x = h
          BY <2>2, <2>4, <3>3
        <4>2. ord[g] < ord[k]
          BY <1>4, <2>1, <2>4, <2>8, <3>1, <4>1
        <4> QED BY <2>1, <4>1, <4>2
      <3> QED BY <3>2, <3>3
    <2> HIDE DEF h
    <2>9. h > 0 => next # <<>> /\ h \in next[m].handles
      BY <2>2, <2>5
    <2> QED BY <1>5, <2>2, <2>6, <2>7, <2>8, <2>9 DEF Groups
  <1> HIDE DEF h
  <1> QED BY <1>8, <1>9

\* The greatest element of a set of handles.
LEMMA ConfigMax ==
  ASSUME NEW n \in Nat, NEW d, d \subseteq 1 .. n, d # {}
  PROVE  Config!Max(d) \in d /\ \A x \in d : x <= Config!Max(d)
  <1>1. \A x \in d : x \in Int
    OBVIOUS
  <1>2. \E m \in d : \A x \in d : x <= m
    BY GreatestUpTo
  <1>3. \E m \in d : \A x \in d : m >= x
    BY <1>1, <1>2
  <1>4. Config!Max(d) \in d /\ \A x \in d : Config!Max(d) >= x
    BY <1>3, Zenon DEF Config!Max
  <1> QED BY <1>1, <1>4

\* The fold over the rows takes them one after the other.
LEMMA LoadIs ==
  ASSUME Rows(ES_ADDR_CFG)
  PROVE  LET n == Len(ES_ADDR_CFG)
         IN  \E iter : /\ Config!LoadPeerInfo = iter[1 .. n]
                       /\ iter[{}] = <<>>
                       /\ \A k \in Nat : k + 1 <= n =>
                            iter[1 .. k + 1] = Config!Grouped(iter[1 .. k], k + 1)
  <1> DEFINE n == Len(ES_ADDR_CFG)
             rows == [h \in Config!Handles |-> h]
             D == DOMAIN rows
             V == Seq(Group)
             Step(f, d) == IF d = {} THEN <<>>
                           ELSE Config!Grouped(f[d \ {Config!Max(d)}], rows[Config!Max(d)])
             Solves(f) == f = [d \in SUBSET D |-> Step(f, d)]
             iter == CHOOSE f : Solves(f)
  <1>1. n \in Nat /\ Config!Handles = 1 .. n
    BY RowsAre
  <1>2. D = 1 .. n /\ \A h \in 1 .. n : rows[h] = h
    BY <1>1
  <1>3. Config!LoadPeerInfo = iter[D]
    BY Zenon DEF Config!LoadPeerInfo, Config!FoldLeft, Config!MapThenFoldSet
  <1> DEFINE Solved(m) == \E f \in [SUBSET (1 .. m) -> V] :
                            \A d \in SUBSET (1 .. m) : f[d] = Step(f, d)
             S == {m \in Nat : m <= n => Solved(m)}
  <1> HIDE DEF rows, V, D, n
  <1>4. <<>> \in V /\ \A list \in V, h \in 1 .. n : Config!Grouped(list, h) \in V
    BY GroupedIs, EmptySeq DEF V, n
  <1>5. 0 \in S
    <2> DEFINE f == [d \in SUBSET (1 .. 0) |-> <<>>]
    <2>1. 1 .. 0 = {}
      OBVIOUS
    <2>2. f \in [SUBSET (1 .. 0) -> V]
      BY <1>4
    <2>3. \A d \in SUBSET (1 .. 0) : f[d] = Step(f, d)
      BY <2>1
    <2> HIDE DEF f, Step
    <2> QED BY <2>2, <2>3
  <1>6. ASSUME NEW m \in Nat, m \in S
        PROVE  m + 1 \in S
    <2> HIDE DEF Solved
    <2> SUFFICES ASSUME m + 1 <= n
                 PROVE  Solved(m + 1)
      OBVIOUS
    <2> HIDE DEF Step
    <2> USE DEF Solved
    <2>1. PICK f \in [SUBSET (1 .. m) -> V] : \A d \in SUBSET (1 .. m) : f[d] = Step(f, d)
      <3>1. m <= n
        BY <1>1
      <3> QED BY <1>6, <3>1
    <2> USE DEF Step
    <2> DEFINE g == [d \in SUBSET (1 .. m + 1) |->
                       IF m + 1 \in d THEN Config!Grouped(f[d \ {m + 1}], m + 1) ELSE f[d]]
    <2>2. m + 1 \in 1 .. n
      BY <1>1
    <2>3. ASSUME NEW d \in SUBSET (1 .. m + 1)
          PROVE  /\ d \ {m + 1} \in SUBSET (1 .. m)
                 /\ m + 1 \notin d => d \in SUBSET (1 .. m)
      OBVIOUS
    <2>4. g \in [SUBSET (1 .. m + 1) -> V]
      <3>1. ASSUME NEW d \in SUBSET (1 .. m + 1)
            PROVE  (IF m + 1 \in d THEN Config!Grouped(f[d \ {m + 1}], m + 1) ELSE f[d]) \in V
        <4>1. f[d \ {m + 1}] \in V /\ (m + 1 \notin d => f[d] \in V)
          BY <2>1, <2>3
        <4> QED BY <1>4, <2>2, <4>1
      <3> QED BY <3>1
    <2>5. ASSUME NEW d \in SUBSET (1 .. m)
          PROVE  g[d] = f[d]
      <3>1. d \in SUBSET (1 .. m + 1) /\ m + 1 \notin d
        OBVIOUS
      <3> QED BY <3>1
    <2>6. ASSUME NEW d \in SUBSET (1 .. m + 1)
          PROVE  g[d] = Step(g, d)
      <3> DEFINE x == Config!Max(d)
      <3>1. CASE d = {}
        <4>1. d \in SUBSET (1 .. m)
          BY <3>1
        <4>2. f[d] = <<>> /\ g[d] = f[d]
          BY <2>1, <2>5, <3>1, <4>1
        <4> HIDE DEF g
        <4> QED BY <3>1, <4>2
      <3>2. CASE d # {} /\ m + 1 \in d
        <4>1. x \in d /\ \A y \in d : y <= x
          <5>1. m + 1 \in Nat /\ d \subseteq 1 .. m + 1
            OBVIOUS
          <5> QED BY <3>2, <5>1, ConfigMax
        <4> HIDE DEF x
        <4>2. x = m + 1
          BY <3>2, <4>1
        <4>3. g[d] = Config!Grouped(f[d \ {m + 1}], m + 1)
          BY <3>2
        <4>4. g[d \ {m + 1}] = f[d \ {m + 1}] /\ rows[m + 1] = m + 1
          BY <1>2, <2>2, <2>3, <2>5
        <4> HIDE DEF g
        <4> QED BY <3>2, <4>2, <4>3, <4>4 DEF x
      <3>3. CASE d # {} /\ m + 1 \notin d
        <4>1. d \in SUBSET (1 .. m) /\ d \ {x} \in SUBSET (1 .. m)
          BY <2>3, <3>3
        <4>2. g[d] = f[d] /\ g[d \ {x}] = f[d \ {x}] /\ f[d] = Step(f, d)
          BY <2>1, <2>5, <4>1
        <4> HIDE DEF g
        <4> QED BY <3>3, <4>2
      <3> QED BY <3>1, <3>2, <3>3
    <2> HIDE DEF g, Step
    <2> QED BY <2>4, <2>6
  <1>7. Solves(iter)
    <2>1. n \in S
      <3>1. \A m \in Nat : m \in S
        <4> HIDE DEF S
        <4> QED BY <1>5, <1>6, SetInduction
      <3> QED BY <1>1, <3>1
    <2>2. PICK f \in [SUBSET (1 .. n) -> V] : \A d \in SUBSET (1 .. n) : f[d] = Step(f, d)
      <3> HIDE DEF Step
      <3>1. n <= n
        BY <1>1
      <3> QED BY <2>1, <3>1
    <2>3. Solves(f)
      <3> HIDE DEF Step
      <3>1. f = [d \in SUBSET D |-> f[d]]
        BY <1>2, <2>2
      <3> QED BY <1>2, <2>2, <3>1, Zenon
    <2> HIDE DEF Solves
    <2> QED BY <2>3, Zenon
  <1>8. \A d \in SUBSET D : iter[d] = Step(iter, d)
    <2> HIDE DEF iter, Step
    <2> QED BY <1>7, Zenon
  <1> HIDE DEF iter
  <1>9. iter[{}] = <<>>
    BY <1>8
  <1>10. ASSUME NEW k \in Nat, k + 1 <= n
         PROVE  iter[1 .. k + 1] = Config!Grouped(iter[1 .. k], k + 1)
    <2> DEFINE d == 1 .. k + 1
               x == Config!Max(d)
    <2>1. d \in SUBSET D /\ d # {} /\ k + 1 \in d /\ k + 1 \in 1 .. n
      <3>1. k + 1 \in 1 .. n /\ k + 1 \in d
        BY <1>1, <1>10
      <3>2. \A y \in d : y \in 1 .. n
        BY <1>1, <1>10
      <3> HIDE DEF d
      <3> QED BY <1>2, <3>1, <3>2
    <2>2. x \in d /\ \A y \in d : y <= x
      <3>1. k + 1 \in Nat /\ d \subseteq 1 .. k + 1
        OBVIOUS
      <3> HIDE DEF d
      <3> QED BY <2>1, <3>1, ConfigMax
    <2> HIDE DEF x
    <2>3. x = k + 1
      BY <2>1, <2>2
    <2>4. d \ {k + 1} = 1 .. k
      OBVIOUS
    <2>5. iter[d] = Step(iter, d)
      BY <1>8, <2>1
    <2>6. iter[d] = Config!Grouped(iter[d \ {x}], rows[x])
      <3> HIDE DEF d
      <3> QED BY <2>1, <2>5 DEF x
    <2> HIDE DEF d
    <2>7. iter[d] = Config!Grouped(iter[1 .. k], k + 1)
      BY <1>2, <2>1, <2>3, <2>4, <2>6
    <2> QED BY <2>7 DEF d
  <1>11. Config!LoadPeerInfo = iter[1 .. n]
    BY <1>2, <1>3
  <1> QED BY <1>9, <1>10, <1>11 DEF n

\* By induction over the rows, LoadPeerInfo yields the groups of all of them.
LEMMA LoadGroups ==
  ASSUME Rows(ES_ADDR_CFG), Config!Loadable
  PROVE  Groups(Config!LoadPeerInfo, Len(ES_ADDR_CFG), Config!Ordered)
  <1> DEFINE n == Len(ES_ADDR_CFG)
  <1>1. PICK iter : /\ Config!LoadPeerInfo = iter[1 .. n]
                    /\ iter[{}] = <<>>
                    /\ \A k \in Nat : k + 1 <= n =>
                         iter[1 .. k + 1] = Config!Grouped(iter[1 .. k], k + 1)
    BY LoadIs
  <1> DEFINE S == {k \in Nat : k <= n => Groups(iter[1 .. k], k, Config!Ordered)}
  <1>2. n \in Nat
    BY RowsAre
  <1>3. 0 \in S
    <2>1. 1 .. 0 = {} /\ iter[1 .. 0] = <<>>
      BY <1>1
    <2>2. Len(<<>>) = 0 /\ <<>> \in Seq(Group)
      BY EmptySeq
    <2>3. Groups(<<>>, 0, Config!Ordered)
      BY <2>1, <2>2 DEF Groups
    <2> QED BY <2>1, <2>3
  <1>4. ASSUME NEW k \in Nat, k \in S
        PROVE  k + 1 \in S
    <2> SUFFICES ASSUME k + 1 <= n
                 PROVE  Groups(iter[1 .. k + 1], k + 1, Config!Ordered)
      OBVIOUS
    <2>1. Groups(iter[1 .. k], k, Config!Ordered)
      BY <1>2, <1>4
    <2>2. Groups(Config!Grouped(iter[1 .. k], k + 1), k + 1, Config!Ordered)
      BY <2>1, GroupsGrow
    <2> QED BY <1>1, <2>2
  <1>5. n \in S
    <2>1. \A k \in Nat : k \in S
      <3> HIDE DEF S
      <3> QED BY <1>3, <1>4, SetInduction
    <2> QED BY <1>2, <2>1
  <1> QED BY <1>1, <1>2, <1>5

(* A service that has started. *)

ConfigInv ==
  /\ Rows(ES_ADDR_CFG)
  /\ service = "running" =>
       /\ Groups(m_lstVbhPeer, Len(ES_ADDR_CFG), Config!Ordered)
       /\ m_nEndorsePeerCount \in 1 .. Len(m_lstVbhPeer)

\* The rows are rows at the start, and no service runs.
LEMMA ConfigInit == Config!Init => ConfigInv
  <1> SUFFICES ASSUME Config!Init
               PROVE  ConfigInv
    OBVIOUS
  <1>1. ES_ADDR_CFG \in UNION {[1 .. n -> PeerIds] : n \in 0 .. MaxRows} /\ service = "start"
    BY DEF Config!Init
  <1>2. PICK n \in 0 .. MaxRows : ES_ADDR_CFG \in [1 .. n -> PeerIds]
    BY <1>1
  <1>3. n \in Nat
    BY ConfigAssumption
  <1> QED BY <1>1, <1>2, <1>3 DEF ConfigInv, Rows

\* A service that starts has grouped its rows.
LEMMA ConfigStep == ConfigInv /\ [Config!Next]_Config!vars => ConfigInv'
  <1> SUFFICES ASSUME ConfigInv, [Config!Next]_Config!vars
               PROVE  ConfigInv'
    OBVIOUS
  <1>1. ES_ADDR_CFG' = ES_ADDR_CFG
    BY DEF Config!Next, Config!OnInit, Config!OnInitFails, Config!Stopped, Config!Connected,
           Config!vars
  <1>2. Config!Ordered' = Config!Ordered
    BY <1>1, SMT DEF Config!Ordered, Config!Handles, Config!ToSet
  <1>3. Rows(ES_ADDR_CFG) /\ Rows(ES_ADDR_CFG')
    BY <1>1 DEF ConfigInv
  <1>4. CASE Config!OnInit
    <2>1. Groups(Config!LoadPeerInfo, Len(ES_ADDR_CFG), Config!Ordered)
      BY <1>3, <1>4, LoadGroups DEF Config!OnInit
    <2>2. /\ m_lstVbhPeer' = Config!LoadPeerInfo
          /\ m_nEndorsePeerCount' \in 1 .. Len(Config!LoadPeerInfo)
      BY <1>4, Zenon DEF Config!OnInit
    <2>3. /\ Groups(m_lstVbhPeer', Len(ES_ADDR_CFG'), Config!Ordered')
          /\ m_nEndorsePeerCount' \in 1 .. Len(m_lstVbhPeer')
      BY <1>1, <1>2, <2>1, <2>2, Zenon
    <2> QED BY <1>3, <2>3, Zenon DEF ConfigInv
  <1>5. CASE Config!OnInitFails
    <2>1. service' # "running"
      BY <1>5 DEF Config!OnInitFails
    <2> QED BY <1>3, <2>1 DEF ConfigInv
  <1>6. CASE UNCHANGED <<m_lstVbhPeer, m_nEndorsePeerCount, service>>
    <2>1. service' = service /\ m_lstVbhPeer' = m_lstVbhPeer /\ m_nEndorsePeerCount' = m_nEndorsePeerCount
      BY <1>6
    <2>2. service = "running" =>
            /\ Groups(m_lstVbhPeer, Len(ES_ADDR_CFG), Config!Ordered)
            /\ m_nEndorsePeerCount \in 1 .. Len(m_lstVbhPeer)
      BY Zenon DEF ConfigInv
    <2>3. service' = "running" =>
            /\ Groups(m_lstVbhPeer', Len(ES_ADDR_CFG'), Config!Ordered')
            /\ m_nEndorsePeerCount' \in 1 .. Len(m_lstVbhPeer')
      BY <1>1, <1>2, <2>1, <2>2, Zenon
    <2> QED BY <1>3, <2>3, Zenon DEF ConfigInv
  <1>7. Config!OnInit \/ Config!OnInitFails \/ UNCHANGED <<m_lstVbhPeer, m_nEndorsePeerCount, service>>
    BY DEF Config!Next, Config!Stopped, Config!Connected, Config!vars
  <1> QED BY <1>4, <1>5, <1>6, <1>7

\* A handle has the id of the group that holds it, its row's in 16 bits.
LEMMA PeerIdIs ==
  ASSUME ConfigInv, service = "running", NEW h \in Config!Handles
  PROVE  /\ Config!GetPeerID(h) = Config!Ordered[h] % IdSpace
         /\ \A i \in 1 .. Len(m_lstVbhPeer) :
              h \in m_lstVbhPeer[i].handles => m_lstVbhPeer[i].id = Config!GetPeerID(h)
  <1> DEFINE list == m_lstVbhPeer
             Holds(i) == i \in DOMAIN list /\ h \in list[i].handles
             c == CHOOSE i : Holds(i)
  <1>1. Config!Handles = 1 .. Len(ES_ADDR_CFG)
    BY DEF Config!Handles
  <1>2. Groups(list, Len(ES_ADDR_CFG), Config!Ordered)
    BY DEF ConfigInv
  <1>3. DOMAIN list = 1 .. Len(list)
    BY <1>2, LenProperties DEF Groups
  <1>4. \A i \in 1 .. Len(list) : h \in list[i].handles => list[i].id = Config!Ordered[h] % IdSpace
    BY <1>2 DEF Groups
  <1>5. \E i : Holds(i)
    BY <1>1, <1>2, <1>3 DEF Groups
  <1>6. Config!GetPeerID(h) = list[c].id
    BY Zenon DEF Config!GetPeerID
  <1>7. Holds(c)
    <2> HIDE DEF Holds
    <2> QED BY <1>5, Zenon
  <1> HIDE DEF c, list
  <1>8. Config!GetPeerID(h) = Config!Ordered[h] % IdSpace
    BY <1>3, <1>4, <1>6, <1>7
  <1> QED BY <1>4, <1>8 DEF list

\* Distinct ids give distinct peers, as many as groups.
LEMMA ServeInv == ConfigInv => StartedCanServe
  <1> DEFINE ord == Config!Ordered
             n == Len(ES_ADDR_CFG)
             list == m_lstVbhPeer
             m == Len(list)
             id(h) == Config!GetPeerID(h)
             ids == {id(h) : h \in Config!Handles}
  <1> SUFFICES ASSUME ConfigInv, service = "running", Config!DistinctIn16Bits
               PROVE  /\ \A g, h \in Config!Handles : id(g) = id(h) <=> ord[g] = ord[h]
                      /\ reached = Config!Handles =>
                           Config!Cardinality({id(h) : h \in reached}) >= m_nEndorsePeerCount
    BY Zenon DEF StartedCanServe, Config!StartedCanServe
  <1>1. n \in Nat /\ Config!Handles = 1 .. n /\ DOMAIN ES_ADDR_CFG = 1 .. n
    BY RowsAre DEF ConfigInv
  <1>2. \A k \in 1 .. n : ord[k] \in Int /\ \E i \in 1 .. n : ord[k] = ES_ADDR_CFG[i]
    BY OrderedIs DEF ConfigInv
  <1>3. \A h \in 1 .. n : id(h) = ord[h] % IdSpace /\
          \A i \in 1 .. m : h \in list[i].handles => list[i].id = id(h)
    BY <1>1, PeerIdIs
  <1>4. \A a, b \in {ES_ADDR_CFG[i] : i \in 1 .. n} : a % IdSpace = b % IdSpace => a = b
    BY <1>1, Zenon DEF Config!DistinctIn16Bits, Config!ToSet
  <1>5. Groups(list, n, ord) /\ m_nEndorsePeerCount \in 1 .. m
    BY DEF ConfigInv
  <1> HIDE DEF ord, n, id
  <1>6. \A g, h \in 1 .. n : id(g) = id(h) <=> ord[g] = ord[h]
    <2>1. ASSUME NEW g \in 1 .. n, NEW h \in 1 .. n, id(g) = id(h)
          PROVE  ord[g] = ord[h]
      <3>1. ord[g] % IdSpace = ord[h] % IdSpace
        BY <1>3, <2>1
      <3>2. ord[g] \in {ES_ADDR_CFG[i] : i \in 1 .. n} /\ ord[h] \in {ES_ADDR_CFG[i] : i \in 1 .. n}
        BY <1>2
      <3> QED BY <1>4, <3>1, <3>2
    <2> QED BY <1>3, <2>1
  <1>7. m \in Nat /\ \A i \in 1 .. m : \E h \in 1 .. n : h \in list[i].handles
    BY <1>5, LenProperties DEF Groups
  <1>8. ASSUME NEW i \in 1 .. m, NEW j \in 1 .. m, i < j, list[i].id = list[j].id
        PROVE  FALSE
    <2>1. PICK g \in 1 .. n : g \in list[i].handles
      BY <1>7
    <2>2. PICK h \in 1 .. n : h \in list[j].handles
      BY <1>7
    <2>3. ord[g] < ord[h] /\ ord[g] \in Int /\ ord[h] \in Int
      BY <1>2, <1>5, <1>8, <2>1, <2>2 DEF Groups
    <2>4. id(g) = id(h)
      BY <1>3, <1>8, <2>1, <2>2
    <2> QED BY <1>6, <2>3, <2>4
  <1> DEFINE f == [h \in 1 .. n |-> id(h)]
             e == [i \in 1 .. m |-> list[i].id]
  <1>9. IsFiniteSet(ids) /\ Cardinality(ids) \in Nat
    <2>1. f \in Surjection(1 .. n, ids)
      BY <1>1 DEF Surjection
    <2>2. IsFiniteSet(1 .. n)
      BY <1>1, FS_Interval
    <2>3. IsFiniteSet(ids)
      <3> HIDE DEF f, ids
      <3> QED BY <2>1, <2>2, FS_Surjection
    <2> QED BY <2>3, FS_CardinalityType
  <1>10. m <= Cardinality(ids)
    <2>1. \A i \in 1 .. m : list[i].id \in ids
      BY <1>1, <1>3, <1>7
    <2>2. \A i, j \in 1 .. m : list[i].id = list[j].id => i = j
      <3>1. \A i, j \in 1 .. m : i # j => i < j \/ j < i
        BY <1>7
      <3> HIDE DEF m, list
      <3> QED BY <1>8, <3>1
    <2>3. e \in Injection(1 .. m, ids)
      <3> HIDE DEF ids, m, list
      <3> QED BY <2>1, <2>2 DEF Injection, IsInjective
    <2>4. Cardinality(1 .. m) <= Cardinality(ids)
      <3> HIDE DEF e, ids, m, list
      <3> QED BY <1>9, <2>3, FS_Injection
    <2>5. Cardinality(1 .. m) = m
      <3> HIDE DEF m, list
      <3> QED BY <1>7, FS_Interval
    <2> QED BY <2>4, <2>5
  <1>11. reached = Config!Handles =>
           Config!Cardinality({id(h) : h \in reached}) >= m_nEndorsePeerCount
    <2>1. Cardinality(ids) >= m_nEndorsePeerCount
      <3> HIDE DEF ids, m, list
      <3> QED BY <1>5, <1>7, <1>9, <1>10
    <2>2. reached = Config!Handles => {id(h) : h \in reached} = ids
      BY Zenon
    <2> HIDE DEF ids
    <2> QED BY <2>1, <2>2, ConfigCounts
  <1> QED BY <1>1, <1>6, <1>11

\* The inductive invariant of the configuration: a running service has its rows
\* grouped, each group the rows of one PEER_ID, and a count it can reach.
THEOREM ConfigInvariance == Config!Spec => []ConfigInv
  BY ConfigInit, ConfigStep, PTL DEF Config!Spec

\* What OnInit accepts can serve: connections belong to one peer exactly when
\* the configuration says so, and there are peers enough for a transaction, if
\* no two PEER_IDs agree in 16 bits.
THEOREM ServiceCanServe == Config!Spec => []StartedCanServe
  BY ServeInv, ConfigInvariance, PTL

(* The instance with all four parts. *)

\* A step of the instance is one of one part and leaves the others alone.
LEMMA PartsSpec == MCSpec => Spec /\ Adapter!Spec /\ Arrays!Spec /\ Config!Spec
  <1>1. MCInit => Init /\ Adapter!Init /\ Arrays!Init /\ Config!Init
    BY DEF MCInit
  <1>2. ASSUME [MCNext]_<<part, clientVars, adapterVars, arrayVars, configVars>>
        PROVE  /\ [Next]_vars /\ [Adapter!Next]_Adapter!vars
               /\ [Arrays!Next]_Arrays!vars /\ [Config!Next]_Config!vars
    <2>1. /\ Next \/ UNCHANGED clientVars
          /\ Adapter!Next \/ UNCHANGED adapterVars
          /\ Arrays!Next \/ UNCHANGED arrayVars
          /\ Config!Next \/ UNCHANGED configVars
      BY <1>2, Zenon DEF MCNext
    <2>2. /\ UNCHANGED clientVars => UNCHANGED vars
          /\ UNCHANGED adapterVars => UNCHANGED Adapter!vars
          /\ UNCHANGED arrayVars => UNCHANGED Arrays!vars
          /\ UNCHANGED configVars => UNCHANGED Config!vars
      BY Zenon DEF clientVars, adapterVars, arrayVars, configVars, Adapter!vars, Arrays!vars,
                   Config!vars
    <2> QED BY <2>1, <2>2, Zenon
  <1> QED BY <1>1, <1>2, PTL DEF MCSpec, Spec, Adapter!Spec, Arrays!Spec, Config!Spec

\* All that hangs on the connections, together, as MCConnTables has it: both
\* tables, the arrays of sessions, and the peers a started service has.
THEOREM TablesCorrect ==
  MCSpec => [](/\ TableExact /\ EvenlySpread
               /\ AdapterTableExact /\ PicksEvenlySpread
               /\ ArraysExact /\ StartedCanServe)
  BY PartsSpec, TablesExact, PicksEven, AdapterTablesExact, AdapterPicksEven,
     SessionArraysExact, ServiceCanServe, PTL
=============================================================================
