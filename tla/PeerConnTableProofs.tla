------------------------- MODULE PeerConnTableProofs -------------------------
(***************************************************************************)
(* Proofs about the connection table of the crypt client: whatever the     *)
(* number of peers and handlers and however the connections come and go,   *)
(* the two arrays list exactly the connections there are, the two round    *)
(* robins spread the picks evenly, and the table implements the pool of    *)
(* endorsers CryptClient is written against.                               *)
(*                                                                         *)
(* IInv is the inductive invariant. Its last three parts say where the     *)
(* round robins are: the elements that have been picked once more than the *)
(* others, and the ones a call has taken, are the last ones passed.        *)
(***************************************************************************)
EXTENDS PeerConnTable, FiniteSetTheorems, SequenceTheorems, TLAPS

(* The operators the table is built from. *)

\* Growing an array keeps its elements and appends Growth fillers.
LEMMA GrownFacts ==
  ASSUME NEW S, NEW arr \in Seq(S), NEW filler \in S
  PROVE  /\ Grown(arr, filler) \in Seq(S)
         /\ Len(Grown(arr, filler)) = Len(arr) + Growth
         /\ \A i \in 1 .. Len(arr) : Grown(arr, filler)[i] = arr[i]
         /\ \A i \in Len(arr) + 1 .. Len(arr) + Growth : Grown(arr, filler)[i] = filler
  <1> DEFINE tail == [i \in 1 .. Growth |-> filler]
  <1>1. Growth \in Nat
    BY TableAssumption
  <1>2. tail \in Seq(S) /\ Len(tail) = Growth
    BY <1>1
  <1>3. /\ arr \o tail \in Seq(S)
        /\ Len(arr \o tail) = Len(arr) + Growth
        /\ \A i \in 1 .. Len(arr) + Growth :
             (arr \o tail)[i] = IF i <= Len(arr) THEN arr[i] ELSE tail[i - Len(arr)]
    BY <1>2, ConcatProperties, ZenonT(40)
  <1>4. \A i \in Len(arr) + 1 .. Len(arr) + Growth : tail[i - Len(arr)] = filler
    BY <1>1
  <1> QED BY <1>1, <1>3, <1>4, LenProperties DEF Grown

LEMMA LeastIs ==
  ASSUME NEW S, S \subseteq Int, NEW v \in S, \A x \in S : v <= x
  PROVE  Min(S) = v
  <1>1. \E w \in S : \A x \in S : w <= x
    OBVIOUS
  <1>2. Min(S) \in S /\ \A x \in S : Min(S) <= x
    BY <1>1, Zenon DEF Min
  <1>3. Min(S) <= v /\ v <= Min(S)
    BY <1>2
  <1>4. Min(S) \in Int /\ v \in Int
    BY <1>2
  <1> HIDE DEF Min
  <1> QED BY <1>3, <1>4

\* A new handler goes behind the others and the index is one of the session's.
LEMMA AddHandlerFacts ==
  ASSUME NEW s \in PeerSession, s.num <= Len(s.arr), NEW h \in Handlers,
         NEW t \in AddHandler(s, h)
  PROVE  /\ t \in PeerSession /\ t.id = s.id
         /\ t.num = s.num + 1 /\ t.num <= Len(t.arr) /\ t.index < t.num
         /\ t.arr[t.num] = h
         /\ \A i \in 1 .. s.num : t.arr[i] = s.arr[i]
  <1> DEFINE arr == IF s.num = Len(s.arr) THEN Grown(s.arr, NULL) ELSE s.arr
             S == Handlers \cup {NULL}
             more == [arr EXCEPT ![s.num + 1] = h]
  <1>1. s.arr \in Seq(S) /\ s.num \in Nat /\ Growth \in Nat \ {0} /\ s.index \in Nat
        /\ s.id \in Peers \cup {NULL}
    BY TableAssumption DEF PeerSession
  <1>2. /\ arr \in Seq(S) /\ s.num + 1 <= Len(arr)
        /\ \A i \in 1 .. s.num : arr[i] = s.arr[i]
    <2>1. CASE s.num = Len(s.arr)
      <3>1. arr = Grown(s.arr, NULL)
        BY <2>1
      <3>2. /\ Grown(s.arr, NULL) \in Seq(S)
            /\ Len(Grown(s.arr, NULL)) = Len(s.arr) + Growth
            /\ \A i \in 1 .. Len(s.arr) : Grown(s.arr, NULL)[i] = s.arr[i]
        <4>1. NULL \in S /\ s.arr \in Seq(S)
          BY <1>1
        <4> HIDE DEF S, arr
        <4>2. \A i \in 1 .. Len(s.arr) : Grown(s.arr, NULL)[i] = s.arr[i]
          <5>1. ASSUME NEW arr0 \in Seq(S), NEW i \in 1 .. Len(arr0)
                PROVE  Grown(arr0, NULL)[i] = arr0[i]
            BY <4>1, GrownFacts
          <5> QED BY <4>1, <5>1
        <4>3. /\ Grown(s.arr, NULL) \in Seq(S)
              /\ Len(Grown(s.arr, NULL)) = Len(s.arr) + Growth
          BY <4>1, GrownFacts, ZenonT(30)
        <4> QED BY <4>2, <4>3
      <3> HIDE DEF arr
      <3> QED BY <1>1, <2>1, <3>1, <3>2
    <2>2. CASE s.num # Len(s.arr)
      BY <1>1, <2>2, LenProperties
    <2> QED BY <2>1, <2>2
  <1>3. /\ more \in Seq(S) /\ Len(more) = Len(arr)
        /\ \A j \in 1 .. Len(arr) : more[j] = IF j = s.num + 1 THEN h ELSE arr[j]
    <2>1. s.num + 1 \in 1 .. Len(arr)
      BY <1>1, <1>2, LenProperties
    <2> QED BY <1>2, <2>1, ExceptSeq
  <1>4. PICK k \in 0 .. s.num :
          t = [s EXCEPT !.arr = more, !.num = s.num + 1, !.index = k]
    BY DEF AddHandler
  <1>5. t = [id |-> s.id, arr |-> more, num |-> s.num + 1, index |-> k]
    BY <1>4 DEF PeerSession
  <1> HIDE DEF more, arr
  <1>6. t.arr = more /\ t.num = s.num + 1 /\ t.index = k /\ t.id = s.id /\ t \in PeerSession
    BY <1>1, <1>3, <1>5 DEF PeerSession
  <1>7. Len(arr) \in Nat
    BY <1>2, LenProperties
  <1> QED BY <1>1, <1>2, <1>3, <1>6, <1>7

LEMMA AddHandlerLists ==
  ASSUME NEW s \in PeerSession, NEW C, ListsOf(s, C), NEW h \in Handlers, h \notin C,
         NEW t \in AddHandler(s, h)
  PROVE  ListsOf(t, C \cup {h})
  <1>1. /\ t \in PeerSession /\ t.num = s.num + 1 /\ t.num <= Len(t.arr)
        /\ t.arr[t.num] = h
        /\ \A i \in 1 .. s.num : t.arr[i] = s.arr[i]
    BY AddHandlerFacts DEF ListsOf
  <1>2. s.num \in Nat
    BY DEF PeerSession
  <1>3. IsFiniteSet(C \cup {h}) /\ t.num = Cardinality(C \cup {h})
    BY <1>1, FS_AddElement DEF ListsOf
  <1>4. Range1(t.arr, t.num) = C \cup {h}
    <2>1. {t.arr[i] : i \in 1 .. t.num} = {t.arr[i] : i \in 1 .. s.num} \cup {t.arr[t.num]}
      BY <1>1, <1>2
    <2>2. {t.arr[i] : i \in 1 .. s.num} = {s.arr[i] : i \in 1 .. s.num}
      BY <1>1
    <2> QED BY <1>1, <2>1, <2>2 DEF ListsOf, Range1
  <1>5. ASSUME NEW k \in 1 .. t.num, NEW l \in 1 .. t.num, t.arr[k] = t.arr[l]
        PROVE  k = l
    <2>1. \A i \in 1 .. s.num : t.arr[i] # h
      BY <1>1 DEF ListsOf, Range1
    <2>2. \A i \in 1 .. t.num : i \in 1 .. s.num \/ i = t.num
      BY <1>1, <1>2
    <2> QED BY <1>1, <1>5, <2>1, <2>2 DEF ListsOf
  <1> QED BY <1>1, <1>3, <1>4, <1>5 DEF ListsOf

\* t is the session s, which listed C, without h.
Without(t, s, C, h) ==
  /\ t \in PeerSession /\ t.id = s.id /\ t.num = s.num - 1
  /\ t.num > 0 => t.index < t.num
  /\ ListsOf(t, C \ {h})

\* The handler is in the session once; its place is taken by the last one.
LEMMA RemoveHandlerFacts ==
  ASSUME NEW s \in PeerSession, NEW C, ListsOf(s, C), NEW h \in C,
         NEW t \in RemoveHandler(s, h)
  PROVE  Without(t, s, C, h)
  <1> DEFINE pos == {i \in 1 .. s.num : s.arr[i] = h}
             S == Handlers \cup {NULL}
  <1>1. s.arr \in Seq(S) /\ s.num \in Nat /\ s.index \in Nat /\ s.id \in Peers \cup {NULL}
    BY DEF PeerSession
  <1>2. PICK p \in 1 .. s.num : s.arr[p] = h
    BY DEF ListsOf, Range1
  <1>3. pos = {p}
    BY <1>2 DEF ListsOf
  <1>4. Min(pos) = p
    <2>1. pos \subseteq Int /\ p \in pos /\ \A x \in pos : p <= x
      BY <1>1, <1>3
    <2> HIDE DEF pos
    <2> QED BY <2>1, LeastIs
  <1> DEFINE rest == [s.arr EXCEPT ![p] = s.arr[s.num]]
  <1>5. PICK k \in IF s.num > 1 THEN 0 .. s.num - 2 ELSE {s.index} :
          t = [s EXCEPT !.arr[p] = s.arr[s.num], !.num = s.num - 1, !.index = k]
    BY <1>3, <1>4, Zenon DEF RemoveHandler
  <1>6. t = [id |-> s.id, arr |-> rest, num |-> s.num - 1, index |-> k]
    BY <1>5 DEF PeerSession
  <1>7. s.num \in 1 .. Len(s.arr) /\ p \in 1 .. Len(s.arr)
    BY <1>1, <1>2, LenProperties DEF ListsOf
  <1>8. /\ rest \in Seq(S) /\ Len(rest) = Len(s.arr)
        /\ \A j \in 1 .. Len(s.arr) : rest[j] = IF j = p THEN s.arr[s.num] ELSE s.arr[j]
    <2>1. s.arr[s.num] \in S
      BY <1>1, <1>7, ElementOfSeq
    <2> QED BY <1>1, <1>7, <2>1, ExceptSeq
  <1> HIDE DEF rest
  <1>9. t.arr = rest /\ t.num = s.num - 1 /\ t.index = k /\ t.id = s.id /\ t \in PeerSession
    <2>1. k \in Nat /\ s.num - 1 \in Nat
      BY <1>1, <1>7
    <2> QED BY <1>1, <1>6, <1>8, <2>1 DEF PeerSession
  <1>10. t.num > 0 => t.index < t.num
    BY <1>1, <1>9
  <1>11. IsFiniteSet(C \ {h}) /\ t.num = Cardinality(C \ {h})
    BY <1>9, FS_RemoveElement DEF ListsOf
  <1>12. \A j \in 1 .. s.num - 1 : rest[j] = IF j = p THEN s.arr[s.num] ELSE s.arr[j]
    BY <1>1, <1>7, <1>8, LenProperties
  <1>13. Range1(t.arr, t.num) = C \ {h}
    <2>1. ASSUME NEW x \in Range1(t.arr, t.num)
          PROVE  x \in C \ {h}
      <3>1. PICK j \in 1 .. s.num - 1 : x = rest[j]
        BY <1>9, <2>1 DEF Range1
      <3>2. PICK i \in 1 .. s.num : i # p /\ x = s.arr[i]
        <4>1. CASE j = p
          <5>1. s.num \in 1 .. s.num /\ s.num # p /\ x = s.arr[s.num]
            BY <1>1, <1>12, <3>1, <4>1
          <5> QED BY <5>1
        <4>2. CASE j # p
          <5>1. j \in 1 .. s.num /\ x = s.arr[j]
            BY <1>1, <1>12, <3>1, <4>2
          <5> QED BY <4>2, <5>1
        <4> QED BY <4>1, <4>2
      <3> QED BY <1>2, <3>2 DEF ListsOf, Range1
    <2>2. ASSUME NEW x \in C \ {h}
          PROVE  x \in Range1(t.arr, t.num)
      <3>1. PICK i \in 1 .. s.num : x = s.arr[i]
        BY <2>2 DEF ListsOf, Range1
      <3>2. i # p
        BY <1>2, <2>2, <3>1
      <3>3. CASE i = s.num
        <4>1. p \in 1 .. s.num - 1 /\ rest[p] = x
          BY <1>1, <1>2, <1>12, <3>1, <3>2, <3>3
        <4> QED BY <1>9, <4>1 DEF Range1
      <3>4. CASE i # s.num
        <4>1. i \in 1 .. s.num - 1 /\ rest[i] = x
          BY <1>1, <1>12, <3>1, <3>2, <3>4
        <4> QED BY <1>9, <4>1 DEF Range1
      <3> QED BY <3>3, <3>4
    <2> QED BY <2>1, <2>2
  <1>14. ASSUME NEW i \in 1 .. t.num, NEW l \in 1 .. t.num, t.arr[i] = t.arr[l]
         PROVE  i = l
    <2>1. i \in 1 .. s.num - 1 /\ l \in 1 .. s.num - 1
      BY <1>9
    <2>2. rest[i] = rest[l]
      BY <1>9, <1>14
    <2> QED BY <1>1, <1>12, <2>1, <2>2 DEF ListsOf
  <1> QED BY <1>1, <1>7, <1>8, <1>9, <1>10, <1>11, <1>13, <1>14, LenProperties DEF ListsOf, Without

(* The round robins. *)

LEMMA EvenFresh ==
  ASSUME NEW use, NEW f, NEW n \in Nat \ {0}, NEW p \in 1 .. n,
         \A i \in 1 .. n : use[f[i]] = 0
  PROVE  Even(use, f, p, n)
  <1>1. \A i \in 1 .. n : ~(Ago(i, p, n) < 0)
    BY DEF Ago
  <1>2. 0 \in 0 .. n - 1
    OBVIOUS
  <1> QED BY <1>1, <1>2 DEF Even

LEMMA EvenSame ==
  ASSUME NEW use, NEW f, NEW p, NEW n, Even(use, f, p, n),
         NEW use2, NEW f2, \A i \in 1 .. n : use2[f2[i]] = use[f[i]]
  PROVE  Even(use2, f2, p, n)
  BY DEF Even

LEMMA EvenBits ==
  ASSUME NEW use, NEW f, NEW p, NEW n, Even(use, f, p, n), NEW i \in 1 .. n
  PROVE  use[f[i]] \in {0, 1}
  BY DEF Even

\* The element after p in the round is the one that was passed longest ago.
LEMMA AgoNext ==
  ASSUME NEW n \in Nat \ {0}, NEW p \in 1 .. n, NEW q, q = IF p = n THEN 1 ELSE p + 1
  PROVE  /\ q \in 1 .. n /\ Ago(q, p, n) = n - 1 /\ Ago(q, q, n) = 0
         /\ \A i \in 1 .. n : /\ Ago(i, p, n) \in 0 .. n - 1
                              /\ i # q => Ago(i, p, n) < n - 1
                              /\ i # q => Ago(i, q, n) = Ago(i, p, n) + 1
  <1>1. q \in 1 .. n /\ Ago(q, p, n) = n - 1 /\ Ago(q, q, n) = 0
    BY DEF Ago
  <1>2. ASSUME NEW i \in 1 .. n
        PROVE  /\ Ago(i, p, n) \in 0 .. n - 1
               /\ i # q => Ago(i, p, n) < n - 1
               /\ i # q => Ago(i, q, n) = Ago(i, p, n) + 1
    BY DEF Ago
  <1> QED BY <1>1, <1>2

LEMMA CountOthers ==
  ASSUME NEW D, NEW use \in [D -> Nat], NEW group, NEW x \in group
  PROVE  \A y \in D \ group : Count(use, x, group)[y] = use[y]
  BY DEF Count

\* Picking the next element keeps the picks even: it has not been picked once
\* more than the others, and when all have been picked all count as unpicked.
LEMMA CountEven ==
  ASSUME NEW D, NEW use \in [D -> Nat], NEW n \in Nat \ {0},
         NEW f, \A i \in 1 .. n : f[i] \in D,
         \A i, j \in 1 .. n : f[i] = f[j] => i = j,
         NEW p \in 1 .. n, NEW q, q = IF p = n THEN 1 ELSE p + 1,
         Even(use, f, p, n),
         NEW group, group = {f[i] : i \in 1 .. n}
  PROVE  /\ Count(use, f[q], group) \in [D -> Nat]
         /\ Even(Count(use, f[q], group), f, q, n)
  <1> DEFINE more == [use EXCEPT ![f[q]] = @ + 1]
             values == {more[y] : y \in group}
             least == Min(values)
             counted == Count(use, f[q], group)
  <1>1. PICK j \in 0 .. n - 1 :
          \A i \in 1 .. n : use[f[i]] = IF Ago(i, p, n) < j THEN 1 ELSE 0
    BY DEF Even
  <1>2. /\ q \in 1 .. n /\ Ago(q, p, n) = n - 1 /\ Ago(q, q, n) = 0
        /\ \A i \in 1 .. n : /\ Ago(i, p, n) \in 0 .. n - 1
                             /\ i # q => Ago(i, p, n) < n - 1
                             /\ i # q => Ago(i, q, n) = Ago(i, p, n) + 1
    BY AgoNext
  <1>3. counted = [y \in D |-> IF y \in group THEN more[y] - least ELSE more[y]]
    BY DEF Count
  <1>4. more \in [D -> Nat] /\ \A y \in D : more[y] = IF y = f[q] THEN use[y] + 1 ELSE use[y]
    BY <1>2
  <1>5. \A i \in 1 .. n : more[f[i]] = IF i = q \/ Ago(i, p, n) < j THEN 1 ELSE 0
    BY <1>1, <1>2, <1>4
  <1>6. /\ \A i \in 1 .. n : more[f[i]] \in values
        /\ \A v \in values : \E i \in 1 .. n : v = more[f[i]]
        /\ values \subseteq Int
    BY <1>4
  <1> HIDE DEF more, counted
  <1>7. CASE j = n - 1
    <2>1. \A i \in 1 .. n : more[f[i]] = 1
      BY <1>2, <1>5, <1>7
    <2>2. 1 \in values /\ \A v \in values : 1 <= v
      BY <1>2, <1>6, <2>1
    <2>3. least = 1
      <3> HIDE DEF values
      <3>1. ASSUME NEW v \in values, \A x \in values : v <= x
            PROVE  least = v
        BY <1>6, <3>1, LeastIs
      <3> HIDE DEF least
      <3> QED BY <2>2, <3>1
    <2> HIDE DEF least
    <2>4. \A i \in 1 .. n : counted[f[i]] = 0
      BY <1>3, <2>1, <2>3
    <2>5. Even(counted, f, q, n)
      BY <1>2, <2>4, EvenFresh
    <2>6. ASSUME NEW y \in D
          PROVE  counted[y] \in Nat /\ (y \notin group => counted[y] = use[y])
      <3>1. CASE y \in group
        BY <2>4, <3>1
      <3>2. CASE y \notin group
        BY <1>2, <1>3, <1>4, <3>2
      <3> QED BY <3>1, <3>2
    <2> QED BY <1>3, <2>5, <2>6 DEF counted
  <1>8. CASE j < n - 1
    <2>1. more[f[q]] = 1
      BY <1>2, <1>5
    <2>2. 0 \in values /\ \A v \in values : 0 <= v
      <3>1. PICK i \in 1 .. n : i # q /\ ~(Ago(i, p, n) < j)
        <4>1. CASE p # q
          <5>1. PICK i \in 1 .. n : i = IF q = n THEN 1 ELSE q + 1
            BY <1>2
          <5>2. i # q /\ Ago(i, p, n) = n - 2
            BY <1>2, <4>1, <5>1 DEF Ago
          <5> QED BY <1>8, <5>2
        <4>2. CASE p = q
          BY <1>2, <1>8, <4>2
        <4> QED BY <4>1, <4>2
      <3> QED BY <1>5, <1>6, <3>1
    <2>3. least = 0
      <3> HIDE DEF values
      <3> QED BY <1>6, <2>2, LeastIs
    <2> HIDE DEF least
    <2>4. \A y \in D : counted[y] = more[y]
      BY <1>3, <1>4, <2>3
    <2>5. Even(counted, f, q, n)
      <3>1. j + 1 \in 0 .. n - 1
        BY <1>8
      <3>2. ASSUME NEW i \in 1 .. n
            PROVE  counted[f[i]] = IF Ago(i, q, n) < j + 1 THEN 1 ELSE 0
        BY <1>2, <1>5, <2>4
      <3> QED BY <3>1, <3>2 DEF Even
    <2>6. \A y \in D : counted[y] \in Nat /\ (y \notin group => counted[y] = use[y])
      BY <1>2, <1>4, <2>4
    <2> QED BY <1>3, <2>5, <2>6 DEF counted
  <1> QED BY <1>7, <1>8

LEMMA AdvanceIsNext ==
  ASSUME NEW n \in Nat \ {0}, NEW k \in Nat, k < n
  PROVE  /\ Advance(k, n) \in Nat /\ Advance(k, n) < n
         /\ Advance(k, n) + 1 = IF k + 1 = n THEN 1 ELSE (k + 1) + 1
  BY DEF Advance

(* The table. *)

LEMMA ConnectedToFacts ==
  \A p, h : h \in ConnectedTo(p) <=> h \in connected /\ PeerOf[h] = p
  BY DEF ConnectedTo

LEMMA SessionFacts ==
  ASSUME TypeOK, TableInv, NEW i \in 1 .. m_nSessionNum
  PROVE  /\ i \in 1 .. Len(arrPeer) /\ arrPeer[i] \in PeerSession
         /\ arrPeer[i].id \in Peers /\ arrPeer[i].arr \in Seq(Handlers \cup {NULL})
         /\ arrPeer[i].num \in Nat \ {0} /\ arrPeer[i].num <= Len(arrPeer[i].arr)
         /\ arrPeer[i].index \in Nat /\ arrPeer[i].index < arrPeer[i].num
         /\ ListsOf(arrPeer[i], ConnectedTo(arrPeer[i].id))
  <1>1. i \in 1 .. Len(arrPeer) /\ arrPeer[i] \in PeerSession
    <2>1. i \in 1 .. Len(arrPeer)
      BY LenProperties DEF TypeOK, TableInv
    <2> QED BY <2>1, ElementOfSeq DEF TypeOK
  <1>2. /\ arrPeer[i].id \in Peers /\ arrPeer[i].index < arrPeer[i].num
        /\ ListsOf(arrPeer[i], ConnectedTo(arrPeer[i].id))
    BY DEF TableInv
  <1>3. /\ arrPeer[i].arr \in Seq(Handlers \cup {NULL})
        /\ arrPeer[i].num \in Nat /\ arrPeer[i].index \in Nat
    BY <1>1 DEF PeerSession
  <1>4. arrPeer[i].num <= Len(arrPeer[i].arr)
    BY <1>2 DEF ListsOf
  <1>5. arrPeer[i].num # 0
    BY <1>2, <1>3
  <1> QED BY <1>1, <1>2, <1>3, <1>4, <1>5

\* The first elements of a session's array are its peer's connections.
LEMMA ListedFacts ==
  ASSUME TypeOK, TableInv, NEW i \in 1 .. m_nSessionNum
  PROVE  /\ ConnectedTo(arrPeer[i].id) = {arrPeer[i].arr[k] : k \in 1 .. arrPeer[i].num}
         /\ \A k \in 1 .. arrPeer[i].num :
              /\ arrPeer[i].arr[k] \in connected
              /\ PeerOf[arrPeer[i].arr[k]] = arrPeer[i].id
         /\ \A k, l \in 1 .. arrPeer[i].num : arrPeer[i].arr[k] = arrPeer[i].arr[l] => k = l
  <1>1. ListsOf(arrPeer[i], ConnectedTo(arrPeer[i].id))
    BY SessionFacts
  <1>2. ConnectedTo(arrPeer[i].id) = {arrPeer[i].arr[k] : k \in 1 .. arrPeer[i].num}
    BY <1>1 DEF ListsOf, Range1
  <1>3. \A k, l \in 1 .. arrPeer[i].num : arrPeer[i].arr[k] = arrPeer[i].arr[l] => k = l
    BY <1>1 DEF ListsOf
  <1>4. \A k \in 1 .. arrPeer[i].num : arrPeer[i].arr[k] \in ConnectedTo(arrPeer[i].id)
    BY <1>2
  <1> QED BY <1>2, <1>3, <1>4, ConnectedToFacts

LEMMA ConnectedFacts ==
  ASSUME TypeOK, TableInv, NEW h \in connected
  PROVE  /\ h \in Handlers /\ PeerOf[h] \in Peers
         /\ \E i \in 1 .. m_nSessionNum :
              /\ arrPeer[i].id = PeerOf[h]
              /\ FindSession(PeerOf[h]) = {i}
              /\ \E k \in 1 .. arrPeer[i].num : arrPeer[i].arr[k] = h
  <1>1. h \in Handlers /\ PeerOf[h] \in Peers
    BY TableAssumption DEF TypeOK
  <1>2. PICK i \in 1 .. m_nSessionNum : arrPeer[i].id = PeerOf[h]
    BY DEF TableInv, FindSession
  <1>3. FindSession(PeerOf[h]) = {i}
    BY <1>2 DEF TableInv, FindSession
  <1>4. h \in ConnectedTo(arrPeer[i].id)
    BY <1>2, ConnectedToFacts
  <1>5. \E k \in 1 .. arrPeer[i].num : arrPeer[i].arr[k] = h
    BY <1>4, ListedFacts
  <1> QED BY <1>1, <1>2, <1>3, <1>5

\* arr is the array of peers, except that the index of peer i may have moved.
Alike(arr, i) ==
  /\ arr \in Seq(PeerSession) /\ Len(arr) = Len(arrPeer)
  /\ \A k \in 1 .. Len(arrPeer) : k # i => arr[k] = arrPeer[k]
  /\ arr[i].id = arrPeer[i].id /\ arr[i].arr = arrPeer[i].arr
  /\ arr[i].num = arrPeer[i].num /\ arr[i].index < arr[i].num

LEMMA AlikeItself ==
  ASSUME TypeOK, TableInv, NEW i \in 1 .. m_nSessionNum
  PROVE  Alike(arrPeer, i)
  BY SessionFacts DEF Alike, TypeOK

LEMMA AlikeSame ==
  ASSUME TypeOK, TableInv, NEW i \in 1 .. m_nSessionNum, NEW arr, Alike(arr, i)
  PROVE  \A k \in 1 .. m_nSessionNum :
           /\ k \in 1 .. Len(arr) /\ arr[k] \in PeerSession
           /\ arr[k].id = arrPeer[k].id /\ arr[k].arr = arrPeer[k].arr
           /\ arr[k].num = arrPeer[k].num /\ arr[k].index < arr[k].num
           /\ ListsOf(arr[k], ConnectedTo(arrPeer[k].id))
  <1> TAKE k \in 1 .. m_nSessionNum
  <1>1. k \in 1 .. Len(arr) /\ arr[k] \in PeerSession
    BY SessionFacts, ElementOfSeq DEF Alike
  <1>2. /\ arr[k].id = arrPeer[k].id /\ arr[k].arr = arrPeer[k].arr
        /\ arr[k].num = arrPeer[k].num /\ arr[k].index < arr[k].num
    BY SessionFacts DEF Alike
  <1>3. ListsOf(arr[k], ConnectedTo(arrPeer[k].id))
    BY <1>2, SessionFacts DEF ListsOf
  <1> QED BY <1>1, <1>2, <1>3

\* Moving an index leaves what the table lists as it is.
LEMMA AlikeTable ==
  ASSUME TypeOK, TableInv, NEW i \in 1 .. m_nSessionNum, Alike(arrPeer', i),
         UNCHANGED <<m_nSessionNum, connected>>,
         m_nIndex' \in Nat, m_nIndex' < m_nSessionNum
  PROVE  /\ TableInv'
         /\ \A p : FindSession(p)' = FindSession(p)
  <1>1. \A k \in 1 .. m_nSessionNum :
          /\ arrPeer'[k].id = arrPeer[k].id
          /\ arrPeer'[k].index < arrPeer'[k].num
          /\ ListsOf(arrPeer'[k], ConnectedTo(arrPeer[k].id))
    BY AlikeSame
  <1>2. \A p : FindSession(p)' = FindSession(p)
    BY <1>1 DEF FindSession
  <1>4. m_nSessionNum' <= Len(arrPeer')
    BY DEF TableInv, Alike
  <1>5. \A k \in 1 .. m_nSessionNum :
          /\ arrPeer'[k].id \in Peers /\ arrPeer'[k].index < arrPeer'[k].num
          /\ ListsOf(arrPeer'[k], ConnectedTo(arrPeer[k].id)')
    <2> TAKE k \in 1 .. m_nSessionNum
    <2>1. ConnectedTo(arrPeer[k].id)' = ConnectedTo(arrPeer[k].id)
      BY <1>1 DEF ConnectedTo
    <2> QED BY <1>1, <2>1, SessionFacts
  <1>6. \A k \in m_nSessionNum + 1 .. Len(arrPeer') : arrPeer'[k] = EmptySession
    <2> TAKE k \in m_nSessionNum + 1 .. Len(arrPeer')
    <2>1. k \in 1 .. Len(arrPeer) /\ k # i /\ k \in m_nSessionNum + 1 .. Len(arrPeer)
      BY DEF Alike, TypeOK
    <2> QED BY <2>1 DEF Alike, TableInv
  <1>7. \A k, l \in 1 .. m_nSessionNum : arrPeer'[k].id = arrPeer'[l].id => k = l
    BY <1>1 DEF TableInv
  <1>8. \A h \in connected : FindSession(PeerOf[h])' # {}
    BY <1>2 DEF TableInv
  <1> QED BY <1>2, <1>4, <1>5, <1>6, <1>7, <1>8 DEF TableInv

PickedFrom(i, h, arr, use) ==
  /\ h \in connected /\ PeerOf[h] = arrPeer[i].id
  /\ Alike(arr, i)
  /\ use \in [Handlers -> Nat]
  /\ \A m \in 1 .. m_nSessionNum : Even(use, arr[m].arr, arr[m].index + 1, arr[m].num)

\* Taking the next handler of peer i: the handler is a connection of that peer,
\* and the picks of its handlers, and of the other peers', stay even.
LEMMA PickFromSession ==
  ASSUME TypeOK, TableInv, HandlersEven, NEW i \in 1 .. m_nSessionNum,
         NEW k, k = Advance(arrPeer[i].index, arrPeer[i].num),
         NEW h, h = arrPeer[i].arr[k + 1],
         NEW arr, arr = [arrPeer EXCEPT ![i].index = k],
         NEW use, use = Count(handlerUse, h, ConnectedTo(arrPeer[i].id))
  PROVE  PickedFrom(i, h, arr, use)
  <1> DEFINE s == arrPeer[i]
             f == s.arr
             n == s.num
             p == s.index + 1
             group == ConnectedTo(s.id)
  <1>1. /\ i \in 1 .. Len(arrPeer) /\ s \in PeerSession /\ n \in Nat \ {0}
        /\ s.index \in Nat /\ s.index < n
    BY SessionFacts
  <1>2. /\ k \in Nat /\ k < n
        /\ k + 1 = IF p = n THEN 1 ELSE p + 1
    BY <1>1, AdvanceIsNext
  <1>3. /\ group = {f[l] : l \in 1 .. n}
        /\ \A l \in 1 .. n : f[l] \in connected /\ PeerOf[f[l]] = s.id
        /\ \A l, m \in 1 .. n : f[l] = f[m] => l = m
    BY ListedFacts
  <1>4. h \in connected /\ PeerOf[h] = s.id
    BY <1>1, <1>2, <1>3
  <1>5. Even(handlerUse, f, p, n)
    BY DEF HandlersEven
  <1>6. \A l \in 1 .. n : f[l] \in Handlers
    BY <1>3 DEF TypeOK
  <1>7. /\ use \in [Handlers -> Nat]
        /\ Even(use, f, k + 1, n)
        /\ \A y \in Handlers \ group : use[y] = handlerUse[y]
    <2>1. p \in 1 .. n /\ handlerUse \in [Handlers -> Nat]
      BY <1>1 DEF TypeOK
    <2> HIDE DEF f, p, n, group, s
    <2>2. /\ Count(handlerUse, f[k + 1], group) \in [Handlers -> Nat]
          /\ Even(Count(handlerUse, f[k + 1], group), f, k + 1, n)
      BY <1>1, <1>2, <1>3, <1>5, <1>6, <2>1, CountEven, ZenonT(40)
    <2>4. \A y \in Handlers \ group : Count(handlerUse, f[k + 1], group)[y] = handlerUse[y]
      <3>1. f[k + 1] \in group
        BY <1>1, <1>2, <1>3
      <3> QED BY <2>1, <3>1, CountOthers
    <2>3. use = Count(handlerUse, f[k + 1], group)
      BY DEF f, group, s
    <2> QED BY <2>2, <2>3, <2>4
  <1>8. arr = [arrPeer EXCEPT ![i] = [s EXCEPT !.index = k]]
    BY <1>1 DEF TypeOK
  <1>9. [s EXCEPT !.index = k] = [id |-> s.id, arr |-> s.arr, num |-> s.num, index |-> k]
    BY <1>1 DEF PeerSession
  <1>10. [s EXCEPT !.index = k] \in PeerSession
    BY <1>1, <1>2 DEF PeerSession
  <1>11. /\ arr \in Seq(PeerSession) /\ Len(arr) = Len(arrPeer)
         /\ \A j \in 1 .. Len(arrPeer) :
              arr[j] = IF j = i THEN [s EXCEPT !.index = k] ELSE arrPeer[j]
    <2> DEFINE e == [s EXCEPT !.index = k]
    <2>1. e \in PeerSession /\ arr = [arrPeer EXCEPT ![i] = e] /\ arrPeer \in Seq(PeerSession)
      BY <1>8, <1>10 DEF TypeOK
    <2> HIDE DEF e
    <2>2. /\ arr \in Seq(PeerSession) /\ Len(arr) = Len(arrPeer)
          /\ \A j \in 1 .. Len(arrPeer) : arr[j] = IF j = i THEN e ELSE arrPeer[j]
      BY <1>1, <2>1, ExceptSeq, SMTT(30)
    <2> QED BY <2>2 DEF e
  <1>12. arr[i] = [id |-> s.id, arr |-> s.arr, num |-> s.num, index |-> k]
    BY <1>1, <1>9, <1>11
  <1>13. Alike(arr, i)
    BY <1>2, <1>11, <1>12 DEF Alike
  <1>14. ASSUME NEW m \in 1 .. m_nSessionNum
         PROVE  Even(use, arr[m].arr, arr[m].index + 1, arr[m].num)
    <2>1. CASE m = i
      BY <1>7, <1>12, <2>1
    <2>2. CASE m # i
      <3>1. arr[m] = arrPeer[m]
        BY <1>11, <2>2, SessionFacts
      <3>2. \A l \in 1 .. arrPeer[m].num : arrPeer[m].arr[l] \in Handlers \ group
        <4>1. arrPeer[m].id # s.id
          BY <2>2 DEF TableInv
        <4>2. \A l \in 1 .. arrPeer[m].num :
                arrPeer[m].arr[l] \in connected /\ PeerOf[arrPeer[m].arr[l]] = arrPeer[m].id
          BY ListedFacts
        <4> QED BY <4>1, <4>2, ConnectedToFacts DEF TypeOK
      <3>3. Even(handlerUse, arrPeer[m].arr, arrPeer[m].index + 1, arrPeer[m].num)
        BY DEF HandlersEven
      <3>4. Even(use, arrPeer[m].arr, arrPeer[m].index + 1, arrPeer[m].num)
        BY <1>7, <3>2, <3>3, EvenSame
      <3> QED BY <3>1, <3>4
    <2> QED BY <2>1, <2>2
  <1> QED BY <1>4, <1>7, <1>13, <1>14 DEF PickedFrom

\* The ids of the peers in use, in the order of the array.
Ids == [i \in 1 .. m_nSessionNum |-> arrPeer[i].id]

\* What GetMcpHandler does: the next handler of the next peer.
LEMMA GetMcpHandlerFacts ==
  ASSUME TypeOK, TableInv, HandlersEven, PeersEven, m_nSessionNum > 0
  PROVE  /\ NextPeer \in Nat /\ NextPeer < m_nSessionNum
         /\ NextPeer + 1 \in 1 .. m_nSessionNum
         /\ NextPeer + 1 = IF m_nIndex + 1 = m_nSessionNum THEN 1 ELSE (m_nIndex + 1) + 1
         /\ GetMcpHandler \in connected /\ PeerOf[GetMcpHandler] = arrPeer[NextPeer + 1].id
         /\ FindSession(PeerOf[GetMcpHandler]) = {NextPeer + 1}
         /\ Alike(Moved, NextPeer + 1)
         /\ PeerPicked \in [Peers -> Nat]
         /\ Even(PeerPicked, Ids, NextPeer + 1, m_nSessionNum)
  <1>1. m_nSessionNum \in Nat \ {0} /\ m_nIndex \in Nat /\ m_nIndex < m_nSessionNum
    BY DEF TypeOK, TableInv
  <1>2. /\ NextPeer \in Nat /\ NextPeer < m_nSessionNum
        /\ NextPeer + 1 \in 1 .. m_nSessionNum
        /\ NextPeer + 1 = IF m_nIndex + 1 = m_nSessionNum THEN 1 ELSE (m_nIndex + 1) + 1
    BY <1>1, AdvanceIsNext DEF NextPeer
  <1> HIDE DEF NextPeer
  <1>3. /\ GetMcpHandler \in connected /\ PeerOf[GetMcpHandler] = arrPeer[NextPeer + 1].id
        /\ Alike(Moved, NextPeer + 1)
    <2>1. \E use : PickedFrom(NextPeer + 1, GetMcpHandler, Moved, use)
      BY <1>2, PickFromSession DEF GetMcpHandler, Moved, NextHandler
    <2> QED BY <2>1 DEF PickedFrom
  <1>4. FindSession(PeerOf[GetMcpHandler]) = {NextPeer + 1}
    BY <1>2, <1>3 DEF FindSession, TableInv
  <1> DEFINE group == {PeerOf[h] : h \in connected}
  <1>5. /\ \A i \in 1 .. m_nSessionNum : Ids[i] \in Peers
        /\ \A i, j \in 1 .. m_nSessionNum : Ids[i] = Ids[j] => i = j
    BY DEF Ids, TableInv
  <1>6. group = {Ids[i] : i \in 1 .. m_nSessionNum}
    <2>1. ASSUME NEW h \in connected
          PROVE  \E i \in 1 .. m_nSessionNum : PeerOf[h] = Ids[i]
      BY ConnectedFacts DEF Ids
    <2>2. ASSUME NEW i \in 1 .. m_nSessionNum
          PROVE  \E h \in connected : PeerOf[h] = Ids[i]
      <3>1. 1 \in 1 .. arrPeer[i].num
        BY SessionFacts
      <3> QED BY <3>1, ListedFacts DEF Ids
    <2> QED BY <2>1, <2>2
  <1>7. Even(peerUse, Ids, m_nIndex + 1, m_nSessionNum)
    BY <1>1 DEF PeersEven, Ids
  <1>8. PeerPicked = Count(peerUse, Ids[NextPeer + 1], group)
    BY <1>2, <1>3 DEF PeerPicked, Ids
  <1> HIDE DEF group
  <1>9. /\ Count(peerUse, Ids[NextPeer + 1], group) \in [Peers -> Nat]
        /\ Even(Count(peerUse, Ids[NextPeer + 1], group), Ids, NextPeer + 1, m_nSessionNum)
    <2>1. m_nIndex + 1 \in 1 .. m_nSessionNum /\ peerUse \in [Peers -> Nat]
      BY <1>1 DEF TypeOK
    <2> QED BY <1>1, <1>2, <1>5, <1>6, <1>7, <2>1, CountEven
  <1> QED BY <1>2, <1>3, <1>4, <1>8, <1>9

(* The next state. *)

Linked(C, p) == {h \in C : PeerOf[h] = p}

LEMMA LinkedIsConnected == \A p : ConnectedTo(p) = Linked(connected, p)
  BY DEF ConnectedTo, Linked

LEMMA LinkedMore ==
  ASSUME NEW C, NEW h, NEW p
  PROVE  Linked(C \cup {h}, p) = IF PeerOf[h] = p THEN Linked(C, p) \cup {h} ELSE Linked(C, p)
  BY DEF Linked

LEMMA LinkedLess ==
  ASSUME NEW C, NEW h, NEW p
  PROVE  Linked(C \ {h}, p) = IF PeerOf[h] = p THEN Linked(C, p) \ {h} ELSE Linked(C, p)
  BY DEF Linked

LEMMA TableInvNext ==
  ASSUME m_nSessionNum' <= Len(arrPeer'),
         m_nSessionNum' > 0 => m_nIndex' < m_nSessionNum',
         \A i \in 1 .. m_nSessionNum' :
           /\ arrPeer'[i].id \in Peers /\ arrPeer'[i].index < arrPeer'[i].num
           /\ ListsOf(arrPeer'[i], Linked(connected', arrPeer'[i].id)),
         \A i \in m_nSessionNum' + 1 .. Len(arrPeer') : arrPeer'[i] = EmptySession,
         \A i, j \in 1 .. m_nSessionNum' : arrPeer'[i].id = arrPeer'[j].id => i = j,
         \A h \in connected' : \E i \in 1 .. m_nSessionNum' : arrPeer'[i].id = PeerOf[h]
  PROVE  TableInv'
  <1>1. \A h \in connected' : FindSession(PeerOf[h])' # {}
    BY DEF FindSession
  <1> QED BY <1>1 DEF TableInv, ConnectedTo, Linked

\* What an index is good for: it selects an element in use.
Listed ==
  /\ m_nSessionNum > 0 => m_nIndex + 1 \in 1 .. m_nSessionNum /\ m_nSessionNum \in Nat \ {0}
  /\ \A i \in 1 .. m_nSessionNum :
       /\ arrPeer[i].id \in Peers
       /\ arrPeer[i].num \in Nat \ {0} /\ arrPeer[i].index + 1 \in 1 .. arrPeer[i].num
       /\ \A k \in 1 .. arrPeer[i].num :
            arrPeer[i].arr[k] \in Handlers /\ PeerOf[arrPeer[i].arr[k]] = arrPeer[i].id

LEMMA ListedNow == TypeOK /\ TableInv => Listed
  <1> SUFFICES ASSUME TypeOK, TableInv
               PROVE  Listed
    OBVIOUS
  <1>1. m_nSessionNum > 0 => m_nIndex + 1 \in 1 .. m_nSessionNum /\ m_nSessionNum \in Nat \ {0}
    BY DEF TypeOK, TableInv
  <1>2. ASSUME NEW i \in 1 .. m_nSessionNum
        PROVE  /\ arrPeer[i].id \in Peers
               /\ arrPeer[i].num \in Nat \ {0} /\ arrPeer[i].index + 1 \in 1 .. arrPeer[i].num
               /\ \A k \in 1 .. arrPeer[i].num :
                    arrPeer[i].arr[k] \in Handlers /\ PeerOf[arrPeer[i].arr[k]] = arrPeer[i].id
    <2>1. /\ arrPeer[i].num \in Nat \ {0} /\ arrPeer[i].index \in Nat
          /\ arrPeer[i].index < arrPeer[i].num /\ arrPeer[i].id \in Peers
      BY SessionFacts
    <2>2. \A k \in 1 .. arrPeer[i].num :
            arrPeer[i].arr[k] \in connected /\ PeerOf[arrPeer[i].arr[k]] = arrPeer[i].id
      BY ListedFacts
    <2> QED BY <2>1, <2>2 DEF TypeOK
  <1> QED BY <1>1, <1>2 DEF Listed

LEMMA ListedNext == TypeOK' /\ TableInv' => Listed'
  BY ListedNow, PTL

\* Forgetting a peer's picks when its array changes leaves the others even.
LEMMA ForgottenHandlers ==
  ASSUME TypeOK, HandlersEven, TypeOK', TableInv', NEW p,
         handlerUse' = Forget(handlerUse, {g \in Handlers : PeerOf[g] = p}),
         \A m \in 1 .. m_nSessionNum' :
           arrPeer'[m].id = p \/ \E k \in 1 .. m_nSessionNum : arrPeer'[m] = arrPeer[k]
  PROVE  HandlersEven'
  <1>1. \A h \in Handlers : handlerUse'[h] = IF PeerOf[h] = p THEN 0 ELSE handlerUse[h]
    BY DEF Forget, TypeOK
  <1>2. ASSUME NEW m \in 1 .. m_nSessionNum'
        PROVE  Even(handlerUse', arrPeer'[m].arr, arrPeer'[m].index + 1, arrPeer'[m].num)
    <2>1. /\ arrPeer'[m].num \in Nat \ {0} /\ arrPeer'[m].index + 1 \in 1 .. arrPeer'[m].num
          /\ \A k \in 1 .. arrPeer'[m].num :
               arrPeer'[m].arr[k] \in Handlers /\ PeerOf[arrPeer'[m].arr[k]] = arrPeer'[m].id
      BY ListedNext DEF Listed
    <2>2. CASE arrPeer'[m].id = p
      <3>1. \A k \in 1 .. arrPeer'[m].num : handlerUse'[arrPeer'[m].arr[k]] = 0
        BY <1>1, <2>1, <2>2
      <3> QED BY <2>1, <3>1, EvenFresh
    <2>3. CASE arrPeer'[m].id # p
      <3>1. PICK k \in 1 .. m_nSessionNum : arrPeer'[m] = arrPeer[k]
        BY <2>3
      <3>2. \A l \in 1 .. arrPeer[k].num :
              handlerUse'[arrPeer[k].arr[l]] = handlerUse[arrPeer[k].arr[l]]
        BY <1>1, <2>1, <2>3, <3>1
      <3>3. Even(handlerUse, arrPeer[k].arr, arrPeer[k].index + 1, arrPeer[k].num)
        BY DEF HandlersEven
      <3>4. Even(handlerUse', arrPeer[k].arr, arrPeer[k].index + 1, arrPeer[k].num)
        BY <3>2, <3>3, EvenSame
      <3> QED BY <3>1, <3>4
    <2> QED BY <2>2, <2>3
  <1> QED BY <1>2 DEF HandlersEven

LEMMA ForgottenPeers ==
  ASSUME TypeOK, TypeOK', TableInv', peerUse' = Forget(peerUse, Peers)
  PROVE  PeersEven'
  <1>1. SUFFICES ASSUME m_nSessionNum' > 0
                 PROVE  Even(peerUse', [i \in 1 .. m_nSessionNum' |-> arrPeer'[i].id],
                             m_nIndex' + 1, m_nSessionNum')
    BY DEF PeersEven
  <1> DEFINE f == [i \in 1 .. m_nSessionNum' |-> arrPeer'[i].id]
  <1>2. \A i \in 1 .. m_nSessionNum' : peerUse'[f[i]] = 0
    <2>1. \A p \in Peers : peerUse'[p] = 0
      BY DEF Forget, TypeOK
    <2> QED BY <2>1, ListedNext DEF Listed
  <1>3. m_nIndex' + 1 \in 1 .. m_nSessionNum' /\ m_nSessionNum' \in Nat \ {0}
    BY <1>1, ListedNext DEF Listed
  <1> HIDE DEF f
  <1>4. Even(peerUse', f, m_nIndex' + 1, m_nSessionNum')
    BY <1>2, <1>3, EvenFresh
  <1> QED BY <1>4 DEF f

(* A connection comes. *)

LEMMA KnownPeerTable ==
  ASSUME TypeOK, TableInv, NEW h \in Handlers, h \notin connected,
         connected' = connected \cup {h}, KnownPeer(h)
  PROVE  /\ arrPeer' \in Seq(PeerSession) /\ TableInv'
         /\ \A m \in 1 .. m_nSessionNum :
              /\ arrPeer'[m].id = arrPeer[m].id
              /\ arrPeer'[m].id = PeerOf[h] \/ arrPeer'[m] = arrPeer[m]
  <1>1. PICK i \in FindSession(PeerOf[h]) :
          \E s \in AddHandler(arrPeer[i], h) : arrPeer' = [arrPeer EXCEPT ![i] = s]
    BY DEF KnownPeer
  <1>2. PICK s \in AddHandler(arrPeer[i], h) : arrPeer' = [arrPeer EXCEPT ![i] = s]
    BY <1>1
  <1>3. i \in 1 .. m_nSessionNum /\ arrPeer[i].id = PeerOf[h]
    BY DEF FindSession
  <1>4. /\ i \in 1 .. Len(arrPeer) /\ arrPeer[i] \in PeerSession
        /\ arrPeer[i].num <= Len(arrPeer[i].arr)
        /\ ListsOf(arrPeer[i], ConnectedTo(PeerOf[h]))
    BY <1>3, SessionFacts
  <1>5. s \in PeerSession /\ s.id = PeerOf[h] /\ s.index < s.num
    BY <1>3, <1>4, AddHandlerFacts
  <1>6. ListsOf(s, ConnectedTo(PeerOf[h]) \cup {h})
    BY <1>4, ConnectedToFacts, AddHandlerLists
  <1>7. /\ arrPeer' \in Seq(PeerSession) /\ Len(arrPeer') = Len(arrPeer)
        /\ \A j \in 1 .. Len(arrPeer) : arrPeer'[j] = IF j = i THEN s ELSE arrPeer[j]
    BY <1>2, <1>4, <1>5, ExceptSeq DEF TypeOK
  <1>8. m_nSessionNum' = m_nSessionNum /\ m_nIndex' = m_nIndex
    BY DEF KnownPeer
  <1>9. \A m \in 1 .. m_nSessionNum :
          m \in 1 .. Len(arrPeer) /\ arrPeer'[m] = IF m = i THEN s ELSE arrPeer[m]
    BY <1>7, SessionFacts
  <1>10. \A m \in 1 .. m_nSessionNum :
           /\ arrPeer'[m].id = arrPeer[m].id
           /\ arrPeer'[m].id = PeerOf[h] \/ arrPeer'[m] = arrPeer[m]
    BY <1>3, <1>5, <1>9
  <1>11. TableInv'
    <2>1. m_nSessionNum' <= Len(arrPeer')
      BY <1>7, <1>8 DEF TableInv
    <2>2. m_nSessionNum' > 0 => m_nIndex' < m_nSessionNum'
      BY <1>8 DEF TableInv
    <2>3. ASSUME NEW m \in 1 .. m_nSessionNum'
          PROVE  /\ arrPeer'[m].id \in Peers /\ arrPeer'[m].index < arrPeer'[m].num
                 /\ ListsOf(arrPeer'[m], Linked(connected', arrPeer'[m].id))
      <3>1. CASE m = i
        <4>1. Linked(connected', PeerOf[h]) = ConnectedTo(PeerOf[h]) \cup {h}
          BY LinkedMore, LinkedIsConnected
        <4> QED BY <1>5, <1>6, <1>8, <1>9, <3>1, <4>1, TableAssumption
      <3>2. CASE m # i
        <4>1. arrPeer'[m] = arrPeer[m] /\ arrPeer[m].id # PeerOf[h]
          BY <1>3, <1>8, <1>9, <3>2 DEF TableInv
        <4>2. Linked(connected', arrPeer[m].id) = ConnectedTo(arrPeer[m].id)
          BY <4>1 DEF Linked, ConnectedTo
        <4>3. /\ arrPeer[m].id \in Peers /\ arrPeer[m].index < arrPeer[m].num
              /\ ListsOf(arrPeer[m], ConnectedTo(arrPeer[m].id))
          BY <1>8, SessionFacts
        <4> QED BY <4>1, <4>2, <4>3
      <3> QED BY <3>1, <3>2
    <2>4. ASSUME NEW m \in m_nSessionNum' + 1 .. Len(arrPeer')
          PROVE  arrPeer'[m] = EmptySession
      <3>1. m \in m_nSessionNum + 1 .. Len(arrPeer) /\ m # i /\ m \in 1 .. Len(arrPeer)
        BY <1>3, <1>7, <1>8 DEF TypeOK
      <3> QED BY <1>7, <3>1 DEF TableInv
    <2>5. \A l, m \in 1 .. m_nSessionNum' : arrPeer'[l].id = arrPeer'[m].id => l = m
      BY <1>8, <1>10 DEF TableInv
    <2>6. ASSUME NEW g \in connected'
          PROVE  \E m \in 1 .. m_nSessionNum' : arrPeer'[m].id = PeerOf[g]
      <3>1. CASE g = h
        BY <1>3, <1>8, <1>10, <3>1
      <3>2. CASE g \in connected
        BY <1>8, <1>10, <3>2, ConnectedFacts
      <3> QED BY <3>1, <3>2
    <2> QED BY <2>1, <2>2, <2>3, <2>4, <2>5, <2>6, TableInvNext
  <1> QED BY <1>7, <1>10, <1>11

\* What AllocSession hands out is an empty element behind the ones in use.
LEMMA AllocSessionFacts ==
  ASSUME TypeOK, TableInv, NEW t \in AllocSession
  PROVE  /\ t[1] \in Seq(PeerSession) /\ m_nSessionNum + 1 <= Len(t[1])
         /\ \A i \in 1 .. m_nSessionNum : t[1][i] = arrPeer[i]
         /\ \A i \in m_nSessionNum + 1 .. Len(t[1]) : t[1][i] = EmptySession
         /\ t[2] \in 0 .. m_nSessionNum /\ t[3] = m_nSessionNum + 1
  <1> DEFINE arr == IF m_nSessionNum = Len(arrPeer) THEN Grown(arrPeer, EmptySession)
                    ELSE arrPeer
  <1>1. t[1] = arr /\ t[2] \in 0 .. m_nSessionNum /\ t[3] = m_nSessionNum + 1
    BY DEF AllocSession
  <1>2. /\ arrPeer \in Seq(PeerSession) /\ m_nSessionNum \in Nat
        /\ m_nSessionNum <= Len(arrPeer) /\ Len(arrPeer) \in Nat
        /\ Growth \in Nat \ {0}
    BY TableAssumption, LenProperties DEF TypeOK, TableInv
  <1>3. EmptySession \in PeerSession
    <2>1. <<>> \in Seq(Handlers \cup {NULL})
      BY EmptySeq
    <2> QED BY <2>1 DEF EmptySession, PeerSession
  <1>4. /\ arr \in Seq(PeerSession) /\ m_nSessionNum + 1 <= Len(arr)
        /\ \A i \in 1 .. m_nSessionNum : arr[i] = arrPeer[i]
        /\ \A i \in m_nSessionNum + 1 .. Len(arr) : arr[i] = EmptySession
    <2>1. CASE m_nSessionNum = Len(arrPeer)
      <3>1. /\ Grown(arrPeer, EmptySession) \in Seq(PeerSession)
            /\ Len(Grown(arrPeer, EmptySession)) = Len(arrPeer) + Growth
        BY <1>2, <1>3, GrownFacts
      <3>2. /\ \A i \in 1 .. Len(arrPeer) : Grown(arrPeer, EmptySession)[i] = arrPeer[i]
            /\ \A i \in Len(arrPeer) + 1 .. Len(arrPeer) + Growth :
                 Grown(arrPeer, EmptySession)[i] = EmptySession
        <4> HIDE DEF EmptySession, arr, PeerSession
        <4>1. ASSUME NEW S, NEW a \in Seq(S), NEW e \in S
              PROVE  /\ \A i \in 1 .. Len(a) : Grown(a, e)[i] = a[i]
                     /\ \A i \in Len(a) + 1 .. Len(a) + Growth : Grown(a, e)[i] = e
          BY GrownFacts
        <4> QED BY <1>2, <1>3, <4>1
      <3>3. arr = Grown(arrPeer, EmptySession)
        BY <2>1
      <3> HIDE DEF arr
      <3> QED BY <1>2, <2>1, <3>1, <3>2, <3>3
    <2>2. CASE m_nSessionNum # Len(arrPeer)
      BY <1>2, <2>2 DEF TableInv
    <2> QED BY <2>1, <2>2
  <1> QED BY <1>1, <1>4

LEMMA NewPeerTable ==
  ASSUME TypeOK, TableInv, NEW h \in Handlers, h \notin connected,
         connected' = connected \cup {h}, NewPeer(h)
  PROVE  /\ arrPeer' \in Seq(PeerSession) /\ m_nIndex' \in Nat /\ TableInv'
         /\ \A m \in 1 .. m_nSessionNum' :
              arrPeer'[m].id = PeerOf[h] \/ \E k \in 1 .. m_nSessionNum : arrPeer'[m] = arrPeer[k]
  <1> DEFINE n == m_nSessionNum + 1
             p == PeerOf[h]
  <1>1. PICK t \in AllocSession :
          \E s \in AddHandler([t[1][t[3]] EXCEPT !.id = p], h) :
            arrPeer' = [t[1] EXCEPT ![t[3]] = s] /\ m_nIndex' = t[2]
    BY DEF NewPeer
  <1>2. PICK s \in AddHandler([t[1][t[3]] EXCEPT !.id = p], h) :
          arrPeer' = [t[1] EXCEPT ![t[3]] = s] /\ m_nIndex' = t[2]
    BY <1>1
  <1>3. FindSession(p) = {} /\ m_nSessionNum' = n /\ m_nSessionNum \in Nat
    BY DEF NewPeer, TypeOK
  <1> DEFINE arr == t[1]
             e == [id |-> p, arr |-> <<>>, num |-> 0, index |-> 0]
  <1>4. /\ arr \in Seq(PeerSession) /\ n <= Len(arr)
        /\ \A i \in 1 .. m_nSessionNum : arr[i] = arrPeer[i]
        /\ \A i \in n .. Len(arr) : arr[i] = EmptySession
        /\ t[2] \in 0 .. m_nSessionNum /\ t[3] = n
    BY AllocSessionFacts
  <1>5. n \in 1 .. Len(arr) /\ Len(arr) \in Nat
    BY <1>3, <1>4, LenProperties
  <1>6. [t[1][t[3]] EXCEPT !.id = p] = e
    <2>1. t[1][t[3]] = EmptySession
      BY <1>4, <1>5
    <2> QED BY <2>1 DEF EmptySession
  <1>7. e \in PeerSession /\ ListsOf(e, {}) /\ e.num = 0 /\ Len(e.arr) = 0
    <2>1. <<>> \in Seq(Handlers \cup {NULL}) /\ Len(<<>>) = 0 /\ p \in Peers
      BY EmptySeq, TableAssumption
    <2>2. IsFiniteSet({}) /\ Cardinality({}) = 0
      BY FS_EmptySet
    <2> QED BY <2>1, <2>2 DEF PeerSession, ListsOf, Range1
  <1>8. s \in AddHandler(e, h)
    BY <1>6
  <1>9. s \in PeerSession /\ s.id = p /\ s.index < s.num /\ ListsOf(s, {h})
    <2>1. e.id = p
      OBVIOUS
    <2> HIDE DEF e
    <2>2. s \in PeerSession /\ s.id = p /\ s.index < s.num
      BY <1>7, <1>8, <2>1, AddHandlerFacts
    <2>3. ListsOf(s, {} \cup {h})
      <3>1. h \notin {}
        OBVIOUS
      <3> QED BY <1>7, <1>8, <3>1, AddHandlerLists
    <2> QED BY <2>2, <2>3
  <1> HIDE DEF e
  <1>10. /\ arrPeer' \in Seq(PeerSession) /\ Len(arrPeer') = Len(arr)
         /\ \A j \in 1 .. Len(arr) : arrPeer'[j] = IF j = n THEN s ELSE arr[j]
    <2>1. arrPeer' = [arr EXCEPT ![n] = s]
      BY <1>2, <1>4
    <2> HIDE DEF arr, n
    <2> QED BY <1>4, <1>5, <1>9, <2>1, ExceptSeq
  <1> HIDE DEF arr
  <1>11. \A m \in 1 .. m_nSessionNum : arrPeer'[m] = arrPeer[m]
    <2> TAKE m \in 1 .. m_nSessionNum
    <2>1. m \in 1 .. Len(arr) /\ m # n
      BY <1>3, <1>5
    <2> QED BY <1>4, <1>10, <2>1
  <1>12. arrPeer'[n] = s
    BY <1>5, <1>10
  <1>13. \A m \in 1 .. n : m = n \/ m \in 1 .. m_nSessionNum
    BY <1>3
  <1>14. \A m \in 1 .. m_nSessionNum : arrPeer[m].id # p
    BY <1>3 DEF FindSession
  <1>15. m_nIndex' \in Nat /\ m_nIndex' < n
    BY <1>2, <1>3, <1>4
  <1>16. TableInv'
    <2>1. m_nSessionNum' <= Len(arrPeer') /\ m_nIndex' < m_nSessionNum'
      BY <1>3, <1>4, <1>10, <1>15
    <2>2. ASSUME NEW m \in 1 .. m_nSessionNum'
          PROVE  /\ arrPeer'[m].id \in Peers /\ arrPeer'[m].index < arrPeer'[m].num
                 /\ ListsOf(arrPeer'[m], Linked(connected', arrPeer'[m].id))
      <3>1. CASE m = n
        <4>1. Linked(connected, p) = {}
          BY <1>14, ConnectedFacts DEF Linked
        <4>2. Linked(connected', p) = {h}
          BY <4>1, LinkedMore
        <4> QED BY <1>9, <1>12, <3>1, <4>2, TableAssumption
      <3>2. CASE m \in 1 .. m_nSessionNum
        <4>1. Linked(connected', arrPeer[m].id) = ConnectedTo(arrPeer[m].id)
          BY <1>14, <3>2, LinkedMore, LinkedIsConnected
        <4>2. /\ arrPeer[m].id \in Peers /\ arrPeer[m].index < arrPeer[m].num
              /\ ListsOf(arrPeer[m], ConnectedTo(arrPeer[m].id))
          BY <3>2, SessionFacts
        <4> QED BY <1>11, <3>2, <4>1, <4>2
      <3> QED BY <1>3, <1>13, <3>1, <3>2
    <2>3. ASSUME NEW m \in m_nSessionNum' + 1 .. Len(arrPeer')
          PROVE  arrPeer'[m] = EmptySession
      <3>1. m \in n .. Len(arr) /\ m # n /\ m \in 1 .. Len(arr)
        BY <1>3, <1>5, <1>10
      <3> QED BY <1>4, <1>10, <3>1
    <2>4. ASSUME NEW l \in 1 .. m_nSessionNum', NEW m \in 1 .. m_nSessionNum',
                 arrPeer'[l].id = arrPeer'[m].id
          PROVE  l = m
      <3>1. CASE l \in 1 .. m_nSessionNum /\ m \in 1 .. m_nSessionNum
        BY <1>11, <2>4, <3>1 DEF TableInv
      <3>2. CASE l = n \/ m = n
        BY <1>3, <1>9, <1>11, <1>12, <1>13, <1>14, <2>4, <3>2
      <3> QED BY <1>3, <1>13, <3>1, <3>2
    <2>5. ASSUME NEW g \in connected'
          PROVE  \E m \in 1 .. m_nSessionNum' : arrPeer'[m].id = PeerOf[g]
      <3>1. CASE g = h
        <4>1. n \in 1 .. m_nSessionNum'
          BY <1>3
        <4> QED BY <1>9, <1>12, <3>1, <4>1
      <3>2. CASE g \in connected
        <4>1. PICK m \in 1 .. m_nSessionNum : arrPeer[m].id = PeerOf[g]
          BY <3>2, ConnectedFacts
        <4>2. m \in 1 .. m_nSessionNum'
          BY <1>3
        <4> QED BY <1>11, <4>1, <4>2
      <3> QED BY <3>1, <3>2
    <2> QED BY <2>1, <2>2, <2>3, <2>4, <2>5, TableInvNext
  <1> QED BY <1>3, <1>9, <1>10, <1>11, <1>12, <1>13, <1>15, <1>16

(* A connection goes: h, of the peer at position i. *)

Leaving(h, i, arr, index, use) ==
  /\ h \in connected /\ i \in 1 .. m_nSessionNum /\ arrPeer[i].id = PeerOf[h]
  /\ Alike(arr, i)
  /\ index \in Nat /\ index < m_nSessionNum
  /\ use \in [Peers -> Nat] /\ Even(use, Ids, index + 1, m_nSessionNum)

\* The session without the handler.
LEMMA LeavingSession ==
  ASSUME TypeOK, TableInv, NEW h, NEW i, NEW arr, NEW index, NEW use,
         Leaving(h, i, arr, index, use), NEW s \in RemoveHandler(arr[i], h)
  PROVE  /\ s \in PeerSession /\ s.id = PeerOf[h]
         /\ s.num > 0 => s.index < s.num
         /\ ListsOf(s, Linked(connected \ {h}, PeerOf[h]))
  <1>1. i \in 1 .. m_nSessionNum /\ arrPeer[i].id = PeerOf[h] /\ Alike(arr, i) /\ h \in connected
    BY DEF Leaving
  <1>2. /\ i \in 1 .. Len(arr) /\ arr[i] \in PeerSession /\ arr[i].id = PeerOf[h]
        /\ ListsOf(arr[i], ConnectedTo(PeerOf[h]))
    BY <1>1, AlikeSame
  <1>3. h \in ConnectedTo(PeerOf[h])
    BY <1>1, ConnectedToFacts
  <1>4. Without(s, arr[i], ConnectedTo(PeerOf[h]), h)
    BY <1>2, <1>3, RemoveHandlerFacts
  <1>7. Linked(connected \ {h}, PeerOf[h]) = ConnectedTo(PeerOf[h]) \ {h}
    BY DEF Linked, ConnectedTo
  <1> QED BY <1>2, <1>4, <1>7 DEF Without

\* a is the array of peers with s at position i.
With(a, i, s) ==
  /\ a \in Seq(PeerSession) /\ Len(a) = Len(arrPeer) /\ a[i] = s
  /\ \A k \in 1 .. Len(arrPeer) : k # i => a[k] = arrPeer[k]

\* Where it stands.
LEMMA LeavingArray ==
  ASSUME TypeOK, TableInv, NEW h, NEW i, NEW arr, NEW index, NEW use,
         Leaving(h, i, arr, index, use), NEW s \in PeerSession
  PROVE  With([arr EXCEPT ![i] = s], i, s)
  <1>1. i \in 1 .. m_nSessionNum /\ Alike(arr, i)
    BY DEF Leaving
  <1>2. i \in 1 .. Len(arr)
    BY <1>1, AlikeSame
  <1>3. /\ [arr EXCEPT ![i] = s] \in Seq(PeerSession)
        /\ Len([arr EXCEPT ![i] = s]) = Len(arr)
        /\ \A k \in 1 .. Len(arr) : [arr EXCEPT ![i] = s][k] = IF k = i THEN s ELSE arr[k]
    BY <1>1, <1>2, ExceptSeq DEF Alike
  <1> QED BY <1>1, <1>2, <1>3 DEF Alike, With

\* The other peers keep their connections.
LEMMA OthersStay ==
  ASSUME TypeOK, TableInv, NEW h, NEW i \in 1 .. m_nSessionNum, arrPeer[i].id = PeerOf[h],
         NEW m \in 1 .. m_nSessionNum, m # i
  PROVE  /\ arrPeer[m].id # PeerOf[h]
         /\ arrPeer[m].id \in Peers /\ arrPeer[m].index < arrPeer[m].num
         /\ ListsOf(arrPeer[m], Linked(connected \ {h}, arrPeer[m].id))
  <1>1. arrPeer[m].id # PeerOf[h]
    BY DEF TableInv
  <1>2. Linked(connected \ {h}, arrPeer[m].id) = ConnectedTo(arrPeer[m].id)
    BY <1>1 DEF Linked, ConnectedTo
  <1> QED BY <1>1, <1>2, SessionFacts

\* The peer has other connections.
LEMMA RemoveTable ==
  ASSUME TypeOK, TableInv, NEW h, NEW i, NEW arr, NEW index, NEW use,
         Leaving(h, i, arr, index, use), connected' = connected \ {h},
         NEW s \in RemoveHandler(arr[i], h), s.num # 0,
         arrPeer' = [arr EXCEPT ![i] = s], m_nIndex' = index,
         UNCHANGED m_nSessionNum
  PROVE  /\ arrPeer' \in Seq(PeerSession) /\ TableInv'
         /\ \A m \in 1 .. m_nSessionNum :
              /\ arrPeer'[m].id = arrPeer[m].id
              /\ arrPeer'[m].id = PeerOf[h] \/ arrPeer'[m] = arrPeer[m]
  <1>1. /\ s \in PeerSession /\ s.id = PeerOf[h]
        /\ s.num > 0 => s.index < s.num
        /\ ListsOf(s, Linked(connected', PeerOf[h]))
    BY LeavingSession
  <1>2. /\ arrPeer' \in Seq(PeerSession) /\ Len(arrPeer') = Len(arrPeer) /\ arrPeer'[i] = s
        /\ \A k \in 1 .. Len(arrPeer) : k # i => arrPeer'[k] = arrPeer[k]
    <2>1. With(arrPeer', i, s)
      BY <1>1, LeavingArray
    <2> QED BY <2>1 DEF With
  <1>3. /\ i \in 1 .. m_nSessionNum /\ arrPeer[i].id = PeerOf[h] /\ h \in connected
        /\ index \in Nat /\ index < m_nSessionNum /\ PeerOf[h] \in Peers
    BY ConnectedFacts DEF Leaving
  <1>4. s.num > 0
    BY <1>1 DEF PeerSession
  <1>5. \A m \in 1 .. m_nSessionNum : m # i => arrPeer'[m] = arrPeer[m]
    BY <1>2, SessionFacts
  <1>6. \A m \in 1 .. m_nSessionNum :
          /\ arrPeer'[m].id = arrPeer[m].id
          /\ arrPeer'[m].id = PeerOf[h] \/ arrPeer'[m] = arrPeer[m]
    BY <1>1, <1>2, <1>3, <1>5
  <1>7. TableInv'
    <2>1. /\ m_nSessionNum' <= Len(arrPeer')
          /\ m_nSessionNum' > 0 => m_nIndex' < m_nSessionNum'
      BY <1>2, <1>3 DEF TableInv
    <2>2. ASSUME NEW m \in 1 .. m_nSessionNum'
          PROVE  /\ arrPeer'[m].id \in Peers /\ arrPeer'[m].index < arrPeer'[m].num
                 /\ ListsOf(arrPeer'[m], Linked(connected', arrPeer'[m].id))
      <3>1. CASE m = i
        BY <1>1, <1>2, <1>3, <1>4, <3>1
      <3>2. CASE m # i
        BY <1>3, <1>5, <3>2, OthersStay
      <3> QED BY <3>1, <3>2
    <2>3. ASSUME NEW m \in m_nSessionNum' + 1 .. Len(arrPeer')
          PROVE  arrPeer'[m] = EmptySession
      <3>1. m \in m_nSessionNum + 1 .. Len(arrPeer) /\ m # i /\ m \in 1 .. Len(arrPeer)
        BY <1>2, <1>3 DEF TypeOK
      <3> QED BY <1>2, <3>1 DEF TableInv
    <2>4. \A l, m \in 1 .. m_nSessionNum' : arrPeer'[l].id = arrPeer'[m].id => l = m
      BY <1>6 DEF TableInv
    <2>5. \A g \in connected' : \E m \in 1 .. m_nSessionNum' : arrPeer'[m].id = PeerOf[g]
      BY <1>6, ConnectedFacts
    <2> QED BY <2>1, <2>2, <2>3, <2>4, <2>5, TableInvNext
  <1> QED BY <1>2, <1>6, <1>7

\* It was the peer's last connection: the last peer takes the peer's place.
LEMMA FreeTable ==
  ASSUME TypeOK, TableInv, NEW h, NEW i, NEW arr, NEW index, NEW use,
         Leaving(h, i, arr, index, use), connected' = connected \ {h},
         NEW s \in RemoveHandler(arr[i], h), s.num = 0,
         arrPeer' = Freed([arr EXCEPT ![i] = s], i),
         NEW k \in IF m_nSessionNum > 1 THEN 0 .. m_nSessionNum - 2 ELSE {index},
         m_nIndex' = k,
         m_nSessionNum' = m_nSessionNum - 1
  PROVE  /\ arrPeer' \in Seq(PeerSession) /\ m_nIndex' \in Nat /\ m_nSessionNum' \in Nat
         /\ TableInv'
         /\ \A m \in 1 .. m_nSessionNum' :
              \E l \in 1 .. m_nSessionNum : arrPeer'[m] = arrPeer[l]
  <1> DEFINE without == [arr EXCEPT ![i] = s]
             n == m_nSessionNum
             half == [without EXCEPT ![i] = without[n]]
  <1>1. s \in PeerSession /\ ListsOf(s, Linked(connected', PeerOf[h]))
    BY LeavingSession
  <1>2. /\ without \in Seq(PeerSession) /\ Len(without) = Len(arrPeer)
        /\ without[i] = s
        /\ \A j \in 1 .. Len(arrPeer) : j # i => without[j] = arrPeer[j]
    <2>1. With(without, i, s)
      BY <1>1, LeavingArray
    <2> HIDE DEF without
    <2> QED BY <2>1 DEF With
  <1>3. /\ i \in 1 .. n /\ arrPeer[i].id = PeerOf[h] /\ h \in connected
        /\ index \in Nat /\ index < n /\ PeerOf[h] \in Peers
    BY ConnectedFacts DEF Leaving
  <1>4. /\ n \in Nat /\ n <= Len(arrPeer) /\ Len(arrPeer) \in Nat
        /\ n \in 1 .. Len(arrPeer) /\ i \in 1 .. Len(arrPeer)
    BY <1>3, LenProperties DEF TypeOK, TableInv
  <1>5. arrPeer' = [half EXCEPT ![n] = EmptySession]
    BY DEF Freed
  <1> HIDE DEF without
  <1>6. /\ half \in Seq(PeerSession) /\ Len(half) = Len(arrPeer)
        /\ \A j \in 1 .. Len(arrPeer) : half[j] = IF j = i THEN without[n] ELSE without[j]
    <2>1. without[n] \in PeerSession
      BY <1>2, <1>4, ElementOfSeq
    <2> QED BY <1>2, <1>4, <2>1, ExceptSeq
  <1> HIDE DEF half
  <1>7. /\ arrPeer' \in Seq(PeerSession) /\ Len(arrPeer') = Len(arrPeer)
        /\ \A j \in 1 .. Len(arrPeer) : arrPeer'[j] = IF j = n THEN EmptySession ELSE half[j]
    <2>1. EmptySession \in PeerSession
      <3>1. <<>> \in Seq(Handlers \cup {NULL})
        BY EmptySeq
      <3> QED BY <3>1 DEF EmptySession, PeerSession
    <2> HIDE DEF EmptySession, n
    <2>2. n \in 1 .. Len(half)
      BY <1>4, <1>6
    <2>3. PICK e \in PeerSession : e = EmptySession
      BY <2>1
    <2>4. arrPeer' = [half EXCEPT ![n] = e]
      BY <1>5, <2>3
    <2>5. /\ [half EXCEPT ![n] = e] \in Seq(PeerSession)
          /\ Len([half EXCEPT ![n] = e]) = Len(half)
          /\ \A j \in 1 .. Len(half) : [half EXCEPT ![n] = e][j] = IF j = n THEN e ELSE half[j]
      BY <1>6, <2>2, ExceptSeq
    <2> QED BY <1>6, <2>3, <2>4, <2>5
  <1> DEFINE src(m) == IF m = i THEN n ELSE m
  <1>8. ASSUME NEW m \in 1 .. n - 1
        PROVE  src(m) \in 1 .. n /\ src(m) # i /\ arrPeer'[m] = arrPeer[src(m)]
    <2>1. m \in 1 .. Len(arrPeer) /\ m # n /\ src(m) \in 1 .. Len(arrPeer)
      BY <1>4
    <2>2. src(m) \in 1 .. n /\ src(m) # i
      BY <1>3, <1>4
    <2>3. arrPeer'[m] = without[src(m)]
      BY <1>6, <1>7, <2>1
    <2> QED BY <1>2, <2>1, <2>2, <2>3
  <1>9. m_nSessionNum' = n - 1 /\ n - 1 \in Nat
    BY <1>3, <1>4
  <1>10. m_nIndex' \in Nat /\ (n - 1 > 0 => m_nIndex' < n - 1)
    BY <1>3, <1>4
  <1>11. TableInv'
    <2>1. /\ m_nSessionNum' <= Len(arrPeer')
          /\ m_nSessionNum' > 0 => m_nIndex' < m_nSessionNum'
      BY <1>4, <1>7, <1>9, <1>10
    <2>2. ASSUME NEW m \in 1 .. m_nSessionNum'
          PROVE  /\ arrPeer'[m].id \in Peers /\ arrPeer'[m].index < arrPeer'[m].num
                 /\ ListsOf(arrPeer'[m], Linked(connected', arrPeer'[m].id))
      <3>1. src(m) \in 1 .. n /\ src(m) # i /\ arrPeer'[m] = arrPeer[src(m)]
        BY <1>8, <1>9
      <3> HIDE DEF src
      <3> QED BY <1>3, <3>1, OthersStay
    <2>3. ASSUME NEW m \in m_nSessionNum' + 1 .. Len(arrPeer')
          PROVE  arrPeer'[m] = EmptySession
      <3>1. m \in 1 .. Len(arrPeer) /\ (m = n \/ m \in n + 1 .. Len(arrPeer))
        BY <1>4, <1>7, <1>9
      <3>2. CASE m = n
        BY <1>7, <3>1, <3>2
      <3>3. CASE m \in n + 1 .. Len(arrPeer)
        <4>1. m # n /\ m # i
          BY <1>3, <1>4, <3>3
        <4>2. arrPeer'[m] = arrPeer[m]
          BY <1>2, <1>6, <1>7, <3>1, <4>1
        <4>3. arrPeer[m] = EmptySession
          BY <3>3 DEF TableInv
        <4> QED BY <4>2, <4>3
      <3> QED BY <3>1, <3>2, <3>3
    <2>4. ASSUME NEW l \in 1 .. m_nSessionNum', NEW m \in 1 .. m_nSessionNum',
                 arrPeer'[l].id = arrPeer'[m].id
          PROVE  l = m
      <3>1. src(l) = src(m)
        BY <1>8, <1>9, <2>4, ZenonT(40) DEF TableInv
      <3> QED BY <1>9, <3>1
    <2>5. ASSUME NEW g \in connected'
          PROVE  \E m \in 1 .. m_nSessionNum' : arrPeer'[m].id = PeerOf[g]
      <3>1. PICK j \in 1 .. n : arrPeer[j].id = PeerOf[g]
        BY ConnectedFacts
      <3>2. j # i
        <4>1. CASE PeerOf[g] # PeerOf[h]
          BY <1>3, <3>1, <4>1
        <4>2. CASE PeerOf[g] = PeerOf[h]
          <5>1. g \in Linked(connected', PeerOf[h])
            BY <4>2 DEF Linked
          <5>2. Linked(connected', PeerOf[h]) = {}
            <6>1. 1 .. 0 = {}
              OBVIOUS
            <6>2. Linked(connected', PeerOf[h]) = {s.arr[l] : l \in 1 .. 0}
              BY <1>1 DEF ListsOf, Range1
            <6> QED BY <6>1, <6>2
          <5> QED BY <5>1, <5>2
        <4> QED BY <4>1, <4>2
      <3>3. PICK m \in 1 .. n - 1 : m = IF j = n THEN i ELSE j
        BY <1>3, <1>4, <3>2
      <3>4. src(m) = j
        BY <3>2, <3>3
      <3> QED BY <1>8, <1>9, <3>1, <3>4
    <2> QED BY <2>1, <2>2, <2>3, <2>4, <2>5, TableInvNext
  <1> QED BY <1>7, <1>8, <1>9, <1>10, <1>11

(* The invariant. *)

LEMMA ForgetType ==
  ASSUME NEW D, NEW use \in [D -> Nat], NEW group
  PROVE  Forget(use, group) \in [D -> Nat]
  BY DEF Forget

LEMMA SamePeers ==
  ASSUME NEW use, NEW index, Even(use, Ids, index + 1, m_nSessionNum),
         peerUse' = use, m_nIndex' = index, UNCHANGED m_nSessionNum,
         \A m \in 1 .. m_nSessionNum : arrPeer'[m].id = arrPeer[m].id
  PROVE  PeersEven'
  <1> DEFINE f == [i \in 1 .. m_nSessionNum' |-> arrPeer'[i].id]
  <1>1. \A i \in 1 .. m_nSessionNum : peerUse'[f[i]] = use[Ids[i]]
    BY DEF Ids
  <1> HIDE DEF f
  <1>2. Even(peerUse', f, index + 1, m_nSessionNum)
    BY <1>1, EvenSame
  <1> QED BY <1>2 DEF PeersEven, f

LEMMA ConnectKeeps ==
  ASSUME IInv, NEW h \in Handlers, OnConnectedNodify(h)
  PROVE  IInv'
  <1>1. TypeOK /\ TableInv /\ PeersEven /\ HandlersEven /\ TakenRun
    BY DEF IInv
  <1>2. /\ ~sending /\ h \notin connected /\ connected' = connected \cup {h}
        /\ NewPeer(h) \/ KnownPeer(h)
        /\ handlerUse' = Forget(handlerUse, {g \in Handlers : PeerOf[g] = PeerOf[h]})
        /\ sending' = sending /\ taken' = taken
    BY DEF OnConnectedNodify
  <1>3. /\ handlerUse' \in [Handlers -> Nat] /\ connected' \in SUBSET Handlers
        /\ sending' \in BOOLEAN /\ taken' \in Seq(Handlers)
    BY <1>1, <1>2, ForgetType DEF TypeOK
  <1>4. TakenRun'
    BY <1>1, <1>2 DEF TakenRun
  <1>5. CASE KnownPeer(h)
    <2>1. /\ arrPeer' \in Seq(PeerSession) /\ TableInv'
          /\ \A m \in 1 .. m_nSessionNum :
               /\ arrPeer'[m].id = arrPeer[m].id
               /\ arrPeer'[m].id = PeerOf[h] \/ arrPeer'[m] = arrPeer[m]
      BY <1>1, <1>2, <1>5, KnownPeerTable
    <2>2. m_nSessionNum' = m_nSessionNum /\ m_nIndex' = m_nIndex /\ peerUse' = peerUse
      BY <1>5 DEF KnownPeer
    <2>3. TypeOK'
      BY <1>1, <1>3, <2>1, <2>2 DEF TypeOK
    <2>4. HandlersEven'
      <3>1. \A m \in 1 .. m_nSessionNum' :
              \/ arrPeer'[m].id = PeerOf[h]
              \/ \E k \in 1 .. m_nSessionNum : arrPeer'[m] = arrPeer[k]
        BY <2>1, <2>2
      <3> QED BY <1>1, <1>2, <2>1, <2>3, <3>1, ForgottenHandlers
    <2>5. PeersEven'
      <3>1. CASE m_nSessionNum > 0
        <4>1. Even(peerUse, Ids, m_nIndex + 1, m_nSessionNum)
          BY <1>1, <3>1 DEF PeersEven, Ids
        <4> QED BY <2>1, <2>2, <4>1, SamePeers
      <3>2. CASE ~(m_nSessionNum > 0)
        BY <2>2, <3>2 DEF PeersEven
      <3> QED BY <3>1, <3>2
    <2> QED BY <1>4, <2>1, <2>3, <2>4, <2>5 DEF IInv
  <1>6. CASE NewPeer(h)
    <2>1. /\ arrPeer' \in Seq(PeerSession) /\ m_nIndex' \in Nat /\ TableInv'
          /\ \A m \in 1 .. m_nSessionNum' :
               \/ arrPeer'[m].id = PeerOf[h]
               \/ \E k \in 1 .. m_nSessionNum : arrPeer'[m] = arrPeer[k]
      BY <1>1, <1>2, <1>6, NewPeerTable
    <2>2. m_nSessionNum' = m_nSessionNum + 1 /\ peerUse' = Forget(peerUse, Peers)
      BY <1>6 DEF NewPeer
    <2>3. TypeOK'
      <3>1. peerUse' \in [Peers -> Nat] /\ m_nSessionNum' \in Nat
        BY <1>1, <2>2, ForgetType, SMTT(30) DEF TypeOK
      <3> QED BY <1>3, <2>1, <3>1 DEF TypeOK
    <2>4. HandlersEven'
      BY <1>1, <1>2, <2>1, <2>3, ForgottenHandlers
    <2>5. PeersEven'
      BY <1>1, <2>1, <2>2, <2>3, ForgottenPeers
    <2> QED BY <1>4, <2>1, <2>3, <2>4, <2>5 DEF IInv
  <1> QED BY <1>2, <1>5, <1>6

LEMMA LosingKeeps ==
  ASSUME TypeOK, TableInv, HandlersEven, NEW h, NEW i, NEW arr, NEW index, NEW use,
         Leaving(h, i, arr, index, use), LoseConnection(h, arr, index, use),
         sending' \in BOOLEAN, taken' \in Seq(Handlers)
  PROVE  TypeOK' /\ TableInv' /\ PeersEven' /\ HandlersEven'
  <1>1. /\ connected' = connected \ {h} /\ Remove(h, arr, index, use)
        /\ handlerUse' = Forget(handlerUse, {g \in Handlers : PeerOf[g] = PeerOf[h]})
    BY DEF LoseConnection
  <1>2. /\ i \in 1 .. m_nSessionNum /\ h \in connected /\ FindSession(PeerOf[h]) = {i}
        /\ index \in Nat /\ use \in [Peers -> Nat]
        /\ Even(use, Ids, index + 1, m_nSessionNum)
    BY DEF Leaving, FindSession, TableInv
  <1>3. PICK s \in RemoveHandler(arr[i], h) :
          IF s.num = 0
          THEN /\ \E t \in FreeSession([arr EXCEPT ![i] = s], i, index) :
                    arrPeer' = t[1] /\ m_nIndex' = t[2]
               /\ m_nSessionNum' = m_nSessionNum - 1
               /\ peerUse' = Forget(peerUse, Peers)
          ELSE /\ arrPeer' = [arr EXCEPT ![i] = s]
               /\ m_nIndex' = index
               /\ peerUse' = use
               /\ UNCHANGED m_nSessionNum
    BY <1>1, <1>2, Zenon DEF Remove
  <1>4. /\ handlerUse' \in [Handlers -> Nat] /\ connected' \in SUBSET Handlers
    BY <1>1, ForgetType DEF TypeOK
  <1>5. CASE s.num = 0
    <2>1. /\ m_nSessionNum' = m_nSessionNum - 1
          /\ peerUse' = Forget(peerUse, Peers)
          /\ \E t \in FreeSession([arr EXCEPT ![i] = s], i, index) :
               arrPeer' = t[1] /\ m_nIndex' = t[2]
      BY <1>3, <1>5, Zenon
    <2>2. PICK k \in IF m_nSessionNum > 1 THEN 0 .. m_nSessionNum - 2 ELSE {index} :
            arrPeer' = Freed([arr EXCEPT ![i] = s], i) /\ m_nIndex' = k
      <3> DEFINE K == IF m_nSessionNum > 1 THEN 0 .. m_nSessionNum - 2 ELSE {index}
                 a == Freed([arr EXCEPT ![i] = s], i)
      <3>1. FreeSession([arr EXCEPT ![i] = s], i, index) = {<<a, k>> : k \in K}
        BY DEF FreeSession
      <3> HIDE DEF K, a
      <3>3. PICK t \in {<<a, k>> : k \in K} : arrPeer' = t[1] /\ m_nIndex' = t[2]
        BY <2>1, <3>1
      <3>2. \E k \in K : arrPeer' = a /\ m_nIndex' = k
        BY <3>3
      <3> QED BY <3>2 DEF K, a
    <2>3. /\ arrPeer' \in Seq(PeerSession) /\ m_nIndex' \in Nat /\ m_nSessionNum' \in Nat
          /\ TableInv'
          /\ \A m \in 1 .. m_nSessionNum' :
               \E l \in 1 .. m_nSessionNum : arrPeer'[m] = arrPeer[l]
      BY <1>1, <1>5, <2>1, <2>2, FreeTable
    <2>4. TypeOK'
      <3>1. peerUse' \in [Peers -> Nat]
        BY <2>1, ForgetType DEF TypeOK
      <3> QED BY <1>4, <2>3, <3>1 DEF TypeOK
    <2>5. HandlersEven'
      BY <1>1, <2>3, <2>4, ForgottenHandlers
    <2>6. PeersEven'
      BY <2>1, <2>3, <2>4, ForgottenPeers
    <2> QED BY <2>3, <2>4, <2>5, <2>6
  <1>6. CASE s.num # 0
    <2>1. /\ arrPeer' = [arr EXCEPT ![i] = s] /\ m_nIndex' = index
          /\ peerUse' = use /\ m_nSessionNum' = m_nSessionNum
      BY <1>3, <1>6, Zenon
    <2>2. /\ arrPeer' \in Seq(PeerSession) /\ TableInv'
          /\ \A m \in 1 .. m_nSessionNum :
               /\ arrPeer'[m].id = arrPeer[m].id
               /\ arrPeer'[m].id = PeerOf[h] \/ arrPeer'[m] = arrPeer[m]
      BY <1>1, <1>6, <2>1, RemoveTable
    <2>3. TypeOK'
      BY <1>2, <1>4, <2>1, <2>2 DEF TypeOK
    <2>4. HandlersEven'
      <3>1. \A m \in 1 .. m_nSessionNum' :
              \/ arrPeer'[m].id = PeerOf[h]
              \/ \E k \in 1 .. m_nSessionNum : arrPeer'[m] = arrPeer[k]
        BY <2>1, <2>2
      <3> QED BY <1>1, <2>2, <2>3, <3>1, ForgottenHandlers
    <2>5. PeersEven'
      BY <1>2, <2>1, <2>2, SamePeers
    <2> QED BY <2>2, <2>3, <2>4, <2>5
  <1> QED BY <1>5, <1>6

LEMMA NetworkErrorKeeps ==
  ASSUME IInv, NEW h \in Handlers, OnNetworkError(h)
  PROVE  IInv'
  <1>1. /\ TypeOK /\ TableInv /\ PeersEven /\ HandlersEven /\ TakenRun
        /\ ~sending /\ h \in connected /\ LoseConnection(h, arrPeer, m_nIndex, peerUse)
        /\ sending' = sending /\ taken' = taken
    BY DEF IInv, OnNetworkError
  <1>2. PICK i \in 1 .. m_nSessionNum : arrPeer[i].id = PeerOf[h]
    BY <1>1, ConnectedFacts
  <1>3. /\ m_nIndex \in Nat /\ m_nIndex < m_nSessionNum /\ peerUse \in [Peers -> Nat]
        /\ Even(peerUse, Ids, m_nIndex + 1, m_nSessionNum)
    BY <1>1, <1>2 DEF TypeOK, TableInv, PeersEven, Ids
  <1>4. Leaving(h, i, arrPeer, m_nIndex, peerUse)
    BY <1>1, <1>2, <1>3, AlikeItself DEF Leaving
  <1>5. sending' \in BOOLEAN /\ taken' \in Seq(Handlers)
    BY <1>1 DEF TypeOK
  <1>6. TypeOK' /\ TableInv' /\ PeersEven' /\ HandlersEven'
    BY <1>1, <1>4, <1>5, LosingKeeps
  <1>7. TakenRun'
    BY <1>1 DEF TakenRun
  <1> QED BY <1>6, <1>7 DEF IInv

LEMMA SendFailsKeeps ==
  ASSUME IInv, SendFails
  PROVE  IInv'
  <1>1. /\ TypeOK /\ TableInv /\ PeersEven /\ HandlersEven /\ TakenRun
        /\ sending /\ sending' = FALSE /\ taken' = <<>>
        /\ LoseConnection(GetMcpHandler, Moved, NextPeer, PeerPicked)
    BY DEF IInv, SendFails
  <1>2. m_nSessionNum > 0
    BY <1>1, TableAssumption DEF TakenRun, TypeOK
  <1>3. Leaving(GetMcpHandler, NextPeer + 1, Moved, NextPeer, PeerPicked)
    BY <1>1, <1>2, GetMcpHandlerFacts DEF Leaving
  <1>4. sending' \in BOOLEAN /\ taken' \in Seq(Handlers)
    BY <1>1, EmptySeq
  <1>5. TypeOK' /\ TableInv' /\ PeersEven' /\ HandlersEven'
    BY <1>1, <1>3, <1>4, LosingKeeps
  <1>6. TakenRun'
    BY <1>1 DEF TakenRun
  <1> QED BY <1>5, <1>6 DEF IInv

LEMMA QueryKeeps ==
  ASSUME IInv, NEW p \in Peers, GetMcpHandlerOf(p)
  PROVE  IInv'
  <1>1. /\ TypeOK /\ TableInv /\ PeersEven /\ HandlersEven /\ TakenRun /\ ~sending
        /\ UNCHANGED <<m_nSessionNum, m_nIndex, connected, sending, taken, peerUse>>
    BY DEF IInv, GetMcpHandlerOf
  <1>2. PICK i \in FindSession(p) :
          /\ arrPeer' = [arrPeer EXCEPT ![i].index = Advance(arrPeer[i].index, arrPeer[i].num)]
          /\ handlerUse' =
               Count(handlerUse, arrPeer[i].arr[Advance(arrPeer[i].index, arrPeer[i].num) + 1],
                     ConnectedTo(p))
    BY DEF GetMcpHandlerOf
  <1>3. i \in 1 .. m_nSessionNum /\ p = arrPeer[i].id
    BY DEF FindSession
  <1>4. /\ Alike(arrPeer', i) /\ handlerUse' \in [Handlers -> Nat]
        /\ \A m \in 1 .. m_nSessionNum :
             Even(handlerUse', arrPeer'[m].arr, arrPeer'[m].index + 1, arrPeer'[m].num)
    <2>1. \E h : PickedFrom(i, h, arrPeer', handlerUse')
      BY <1>1, <1>2, <1>3, PickFromSession
    <2> QED BY <2>1 DEF PickedFrom
  <1>5. m_nIndex' \in Nat /\ m_nIndex' < m_nSessionNum
    BY <1>1, <1>3 DEF TypeOK, TableInv
  <1>6. TableInv'
    BY <1>1, <1>3, <1>4, <1>5, AlikeTable
  <1>7. TypeOK'
    BY <1>1, <1>4 DEF TypeOK, Alike
  <1>8. HandlersEven'
    BY <1>1, <1>4 DEF HandlersEven
  <1>9. PeersEven'
    <2>1. Even(peerUse, Ids, m_nIndex + 1, m_nSessionNum)
      BY <1>1, <1>3 DEF PeersEven, Ids, TypeOK
    <2>2. \A m \in 1 .. m_nSessionNum : arrPeer'[m].id = arrPeer[m].id
      BY <1>1, <1>3, <1>4, AlikeSame
    <2> QED BY <1>1, <2>1, <2>2, SamePeers
  <1>10. TakenRun'
    BY <1>1 DEF TakenRun
  <1> QED BY <1>6, <1>7, <1>8, <1>9, <1>10 DEF IInv

\* The next peer is none of those the call has taken from.
LEMMA NextIsNew ==
  ASSUME IInv, sending, Len(taken) < EndorseCount
  PROVE  \A i \in 1 .. Len(taken) : PeerOf[taken[i]] # PeerOf[GetMcpHandler]
  <1>1. /\ TypeOK /\ TableInv /\ PeersEven /\ HandlersEven
        /\ EndorseCount <= m_nSessionNum /\ Len(taken) \in Nat
        /\ \A i \in 1 .. Len(taken) : \A k \in FindSession(PeerOf[taken[i]]) :
             Ago(k, m_nIndex + 1, m_nSessionNum) = Len(taken) - i
    BY LenProperties DEF IInv, TakenRun, TypeOK
  <1>2. /\ m_nSessionNum \in Nat \ {0} /\ EndorseCount \in Nat
        /\ m_nIndex + 1 \in 1 .. m_nSessionNum
    BY <1>1, TableAssumption DEF TypeOK, TableInv
  <1>3. FindSession(PeerOf[GetMcpHandler]) = {NextPeer + 1}
        /\ NextPeer + 1 = IF m_nIndex + 1 = m_nSessionNum THEN 1 ELSE (m_nIndex + 1) + 1
    BY <1>1, <1>2, GetMcpHandlerFacts
  <1>4. Ago(NextPeer + 1, m_nIndex + 1, m_nSessionNum) = m_nSessionNum - 1
    BY <1>2, <1>3, AgoNext
  <1> TAKE i \in 1 .. Len(taken)
  <1>5. SUFFICES ASSUME PeerOf[taken[i]] = PeerOf[GetMcpHandler]
                 PROVE  FALSE
    OBVIOUS
  <1>6. m_nSessionNum - 1 = Len(taken) - i
    BY <1>1, <1>3, <1>4, <1>5
  <1> QED BY <1>1, <1>2, <1>6

LEMMA SendNextKeeps ==
  ASSUME IInv, SendNext
  PROVE  IInv'
  <1>1. /\ TypeOK /\ TableInv /\ PeersEven /\ HandlersEven /\ TakenRun
        /\ sending /\ Len(taken) < EndorseCount
        /\ arrPeer' = Moved /\ m_nIndex' = NextPeer
        /\ taken' = Append(taken, GetMcpHandler) /\ peerUse' = PeerPicked
        /\ handlerUse' =
             Count(handlerUse, GetMcpHandler, ConnectedTo(PeerOf[GetMcpHandler]))
        /\ m_nSessionNum' = m_nSessionNum /\ connected' = connected /\ sending' = sending
    BY DEF IInv, SendNext
  <1>2. /\ m_nSessionNum \in Nat \ {0} /\ m_nIndex + 1 \in 1 .. m_nSessionNum
        /\ EndorseCount \in Nat /\ EndorseCount <= m_nSessionNum
        /\ taken \in Seq(Handlers) /\ Len(taken) \in Nat
    BY <1>1, TableAssumption, LenProperties DEF TakenRun, TypeOK, TableInv
  <1>3. /\ NextPeer \in Nat /\ NextPeer < m_nSessionNum
        /\ NextPeer + 1 \in 1 .. m_nSessionNum
        /\ NextPeer + 1 = IF m_nIndex + 1 = m_nSessionNum THEN 1 ELSE (m_nIndex + 1) + 1
    BY <1>1, <1>2, GetMcpHandlerFacts
  <1>4. /\ GetMcpHandler \in connected
        /\ PeerOf[GetMcpHandler] = arrPeer[NextPeer + 1].id
        /\ FindSession(PeerOf[GetMcpHandler]) = {NextPeer + 1}
    BY <1>1, <1>2, GetMcpHandlerFacts
  <1>5. /\ PeerPicked \in [Peers -> Nat]
        /\ Even(PeerPicked, Ids, NextPeer + 1, m_nSessionNum)
    BY <1>1, <1>2, GetMcpHandlerFacts
  <1> HIDE DEF NextPeer
  <1>6. /\ Alike(arrPeer', NextPeer + 1) /\ handlerUse' \in [Handlers -> Nat]
        /\ \A m \in 1 .. m_nSessionNum :
             Even(handlerUse', arrPeer'[m].arr, arrPeer'[m].index + 1, arrPeer'[m].num)
    <2>1. /\ arrPeer' = [arrPeer EXCEPT ![NextPeer + 1].index = NextHandler]
          /\ NextHandler = Advance(arrPeer[NextPeer + 1].index, arrPeer[NextPeer + 1].num)
          /\ GetMcpHandler = arrPeer[NextPeer + 1].arr[NextHandler + 1]
          /\ handlerUse' =
               Count(handlerUse, GetMcpHandler, ConnectedTo(arrPeer[NextPeer + 1].id))
      BY <1>1, <1>4 DEF Moved, NextHandler, GetMcpHandler
    <2>2. PickedFrom(NextPeer + 1, GetMcpHandler, arrPeer', handlerUse')
      BY <1>1, <1>3, <2>1, PickFromSession
    <2> QED BY <2>2 DEF PickedFrom
  <1>7. TableInv' /\ \A p : FindSession(p)' = FindSession(p)
    BY <1>1, <1>3, <1>6, AlikeTable
  <1>8. /\ taken' \in Seq(Handlers) /\ Len(taken') = Len(taken) + 1
        /\ \A i \in 1 .. Len(taken) : taken'[i] = taken[i]
        /\ taken'[Len(taken) + 1] = GetMcpHandler
    <2>1. GetMcpHandler \in Handlers
      BY <1>1, <1>4 DEF TypeOK
    <2> QED BY <1>1, <1>2, <2>1, AppendProperties
  <1>9. TypeOK'
    BY <1>1, <1>3, <1>5, <1>6, <1>8 DEF TypeOK, Alike
  <1>10. HandlersEven'
    BY <1>1, <1>6 DEF HandlersEven
  <1>11. PeersEven'
    <2>1. \A m \in 1 .. m_nSessionNum : arrPeer'[m].id = arrPeer[m].id
      BY <1>1, <1>3, <1>6, AlikeSame
    <2> QED BY <1>1, <1>5, <2>1, SamePeers
  <1>12. TakenRun'
    <2> DEFINE n == m_nSessionNum
               q == NextPeer + 1
    <2>1. /\ Ago(q, q, n) = 0
          /\ \A k \in 1 .. n : k # q => Ago(k, q, n) = Ago(k, m_nIndex + 1, n) + 1
      BY <1>2, <1>3, AgoNext
    <2>2. ASSUME NEW i \in 1 .. Len(taken')
          PROVE  /\ taken'[i] \in connected
                 /\ \A k \in FindSession(PeerOf[taken'[i]]) : Ago(k, q, n) = Len(taken') - i
      <3>1. CASE i = Len(taken) + 1
        BY <1>4, <1>8, <2>1, <3>1, <1>2
      <3>2. CASE i \in 1 .. Len(taken)
        <4>1. /\ taken'[i] = taken[i] /\ taken[i] \in connected
              /\ \A k \in FindSession(PeerOf[taken[i]]) :
                   Ago(k, m_nIndex + 1, n) = Len(taken) - i
          BY <1>1, <1>8, <3>2 DEF TakenRun
        <4>2. PeerOf[taken[i]] # PeerOf[GetMcpHandler]
          BY <1>1, <3>2, NextIsNew
        <4>3. \A k \in FindSession(PeerOf[taken[i]]) : k \in 1 .. n /\ k # q
          BY <1>4, <4>2 DEF FindSession
        <4>4. ASSUME NEW k \in FindSession(PeerOf[taken[i]])
              PROVE  Ago(k, q, n) = Len(taken') - i
          <5>1. Ago(k, q, n) = (Len(taken) - i) + 1
            BY <2>1, <4>1, <4>3
          <5> QED BY <1>2, <1>8, <3>2, <5>1
        <4> QED BY <4>1, <4>4
      <3> QED BY <1>2, <1>8, <3>1, <3>2
    <2>3. Len(taken') <= EndorseCount
      BY <1>1, <1>2, <1>8
    <2>4. \A i \in 1 .. Len(taken') :
            /\ taken'[i] \in connected'
            /\ \A k \in FindSession(PeerOf[taken[i]])' :
                 Ago(k, m_nIndex' + 1, m_nSessionNum') = Len(taken') - i
      BY <1>1, <1>7, <2>2 DEF FindSession
    <2> QED BY <1>1, <1>2, <2>3, <2>4 DEF TakenRun
  <1> QED BY <1>7, <1>9, <1>10, <1>11, <1>12 DEF IInv

LEMMA SendEndsKeep ==
  ASSUME IInv, BeginSend \/ EndSend
  PROVE  IInv'
  <1>1. /\ TypeOK /\ TableInv /\ PeersEven /\ HandlersEven
        /\ UNCHANGED <<arrPeer, m_nSessionNum, m_nIndex, connected, peerUse, handlerUse>>
        /\ taken' = <<>> /\ sending' \in BOOLEAN
    BY DEF IInv, BeginSend, EndSend
  <1>2. TypeOK'
    BY <1>1, EmptySeq DEF TypeOK
  <1>3. TableInv'
    <2>1. \A p : ConnectedTo(p)' = ConnectedTo(p) /\ FindSession(p)' = FindSession(p)
      BY <1>1 DEF ConnectedTo, FindSession
    <2> QED BY <1>1 DEF TableInv, ConnectedTo, FindSession
  <1>4. PeersEven' /\ HandlersEven'
    BY <1>1 DEF PeersEven, HandlersEven
  <1>5. TakenRun'
    <2>1. CASE BeginSend
      <3>1. EndorseCount <= m_nSessionNum' /\ 0 <= EndorseCount /\ Len(taken') = 0
        BY <1>1, <2>1, TableAssumption, EmptySeq DEF BeginSend, TypeOK
      <3> QED BY <1>1, <3>1 DEF TakenRun
    <2>2. CASE EndSend
      BY <2>2 DEF EndSend, TakenRun
    <2> QED BY <2>1, <2>2
  <1> QED BY <1>2, <1>3, <1>4, <1>5 DEF IInv

LEMMA StutterKeeps ==
  ASSUME IInv, UNCHANGED vars
  PROVE  IInv'
  <1>1. /\ UNCHANGED <<arrPeer, m_nSessionNum, m_nIndex, connected, sending, taken>>
        /\ UNCHANGED <<peerUse, handlerUse>>
    BY DEF vars
  <1>2. TypeOK'
    BY <1>1 DEF IInv, TypeOK
  <1>3. TableInv'
    BY <1>1 DEF IInv, TableInv, ConnectedTo, FindSession
  <1>4. PeersEven' /\ HandlersEven'
    BY <1>1 DEF IInv, PeersEven, HandlersEven
  <1>5. TakenRun'
    BY <1>1 DEF IInv, TakenRun, FindSession
  <1> QED BY <1>2, <1>3, <1>4, <1>5 DEF IInv

LEMMA InitInv == Init => IInv
  <1> SUFFICES ASSUME Init
               PROVE  IInv
    OBVIOUS
  <1>1. TypeOK
    BY EmptySeq DEF Init, TypeOK
  <1>2. TableInv
    BY EmptySeq DEF Init, TableInv, FindSession
  <1>3. PeersEven /\ HandlersEven /\ TakenRun
    BY DEF Init, PeersEven, HandlersEven, TakenRun
  <1> QED BY <1>1, <1>2, <1>3 DEF IInv

LEMMA StepInv == IInv /\ [Next]_vars => IInv'
  <1> SUFFICES ASSUME IInv, [Next]_vars
               PROVE  IInv'
    OBVIOUS
  <1>1. ASSUME NEW h \in Handlers, OnConnectedNodify(h)
        PROVE  IInv'
    BY <1>1, ConnectKeeps
  <1>2. ASSUME NEW h \in Handlers, OnNetworkError(h)
        PROVE  IInv'
    BY <1>2, NetworkErrorKeeps
  <1>3. ASSUME NEW p \in Peers, GetMcpHandlerOf(p)
        PROVE  IInv'
    BY <1>3, QueryKeeps
  <1>4. CASE BeginSend \/ EndSend
    BY <1>4, SendEndsKeep
  <1>5. CASE SendNext
    BY <1>5, SendNextKeeps
  <1>6. CASE SendFails
    BY <1>6, SendFailsKeeps
  <1>7. CASE UNCHANGED vars
    BY <1>7, StutterKeeps
  <1> QED BY <1>1, <1>2, <1>3, <1>4, <1>5, <1>6, <1>7 DEF Next
-----------------------------------------------------------------------------
(* The theorems. *)

\* The table is well formed, every element is where it should be, and the two
\* round robins are where the picks say they are, in every reachable state.
THEOREM TableInvariance == Spec => []IInv
  BY InitInv, StepInv, PTL DEF Spec

\* The two arrays list exactly the connections there are
\* (CVbhPeerConnectSessionSummaryInfo and CVbhPeerConnectSession): nothing is
\* lost, doubled or left behind when arrays grow and holes are filled.
THEOREM TablesExact == Spec => []TableExact
  <1>1. IInv => TableExact
    <2> SUFFICES ASSUME IInv
                 PROVE  TableExact
      OBVIOUS
    <2>1. TypeOK /\ TableInv
      BY DEF IInv
    <2>2. m_nSessionNum \in 0 .. Len(arrPeer)
      BY <2>1, LenProperties DEF TypeOK, TableInv
    <2>3. \A i \in 1 .. m_nSessionNum : arrPeer[i].num \in 1 .. Len(arrPeer[i].arr)
      <3> TAKE i \in 1 .. m_nSessionNum
      <3>1. /\ arrPeer[i].arr \in Seq(Handlers \cup {NULL}) /\ arrPeer[i].num \in Nat \ {0}
            /\ arrPeer[i].num <= Len(arrPeer[i].arr)
        BY <2>1, SessionFacts
      <3> QED BY <3>1, LenProperties
    <2>4. {arrPeer[i].id : i \in 1 .. m_nSessionNum} = {PeerOf[h] : h \in connected}
      <3>1. ASSUME NEW i \in 1 .. m_nSessionNum
            PROVE  \E h \in connected : PeerOf[h] = arrPeer[i].id
        <4>1. 1 \in 1 .. arrPeer[i].num
          BY <2>1, SessionFacts
        <4> QED BY <2>1, <4>1, ListedFacts
      <3>2. ASSUME NEW h \in connected
            PROVE  \E i \in 1 .. m_nSessionNum : PeerOf[h] = arrPeer[i].id
        BY <2>1, ConnectedFacts
      <3> QED BY <3>1, <3>2
    <2>5. \A i, j \in 1 .. m_nSessionNum : arrPeer[i].id = arrPeer[j].id => i = j
      BY <2>1 DEF TableInv
    <2>6. \A i \in 1 .. m_nSessionNum :
            /\ Range1(arrPeer[i].arr, arrPeer[i].num) = ConnectedTo(arrPeer[i].id)
            /\ arrPeer[i].num = Cardinality(ConnectedTo(arrPeer[i].id))
      BY <2>1 DEF TableInv, ListsOf
    <2> QED BY <2>2, <2>3, <2>4, <2>5, <2>6 DEF TableExact
  <1> QED BY <1>1, TableInvariance, PTL

\* As long as the arrays do not change the two GetMcpHandler pick every peer,
\* and every handler of a peer, as often as every other, give or take one.
THEOREM PicksEven == Spec => []EvenlySpread
  <1>1. IInv => EvenlySpread
    <2> SUFFICES ASSUME IInv
                 PROVE  EvenlySpread
      OBVIOUS
    <2>1. TypeOK /\ TableInv /\ PeersEven /\ HandlersEven
      BY DEF IInv
    <2>2. ASSUME NEW h \in connected
          PROVE  peerUse[PeerOf[h]] <= 1
      <3>1. PICK i \in 1 .. m_nSessionNum : arrPeer[i].id = PeerOf[h]
        BY <2>1, ConnectedFacts
      <3>2. Even(peerUse, Ids, m_nIndex + 1, m_nSessionNum)
        BY <2>1, <3>1 DEF PeersEven, Ids, TypeOK
      <3>3. peerUse[Ids[i]] \in {0, 1}
        BY <3>2, EvenBits
      <3> QED BY <3>1, <3>3 DEF Ids
    <2>3. ASSUME NEW h \in connected
          PROVE  handlerUse[h] \in {0, 1}
      <3>1. PICK i \in 1 .. m_nSessionNum : \E k \in 1 .. arrPeer[i].num : arrPeer[i].arr[k] = h
        BY <2>1, ConnectedFacts
      <3>2. Even(handlerUse, arrPeer[i].arr, arrPeer[i].index + 1, arrPeer[i].num)
        BY <2>1 DEF HandlersEven
      <3> QED BY <3>1, <3>2, EvenBits
    <2>4. \A g, h \in connected : handlerUse[g] - handlerUse[h] \in -1 .. 1
      BY <2>3
    <2> QED BY <2>2, <2>4 DEF EvenlySpread
  <1> QED BY <1>1, TableInvariance, PTL
-----------------------------------------------------------------------------
(* The table implements the pool of endorsers. *)

Got == {taken[i] : i \in DOMAIN taken}

LEMMA Counted ==
  ASSUME NEW n \in Nat, NEW f, NEW T, T = {f[i] : i \in 1 .. n}, DOMAIN f = 1 .. n,
         f = [i \in 1 .. n |-> f[i]],
         \A i, j \in 1 .. n : f[i] = f[j] => i = j
  PROVE  IsFiniteSet(T) /\ Cardinality(T) = n
  <1>1. f \in [1 .. n -> T]
    OBVIOUS
  <1>2. f \in Injection(1 .. n, T) /\ f \in Surjection(1 .. n, T)
    BY <1>1 DEF Injection, Surjection, IsInjective
  <1>3. ExistsBijection(1 .. n, T)
    BY <1>2 DEF ExistsBijection, Bijection
  <1>4. IsFiniteSet(1 .. n) /\ Cardinality(1 .. n) = n
    BY FS_Interval
  <1> QED BY <1>3, <1>4, FS_Bijection

\* As many peers as elements in use have a connection.
LEMMA PeersCounted ==
  ASSUME IInv
  PROVE  Cardinality({PeerOf[h] : h \in connected}) = m_nSessionNum
  <1>1. TypeOK /\ TableInv /\ m_nSessionNum \in Nat
    BY DEF IInv, TypeOK
  <1>2. {PeerOf[h] : h \in connected} = {Ids[i] : i \in 1 .. m_nSessionNum}
    <2>1. ASSUME NEW h \in connected
          PROVE  \E i \in 1 .. m_nSessionNum : PeerOf[h] = Ids[i]
      BY <1>1, ConnectedFacts DEF Ids
    <2>2. ASSUME NEW i \in 1 .. m_nSessionNum
          PROVE  \E h \in connected : PeerOf[h] = Ids[i]
      <3>1. 1 \in 1 .. arrPeer[i].num
        BY <1>1, SessionFacts
      <3> QED BY <1>1, <3>1, ListedFacts DEF Ids
    <2> QED BY <2>1, <2>2
  <1>3. \A i, j \in 1 .. m_nSessionNum : Ids[i] = Ids[j] => i = j
    BY <1>1 DEF Ids, TableInv
  <1>4. Ids = [i \in 1 .. m_nSessionNum |-> Ids[i]] /\ DOMAIN Ids = 1 .. m_nSessionNum
    BY DEF Ids
  <1> QED BY <1>1, <1>2, <1>3, <1>4, Counted

\* A call has taken as many handlers as rounds have passed.
LEMMA GotCounted ==
  ASSUME IInv, sending
  PROVE  Cardinality(Got) = Len(taken) /\ Got = {taken[i] : i \in 1 .. Len(taken)}
  <1>1. /\ TypeOK /\ TableInv /\ taken \in Seq(Handlers) /\ Len(taken) \in Nat
        /\ DOMAIN taken = 1 .. Len(taken) /\ taken \in [1 .. Len(taken) -> Handlers]
    BY LenProperties DEF IInv, TypeOK
  <1>2. ASSUME NEW i \in 1 .. Len(taken), NEW j \in 1 .. Len(taken), taken[i] = taken[j]
        PROVE  i = j
    <2>1. PICK k : k \in FindSession(PeerOf[taken[i]])
      BY DEF IInv, TakenRun, TableInv
    <2>2. Len(taken) - i = Len(taken) - j
      BY <1>2, <2>1 DEF IInv, TakenRun
    <2> QED BY <1>1, <2>2
  <1>3. taken = [i \in 1 .. Len(taken) |-> taken[i]]
    BY <1>1
  <1>4. Got = {taken[i] : i \in 1 .. Len(taken)}
    BY <1>1 DEF Got
  <1> QED BY <1>1, <1>2, <1>3, <1>4, Counted

LEMMA NextMayBePicked ==
  ASSUME IInv, sending, Len(taken) < EndorseCount
  PROVE  /\ GetMcpHandler \in connected /\ GetMcpHandler \in Handlers
         /\ Cardinality(Got) < EndorseCount
         /\ \A g \in Got : PeerOf[g] # PeerOf[GetMcpHandler]
  <1>1. /\ TypeOK /\ TableInv /\ PeersEven /\ HandlersEven /\ m_nSessionNum > 0
    BY TableAssumption DEF IInv, TakenRun, TypeOK
  <1>2. GetMcpHandler \in connected
    BY <1>1, GetMcpHandlerFacts
  <1>3. GetMcpHandler \in Handlers
    BY <1>1, <1>2 DEF TypeOK
  <1> QED BY <1>2, <1>3, GotCounted, NextIsNew

LEMMA PoolCounts == \A S : Pool!Cardinality(S) = Cardinality(S)
  BY DEF Pool!Cardinality, Cardinality, Pool!IsFiniteSet, IsFiniteSet

LEMMA InitPool == Init => Pool!Init
  BY DEF Init, Pool!Init

LEMMA StepPool == IInv /\ [Next]_vars => [Pool!Next]_Pool!vars
  <1> SUFFICES ASSUME IInv, [Next]_vars
               PROVE  [Pool!Next]_Pool!vars
    OBVIOUS
  <1>1. ASSUME NEW h \in Handlers, OnConnectedNodify(h)
        PROVE  Pool!Connect(h)
    BY <1>1 DEF OnConnectedNodify, Pool!Connect
  <1>2. ASSUME NEW h \in Handlers, OnNetworkError(h)
        PROVE  Pool!Disconnect(h)
    BY <1>2 DEF OnNetworkError, LoseConnection, Pool!Disconnect
  <1>3. ASSUME NEW p \in Peers, GetMcpHandlerOf(p)
        PROVE  UNCHANGED Pool!vars
    BY <1>3 DEF GetMcpHandlerOf, Pool!vars
  <1>4. CASE BeginSend
    <2>1. /\ ~sending /\ sending' = TRUE /\ connected' = connected /\ taken' = <<>>
          /\ m_nSessionNum >= EndorseCount
      BY <1>4 DEF BeginSend
    <2>2. Cardinality({PeerOf[h] : h \in connected}) >= EndorseCount
      BY <2>1, PeersCounted
    <2>3. Got' = {}
      BY <2>1 DEF Got
    <2>4. Pool!Start
      BY <2>1, <2>2, <2>3, PoolCounts, Zenon DEF Pool!Start, Got
    <2> QED BY <2>4 DEF Pool!Next
  <1>5. CASE SendNext
    <2>1. /\ sending /\ Len(taken) < EndorseCount /\ taken' = Append(taken, GetMcpHandler)
          /\ connected' = connected /\ sending' = sending
      BY <1>5 DEF SendNext
    <2>2. /\ GetMcpHandler \in connected /\ GetMcpHandler \in Handlers
          /\ Cardinality(Got) < EndorseCount
          /\ \A g \in Got : PeerOf[g] # PeerOf[GetMcpHandler]
      BY <2>1, NextMayBePicked
    <2>3. Got' = Got \cup {GetMcpHandler}
      <3>1. taken \in Seq(Handlers) /\ Len(taken) \in Nat
        BY LenProperties DEF IInv, TypeOK
      <3>2. /\ taken' \in Seq(Handlers) /\ Len(taken') = Len(taken) + 1
            /\ \A i \in 1 .. Len(taken) : taken'[i] = taken[i]
            /\ taken'[Len(taken) + 1] = GetMcpHandler
        BY <2>1, <2>2, <3>1, AppendProperties
      <3>3. DOMAIN taken' = 1 .. Len(taken) + 1 /\ DOMAIN taken = 1 .. Len(taken)
        BY <3>1, <3>2, LenProperties
      <3>4. \A i \in 1 .. Len(taken) + 1 : i \in 1 .. Len(taken) \/ i = Len(taken) + 1
        BY <3>1
      <3>5. /\ \A i \in 1 .. Len(taken) : i \in 1 .. Len(taken) + 1
            /\ Len(taken) + 1 \in 1 .. Len(taken) + 1
        BY <3>1
      <3> QED BY <3>2, <3>3, <3>4, <3>5 DEF Got
    <2>4. PICK h \in Handlers : h = GetMcpHandler
      BY <2>2
    <2>5. Pool!Pick(h)
      BY <2>1, <2>2, <2>3, <2>4, PoolCounts, Zenon DEF Pool!Pick, Pool!MayPick, Got
    <2> QED BY <2>5 DEF Pool!Next
  <1>6. CASE SendFails
    <2>1. /\ sending /\ Len(taken) < EndorseCount /\ taken' = <<>> /\ sending' = FALSE
          /\ connected' = connected \ {GetMcpHandler}
      BY <1>6 DEF SendFails, LoseConnection
    <2>2. /\ GetMcpHandler \in connected /\ GetMcpHandler \in Handlers
          /\ Cardinality(Got) < EndorseCount
          /\ \A g \in Got : PeerOf[g] # PeerOf[GetMcpHandler]
      BY <2>1, NextMayBePicked
    <2>3. Got' = {}
      BY <2>1 DEF Got
    <2>4. PICK h \in Handlers : h = GetMcpHandler
      BY <2>2
    <2>5. Pool!PickFails(h)
      BY <2>1, <2>2, <2>3, <2>4, PoolCounts, Zenon DEF Pool!PickFails, Pool!MayPick, Got
    <2> QED BY <2>5 DEF Pool!Next
  <1>7. CASE EndSend
    <2>1. /\ sending /\ Len(taken) = EndorseCount /\ taken' = <<>> /\ sending' = FALSE
          /\ connected' = connected
      BY <1>7 DEF EndSend
    <2>2. Cardinality(Got) = EndorseCount
      BY <2>1, GotCounted
    <2>3. Got' = {}
      BY <2>1 DEF Got
    <2>4. Pool!Finish
      BY <2>1, <2>2, <2>3, PoolCounts, Zenon DEF Pool!Finish, Got
    <2> QED BY <2>4 DEF Pool!Next
  <1>8. CASE UNCHANGED vars
    BY <1>8 DEF vars, Pool!vars
  <1> QED BY <1>1, <1>2, <1>3, <1>4, <1>5, <1>6, <1>7, <1>8 DEF Next, Pool!Next

\* The table implements the pool of endorsers CryptClient is written against:
\* one SendMultiEndorseMessage takes connected handlers of pairwise different
\* peers, and when a call may begin the table never runs out of them.
THEOREM TableImplementsPool == Spec => ImplementsPool
  BY InitPool, StepPool, TableInvariance, PTL DEF Spec, ImplementsPool, Pool!Spec
=============================================================================
