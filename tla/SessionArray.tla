----------------------------- MODULE SessionArray -----------------------------
(***************************************************************************)
(* The arrays of sessions that hang on the connections: m_arrSession of    *)
(* every handler, a CDscTypeArray<IBaseSession>. This module looks at the  *)
(* positions in them; CryptClient takes each array for a set, which the    *)
(* runs with Fan = 1 justify, and AdapterBase for one from which an Erase  *)
(* may take another element than its own, as those with Fan > 1 do.        *)
(*                                                                         *)
(* CDscTypeArray is not in this repository. What is known of it here is    *)
(* that its elements must have a member m_nIndex ("the interface an        *)
(* element of CDscTypeArray must have"), that there is an invalid index,   *)
(* and that Erase takes the element alone: it finds it by the index it     *)
(* wrote there, and fills the hole from the end.                           *)
(*                                                                         *)
(* A session of the crypt client hangs on one connection (Fan = 1), one of *)
(* the adapter on as many as there are endorsers to ask (Fan > 1), with    *)
(* still only one m_nIndex.                                                *)
(***************************************************************************)
EXTENDS Integers, Sequences, SequencesExt

CONSTANTS
  Sessions, Handlers,
  Fan  \* over how many connections a session is sent at most, from 1

VARIABLES
  t,     \* arr: m_arrSession of each handler; m_nIndex of each session
  links  \* m_arrHandler or m_pHandler of each session, empty if it is freed

vars == <<t, links>>

Used == {s \in Sessions : links[s] # <<>>}

On(h) == {s \in Used : h \in ToSet(links[s])}
-----------------------------------------------------------------------------
(* CDscTypeArray. *)

Insert(u, h, s) ==
  [arr |-> [u.arr EXCEPT ![h] = Append(@, s)],
   m_nIndex |-> [u.m_nIndex EXCEPT ![s] = Len(u.arr[h])]]

\* The last element takes the place of s.
Fill(a, pos) == Front([a EXCEPT ![pos] = Last(a)])

MutantErase(u, h, s) ==
  LET pos == u.m_nIndex[s] + 1
  IN  IF pos \notin DOMAIN u.arr[h] THEN u
      ELSE [u EXCEPT !.arr[h] = Fill(u.arr[h], pos)]

Erase(u, h, s) ==
  LET pos == u.m_nIndex[s] + 1
      last == Last(u.arr[h])
  IN  IF pos \notin DOMAIN u.arr[h] THEN u
      ELSE [arr |-> [u.arr EXCEPT ![h] = Fill(@, pos)],
            m_nIndex |-> [u.m_nIndex EXCEPT ![last] = pos - 1]]

InsertAll(hs, s) == FoldLeft(LAMBDA u, h : Insert(u, h, s), t, hs)

\* pIgnoreMcpHandler is the connection whose array is not touched, if any.
EraseAll(u, hs, s, ignored) ==
  FoldLeft(LAMBDA v, h : IF h \in ignored THEN v ELSE Erase(v, h, s), u, hs)
-----------------------------------------------------------------------------
Init ==
  /\ t = [arr |-> [h \in Handlers |-> <<>>], m_nIndex |-> [s \in Sessions |-> 0]]
  /\ links = [s \in Sessions |-> <<>>]

\* A request is sent over the connections hs, in this order.
Open(s, hs) ==
  /\ s \notin Used
  /\ Len(hs) \in 1 .. Fan
  /\ IsInjective(hs)
  /\ t' = InsertAll(hs, s)
  /\ links' = [links EXCEPT ![s] = hs]

\* RemoveNonSubmitMcpHandler of the adapter: an endorser that will not submit
\* has answered.
Answered(s, h) ==
  /\ s \in On(h)
  /\ Len(links[s]) > 1
  /\ t' = Erase(t, h, s)
  /\ links' = [links EXCEPT ![s] = Remove(@, h)]

\* The session ends: it leaves the arrays of all its connections.
Release(s) ==
  /\ s \in Used
  /\ t' = EraseAll(t, links[s], s, {})
  /\ links' = [links EXCEPT ![s] = <<>>]

\* A connection breaks: OnNetError of each session in its array, which leaves
\* the arrays of the other connections, then Clear.
OnNetworkError(h) ==
  LET lost == t.arr[h]
      u == FoldLeft(LAMBDA v, s : EraseAll(v, links[s], s, {h}), t, lost)
  IN  /\ t' = [u EXCEPT !.arr[h] = <<>>]
      /\ links' = [s \in Sessions |-> IF s \in ToSet(lost) THEN <<>> ELSE links[s]]

Next ==
  \/ \E s \in Sessions, hs \in BoundedSeq(Handlers, Fan) : Open(s, hs)
  \/ \E s \in Sessions : Release(s)
  \/ \E h \in Handlers : OnNetworkError(h)

Spec == Init /\ [][Next]_vars

\* The adapter's use of the arrays.
AdapterNext == Next \/ \E s \in Sessions, h \in Handlers : Answered(s, h)

AdapterSpec == Init /\ [][AdapterNext]_vars
-----------------------------------------------------------------------------
\* What an array holds and what hangs on its connection are the same: no
\* freed session stays in an array, where a broken connection would use it,
\* and none that is alive is missing, whom a broken connection must end. Every
\* session finds itself by its index, through all moves of others.
ArraysExact ==
  \A h \in Handlers :
    /\ ToSet(t.arr[h]) = On(h) /\ IsInjective(t.arr[h])
    /\ \A i \in DOMAIN t.arr[h] : t.m_nIndex[t.arr[h][i]] = i - 1

\* The comment of OnReleaseMultiMcpHandler: "delete this session from all
\* endorsing handle-sessions". No array keeps a session that was released.
NoReleasedSession == \A h \in Handlers : ToSet(t.arr[h]) \subseteq Used
=============================================================================
