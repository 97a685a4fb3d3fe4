-------------------------- MODULE CryptEndorseProofs --------------------------
(***************************************************************************)
(* Proofs about the endorsements CryptClient counts, the submissions it    *)
(* makes and what it tells of their fate: EndorseInv, which adds the votes *)
(* and the messages after a submission to IInv, is an inductive invariant, *)
(* and with it the service implements RequestLifecycle.                    *)
(***************************************************************************)
EXTENDS CryptClientProofs

(* Sessions and the messages that meet them. *)

\* A live session belongs to a sent request that has no answer yet.
LEMMA LiveSession ==
  ASSUME IInv, NEW id \in Live
  PROVE  /\ running /\ id \in SessionIDs /\ session[id] \in Session
         /\ session[id].kind \in Kinds /\ session[id].src \in Requests
         /\ session[id].handler \in Handlers
         /\ rsp[session[id].src] = <<>> /\ req[session[id].src] # NULL
<1>1. id \in SessionIDs /\ session[id] \in Session /\ session[id].kind # "free"
  BY DEF IInv, TypeOK, ServiceTypeOK, Live
<1>2. session[id].src \in Requests /\ session[id].handler \in Handlers
  BY <1>1 DEF IInv, SessionsOwned
<1>3. running
  BY DEF IInv, ExitStopsTimers
<1>4. rsp[session[id].src] = <<>>
  BY DEF IInv, OneAnswer
<1>5. req[session[id].src] # NULL
  BY <1>1, <1>2 DEF IInv, UnsentUntouched
<1>6. QED
  BY <1>1, <1>2, <1>3, <1>4, <1>5 DEF Session

\* A message whose id is in its map meets the live session of its request.
LEMMA MeetsSession ==
  ASSUME IInv, KindsFit, running, NEW m \in net, m.id \in map[m.kind]
  PROVE  /\ m \in Message /\ m.src \in Requests /\ m.h \in Handlers
         /\ m.id \in Live /\ session[m.id].src = m.src /\ session[m.id].kind = m.kind
         /\ m.kind = req[m.src]
<1>1. /\ m \in Message /\ m.id \in SessionIDs
      /\ session[m.id].kind = m.kind /\ session[m.id].kind # "free"
  BY MappedIsLive DEF IInv
<1>2. QED
  BY <1>1 DEF IInv, OwnMessages, KindsFit, Message, Live

\* The endorsers picked and those that have accepted are finite sets.
LEMMA FiniteVoters ==
  ASSUME TypeOK, NEW r \in Requests
  PROVE  /\ picked[r] \in SUBSET Handlers /\ Voters(r) \in SUBSET Handlers
         /\ votes[r] \in SUBSET (Handlers \X Contents)
         /\ IsFiniteSet(picked[r]) /\ IsFiniteSet(Voters(r))
         /\ Cardinality(picked[r]) \in Nat /\ Cardinality(Voters(r)) \in Nat
<1>1. picked[r] \in SUBSET Handlers /\ votes[r] \in SUBSET (Handlers \X Contents)
  BY DEF TypeOK, OutsideTypeOK
<1>2. Voters(r) \in SUBSET Handlers
  BY <1>1 DEF Voters
<1>3. IsFiniteSet(picked[r]) /\ IsFiniteSet(Voters(r))
  BY <1>1, <1>2, ConfigAssumption, FS_Subset
<1>4. QED
  BY <1>1, <1>2, <1>3, FS_CardinalityType

\* An endorsement that is still out is missing in the count of its session:
\* nothing has been submitted yet.
LEMMA EndorsementMissing ==
  ASSUME IInv, KindsFit, VotesCounted, running,
         NEW m \in net, m.type = "endorse", m.id \in map[m.kind]
  PROVE  /\ m.kind # "query" /\ CountsVotes(m.id)
         /\ m = Msg("endorse", m.kind, m.h, m.id, m.src, NULL)
         /\ m.h \in picked[m.src] /\ m.h \notin Voters(m.src)
         /\ session[m.id].succ < EndorseCount /\ submits[m.src] = 0
<1>1. /\ m.src \in Requests /\ m.id \in Live /\ session[m.id].src = m.src
      /\ session[m.id].kind = m.kind
  BY MeetsSession
<1>2. m.kind # "query" /\ CountsVotes(m.id)
  BY <1>1 DEF KindsFit, VotesCounted
<1>3. /\ m = Msg("endorse", m.kind, m.h, m.id, m.src, NULL)
      /\ m.h \in picked[m.src] /\ m.h \notin Voters(m.src)
  BY <1>1, <1>2 DEF CountsVotes, Endorses
<1>4. /\ Voters(m.src) \subseteq picked[m.src]
      /\ Cardinality(picked[m.src]) = EndorseCount
      /\ session[m.id].succ = Cardinality(Voters(m.src))
      /\ submits[m.src] = IF session[m.id].succ < EndorseCount THEN 0 ELSE 1
  BY <1>1, <1>2 DEF CountsVotes
<1>5. Cardinality(Voters(m.src)) < EndorseCount
  <2>1. IsFiniteSet(picked[m.src]) /\ Cardinality(picked[m.src]) \in Nat
        /\ Cardinality(Voters(m.src)) \in Nat
    BY <1>1, FiniteVoters DEF IInv
  <2>2. Voters(m.src) # picked[m.src]
    BY <1>3
  <2>3. QED
    BY <1>4, <2>1, <2>2, FS_Subset
<1>6. QED
  BY <1>2, <1>3, <1>4, <1>5

\* The session after one more acceptance.
LEMMA CountedFields ==
  ASSUME NEW s \in Session, NEW h, NEW c
  PROVE  LET t == Counted(s, h, c)
         IN  /\ t.kind = s.kind /\ t.src = s.src /\ t.handler = s.handler
             /\ t.succ = s.succ + 1
             /\ t.info = IF s.info = Empty THEN c ELSE s.info
             /\ t.es = IF h = s.handler THEN h ELSE s.es
<1> DEFINE i == IF s.info = Empty THEN c ELSE s.info
           e == IF h = s.handler THEN h ELSE s.es
           t == [s EXCEPT !.info = i, !.succ = s.succ + 1, !.es = e]
<1>1. Counted(s, h, c) = t
  BY Zenon DEF Counted
<1> HIDE DEF i, e
<1>2. /\ t.kind = s.kind /\ t.src = s.src /\ t.handler = s.handler
      /\ t.succ = s.succ + 1 /\ t.info = i /\ t.es = e
  BY DEF Session
<1>3. QED
  BY <1>1, <1>2, Zenon DEF i, e

\* An acceptance adds one voter to one request.
LEMMA VoteAdded ==
  ASSUME TypeOK, NEW r \in Requests, NEW h \in Handlers, NEW c \in Contents,
         votes' = [votes EXCEPT ![r] = @ \cup {<<h, c>>}]
  PROVE  /\ votes'[r] = votes[r] \cup {<<h, c>>}
         /\ Voters(r)' = Voters(r) \cup {h}
         /\ \A q \in Requests \ {r} : votes'[q] = votes[q] /\ Voters(q)' = Voters(q)
         /\ h \notin Voters(r) =>
              Cardinality(Voters(r)') = Cardinality(Voters(r)) + 1
<1>1. votes'[r] = votes[r] \cup {<<h, c>>} /\ \A q \in Requests \ {r} : votes'[q] = votes[q]
  BY DEF TypeOK, OutsideTypeOK
<1>2. Voters(r)' = Voters(r) \cup {h}
  <2>1. Voters(r)' = {v[1] : v \in votes[r] \cup {<<h, c>>}}
    BY <1>1, Zenon DEF Voters
  <2>2. <<h, c>>[1] = h
    OBVIOUS
  <2>3. QED
    BY <2>1, <2>2 DEF Voters
<1>3. \A q \in Requests \ {r} : Voters(q)' = Voters(q)
  BY <1>1, Zenon DEF Voters
<1>4. QED
  BY <1>1, <1>2, <1>3, FiniteVoters, FS_AddElement
-----------------------------------------------------------------------------
(* Steps that end sessions and let messages fade: all but the ones that    *)
(* open a session, count an acceptance or are the endorsers' own.          *)

\* A message after the loss of handler h (none is lost when h is NULL).
Drifted(h, n) ==
  IF n.h = h /\ n.type = "submit" THEN [n EXCEPT !.type = "adrift"] ELSE n

LEMMA DriftedFields ==
  ASSUME NEW n \in Message, NEW h
  PROVE  LET m == Drifted(h, n)
         IN  /\ m \in Message /\ m.kind = n.kind /\ m.h = n.h /\ m.id = n.id
             /\ m.src = n.src /\ m.es = n.es
             /\ m.type = n.type \/ (m.type = "adrift" /\ n.type = "submit")
             /\ m.type # "adrift" => m = n
BY DEF Drifted, Message

LEMMA SeverDrifts ==
  ASSUME NEW M \in SUBSET Message, NEW h, NEW m \in Sever(h, M)
  PROVE  \E n \in M : m = Drifted(h, n)
<1>1. CASE m \in M /\ (m.h # h \/ m.type = "adrift")
  BY <1>1 DEF Drifted
<1>2. CASE ~(m \in M /\ (m.h # h \/ m.type = "adrift"))
  BY <1>2 DEF Sever, Drifted
<1>3. QED
  BY <1>1, <1>2

LEMMA NothingDrifts ==
  ASSUME NEW n \in Message
  PROVE  Drifted(NULL, n) = n
BY NullAssumption DEF Drifted, Message

\* A message of a request that is sent in this step.
Fresh(m) ==
  /\ m \in Message /\ req[m.src] = NULL /\ m.kind = req'[m.src]
  /\ m.type \in {"endorse", "query"} /\ (m.type = "query" <=> m.kind = "query")

Fading == \E h \in Handlers \cup {NULL} :
            \A m \in net' : (\E n \in net : m = Drifted(h, n)) \/ Fresh(m)

ReqKept == \A r \in Requests : req'[r] = req[r] \/ req[r] = NULL

\* The votes of a request may change when its session ends unsubmitted.
Dropping(S) ==
  /\ session' = Delete(S)
  /\ \A r \in Requests :
       \/ votes'[r] = votes[r]
       \/ submits[r] = 0 /\ \E id \in S \cap Live : session[id].src = r
  /\ Fading /\ ReqKept
  /\ UNCHANGED <<picked, submits, committed>>

LEMMA LiveAfterDelete ==
  ASSUME NEW S, session' = Delete(S)
  PROVE  Live' = Live \ S /\ \A id \in Live' : session'[id] = session[id]
BY DEF Delete, Freed, Live

LEMMA NothingDeleted ==
  ASSUME TypeOK, session' = session
  PROVE  session' = Delete({})
BY DEF TypeOK, ServiceTypeOK, Delete

LEMMA NetShrinks ==
  ASSUME TypeOK, net' \subseteq net
  PROVE  Fading
BY NothingDrifts DEF TypeOK, OutsideTypeOK, Fading

LEMMA NetSevered ==
  ASSUME TypeOK, NEW h \in Handlers, NEW M \in SUBSET net, net' = Sever(h, M)
  PROVE  Fading
<1>1. \A m \in net' : \E n \in M : m = Drifted(h, n)
  BY SeverDrifts DEF TypeOK, OutsideTypeOK
<1>2. QED
  BY <1>1 DEF Fading

LEMMA ArrivesKeepsReq ==
  ASSUME TypeOK, NEW r \in Requests, NEW kind \in Kinds, Arrives(r, kind)
  PROVE  /\ ReqKept /\ running /\ req[r] = NULL /\ req'[r] = kind /\ req' = [req EXCEPT ![r] = kind]
         /\ \A q \in Requests \ {r} : req'[q] = req[q]
BY DEF TypeOK, OutsideTypeOK, Arrives, ReqKept
-----------------------------------------------------------------------------
LEMMA OnDscMsgDrops ==
  ASSUME EndorseInv, NEW r \in Requests, OnDscMsg(r),
         ~\E kind \in Kinds : StartEndorse(kind, r),
         ~\E h \in Handlers : StartQuery(r, h)
  PROVE  \E S : Dropping(S)
<1>1. TypeOK
  BY DEF EndorseInv, IInv
<1>2. AllocSessionID \in SessionIDs
  BY <1>1, NextId DEF TypeOK, ServiceTypeOK
<1>3. ASSUME NEW kind \in Kinds, TooFewPeers(kind, r) \/ BadRequest(kind, r)
      PROVE  Dropping({})
  <2>1. Arrives(r, kind) /\ UNCHANGED <<session, net, history>>
    BY <1>3 DEF TooFewPeers, BadRequest, Reject
  <2>2. QED
    BY <1>1, <2>1, ArrivesKeepsReq, NothingDeleted, NetShrinks DEF Dropping, history
<1>4. ASSUME NEW p \in Peers, QueryNoPeer(r, p)
      PROVE  Dropping({})
  <2>1. Arrives(r, "query") /\ UNCHANGED <<session, net, history>>
    BY <1>4 DEF QueryNoPeer, Reject
  <2>2. QED
    BY <1>1, <2>1, ArrivesKeepsReq, NothingDeleted, NetShrinks DEF Dropping, history, Kinds
<1>5. ASSUME NEW kind \in Kinds, StartEndorseFails(kind, r)
      PROVE  \E S : Dropping(S)
  <2>1. PICK S \in Selections : \E f \in S : \E sent \in SUBSET (S \ {f}) :
          /\ LoseHandler(f)
          /\ net' = Sever(f, net)
                      \cup {Msg("endorse", kind, g, AllocSessionID, r, NULL) : g \in sent}
    BY <1>5 DEF StartEndorseFails
  <2>2. PICK f \in S, sent \in SUBSET S :
          /\ LoseHandler(f)
          /\ net' = Sever(f, net)
                      \cup {Msg("endorse", kind, g, AllocSessionID, r, NULL) : g \in sent}
    BY <2>1
  <2>3. S \subseteq Handlers /\ sent \subseteq Handlers /\ f \in Handlers
    BY <1>1, <2>2 DEF Selections, TypeOK, ServiceTypeOK
  <2>4. /\ kind # "query" /\ Arrives(r, kind) /\ UNCHANGED history
    BY <1>5 DEF StartEndorseFails
  <2>5. ReqKept /\ req[r] = NULL /\ req'[r] = kind
    BY <1>1, <2>4, ArrivesKeepsReq
  <2>6. \A g \in sent : Fresh(Msg("endorse", kind, g, AllocSessionID, r, NULL))
    BY <1>2, <2>3, <2>4, <2>5 DEF Msg, Message, Fresh
  <2>7. \A m \in Sever(f, net) : \E n \in net : m = Drifted(f, n)
    BY <1>1, SeverDrifts DEF TypeOK, OutsideTypeOK
  <2>8. Fading
    BY <2>2, <2>3, <2>6, <2>7 DEF Fading
  <2>9. Dropping(LostSessions(f))
    BY <2>2, <2>4, <2>5, <2>8 DEF Dropping, LoseHandler, history
  <2>10. QED
    BY <2>9
<1>6. ASSUME NEW h \in Handlers, QuerySendFails(r, h)
      PROVE  Dropping(LostSessions(h))
  <2>1. Arrives(r, "query") /\ net' = Sever(h, net) /\ LoseHandler(h) /\ UNCHANGED history
    BY <1>6 DEF QuerySendFails
  <2>2. ReqKept /\ Fading
    BY <1>1, <2>1, ArrivesKeepsReq, NetSevered DEF Kinds
  <2>3. QED
    BY <2>1, <2>2 DEF Dropping, LoseHandler, history
<1>7. QED
  BY <1>3, <1>4, <1>5, <1>6 DEF OnDscMsg

\* The votes of a session that accepts once more and ends, unsubmitted.
LEMMA LastVote ==
  ASSUME EndorseInv, NEW m \in net, NEW c \in Contents, Accepting(m, c)
  PROVE  /\ m.id \in Live
         /\ \A r \in Requests :
              votes'[r] = votes[r] \/ (submits[r] = 0 /\ session[m.id].src = r)
<1>1. running /\ m.type = "endorse" /\ m.id \in map[m.kind]
  BY DEF Accepting, Arrived
<1>2. /\ m.src \in Requests /\ session[m.id].src = m.src /\ submits[m.src] = 0
      /\ m.id \in Live
  BY <1>1, MeetsSession, EndorsementMissing DEF EndorseInv
<1>3. votes \in [Requests -> SUBSET (Handlers \X Contents)]
  BY DEF EndorseInv, IInv, TypeOK, OutsideTypeOK
<1>4. QED
  BY <1>2, <1>3 DEF Accepting

LEMMA OnHtsMsgDrops ==
  ASSUME EndorseInv, NEW m \in net, OnHtsMsg(m),
         ~\E c \in Contents : EndorseWaits(m, c) \/ Submit(m, c)
  PROVE  \E S : Dropping(S)
<1>1. TypeOK
  BY DEF EndorseInv, IInv
<1>2. ASSUME NEW code, EndSession(m.id, code), net' = net \ {m},
             UNCHANGED <<req, history>>
      PROVE  Dropping({m.id})
  BY <1>1, <1>2, NetShrinks DEF Dropping, EndSession, ReqKept, history
<1>3. CASE NoSession(m)
  <2>1. UNCHANGED <<session, req, history>> /\ net' \subseteq net
    BY <1>3 DEF NoSession
  <2>2. Dropping({})
    BY <1>1, <2>1, NothingDeleted, NetShrinks DEF Dropping, ReqKept, history
  <2>3. QED
    BY <2>2
<1>4. CASE EndorseFails(m) \/ OnSubmitRsp(m) \/ OnQueryRsp(m)
  <2>1. /\ \E code : EndSession(m.id, code)
        /\ net' = net \ {m} /\ UNCHANGED <<req, history>>
    BY <1>4 DEF EndorseFails, OnSubmitRsp, OnQueryRsp
  <2>2. QED
    BY <1>2, <2>1
<1>5. ASSUME NEW c \in Contents, EndorseMismatch(m, c)
      PROVE  Dropping({m.id})
  BY <1>2, <1>5 DEF EndorseMismatch
<1>6. ASSUME NEW c \in Contents, SubmitEncryptFails(m, c)
      PROVE  Dropping({m.id})
  <2>1. /\ \E code : EndSession(m.id, code)
        /\ net' = net \ {m} /\ UNCHANGED <<req, picked, submits, committed>>
        /\ Accepting(m, c)
    BY <1>6 DEF SubmitEncryptFails
  <2>2. QED
    BY <1>1, <2>1, LastVote, NetShrinks DEF Dropping, EndSession, ReqKept
<1>7. ASSUME NEW c \in Contents, SubmitSendFails(m, c)
      PROVE  \E S : Dropping(S)
  <2> DEFINE h == session[m.id].handler
  <2>1. /\ Accepting(m, c) /\ LoseHandler(h) /\ net' = Sever(h, net \ {m})
        /\ UNCHANGED <<req, picked, submits, committed>>
    BY <1>7 DEF SubmitSendFails
  <2>2. m.id \in Live
    BY <2>1, MeetsSession DEF EndorseInv, Accepting, Arrived
  <2>3. h \in Handlers /\ m.id \in LostSessions(h)
    BY <2>2, LiveSession DEF EndorseInv, IInv, Linked, LostSessions, Live
  <2>4. Fading
    BY <1>1, <2>1, <2>3, NetSevered
  <2>5. Dropping(LostSessions(h))
    BY <2>1, <2>3, <2>4, LastVote DEF Dropping, LoseHandler, ReqKept
  <2>6. QED
    BY <2>5
<1>8. QED
  BY <1>3, <1>4, <1>5, <1>6, <1>7 DEF OnHtsMsg

LEMMA OthersDrop ==
  ASSUME EndorseInv,
         \/ \E id \in SessionIDs : OnTimeOut(id)
         \/ \E h \in Handlers : OnConnectedNodify(h) \/ OnNetworkError(h)
         \/ OnExit
  PROVE  \E S : Dropping(S)
<1>1. TypeOK
  BY DEF EndorseInv, IInv
<1>2. ASSUME NEW id \in SessionIDs, OnTimeOut(id)
      PROVE  Dropping({id})
  BY <1>1, <1>2, NetShrinks DEF OnTimeOut, EndSession, Dropping, ReqKept, history
<1>3. ASSUME NEW h \in Handlers, OnConnectedNodify(h)
      PROVE  Dropping({})
  BY <1>1, <1>3, NothingDeleted, NetShrinks DEF OnConnectedNodify, Dropping, ReqKept, history
<1>4. ASSUME NEW h \in Handlers, OnNetworkError(h)
      PROVE  Dropping(LostSessions(h))
  BY <1>1, <1>4, NetSevered DEF OnNetworkError, LoseHandler, Dropping, ReqKept, history
<1>5. ASSUME OnExit
      PROVE  Dropping(Mapped)
  BY <1>1, <1>5, NetShrinks DEF OnExit, Dropping, ReqKept, history
<1>6. QED
  BY <1>2, <1>3, <1>4, <1>5
-----------------------------------------------------------------------------
(* What a step that only ends sessions keeps. *)

LEMMA CountsFrame ==
  ASSUME NEW id, NEW r, r = session[id].src, CountsVotes(id), session'[id] = session[id],
         picked'[r] = picked[r], votes'[r] = votes[r], submits'[r] = submits[r],
         Endorses(r)' \subseteq Endorses(r)
  PROVE  CountsVotes(id)'
<1>1. Voters(r)' = Voters(r)
  BY DEF Voters
<1>2. QED
  BY <1>1 DEF CountsVotes

LEMMA DroppingKindsFit ==
  ASSUME IInv, KindsFit, NEW S, Dropping(S)
  PROVE  KindsFit'
<1>1. PICK h \in Handlers \cup {NULL} :
        \A m \in net' : (\E n \in net : m = Drifted(h, n)) \/ Fresh(m)
  BY DEF Dropping, Fading
<1>2. \A r \in Requests : req[r] \in Kinds => req'[r] = req[r]
  BY NullAssumption DEF Dropping, ReqKept
<1>3. ASSUME NEW m \in net'
      PROVE  m.kind = req'[m.src] /\ (m.type = "query" <=> m.kind = "query")
  <2>1. CASE Fresh(m)
    BY <2>1 DEF Fresh
  <2>2. CASE ~Fresh(m)
    <3>1. PICK n \in net : m = Drifted(h, n)
      BY <1>1, <2>2
    <3>2. n \in Message /\ n.kind = req[n.src] /\ (n.type = "query" <=> n.kind = "query")
      BY DEF IInv, TypeOK, OutsideTypeOK, KindsFit
    <3>3. n.src \in Requests /\ n.kind \in Kinds
      BY <3>2 DEF Message
    <3>4. /\ m.kind = n.kind /\ m.src = n.src
          /\ m.type = n.type \/ (m.type = "adrift" /\ n.type = "submit")
      BY <3>1, <3>2, DriftedFields
    <3>5. QED
      BY <1>2, <3>2, <3>3, <3>4
  <2>3. QED
    BY <2>1, <2>2
<1>4. ASSUME NEW id \in Live'
      PROVE  session'[id].kind = req'[session'[id].src]
  <2>1. id \in Live /\ session'[id] = session[id] /\ session[id].kind \in Kinds
    BY LiveAfterDelete, LiveSession DEF Dropping
  <2>2. session[id].src \in Requests
    BY <2>1, LiveSession
  <2>3. session[id].kind = req[session[id].src]
    BY <2>1 DEF KindsFit
  <2>4. QED
    BY <1>2, <2>1, <2>2, <2>3
<1>5. QED
  BY <1>3, <1>4 DEF KindsFit

LEMMA DroppingNoHistory ==
  ASSUME IInv, NoHistory, NEW S, Dropping(S)
  PROVE  NoHistory'
<1> SUFFICES ASSUME NEW r \in Requests
             PROVE  /\ req'[r] = NULL =>
                         picked'[r] = {} /\ votes'[r] = {} /\ submits'[r] = 0
                    /\ req'[r] = "query" => submits'[r] = 0
  BY DEF NoHistory
<1>1. (req'[r] = req[r] \/ req[r] = NULL) /\ UNCHANGED <<picked, submits>>
  BY DEF Dropping, ReqKept
<1>2. CASE req[r] = NULL
  <2>1. \A id \in Live : session[id].src # r
    BY <1>2, LiveSession
  <2>2. votes'[r] = votes[r]
    BY <2>1 DEF Dropping
  <2>3. QED
    BY <1>1, <1>2, <2>2 DEF NoHistory
<1>3. CASE req[r] # NULL
  BY <1>1, <1>3 DEF NoHistory
<1>4. QED
  BY <1>2, <1>3

LEMMA DroppingVotesCounted ==
  ASSUME IInv, VotesCounted, NEW S, Dropping(S)
  PROVE  VotesCounted'
<1> SUFFICES ASSUME NEW id \in Live', session'[id].kind # "query"
             PROVE  CountsVotes(id)'
  BY DEF VotesCounted
<1>0. PICK r : r = session[id].src
  OBVIOUS
<1>1. id \in Live \ S /\ session'[id] = session[id]
  BY LiveAfterDelete DEF Dropping
<1>2. CountsVotes(id)
  BY <1>1 DEF VotesCounted
<1>3. r \in Requests /\ req[r] # NULL
  BY <1>0, <1>1, LiveSession
<1>4. picked'[r] = picked[r] /\ submits'[r] = submits[r]
  BY DEF Dropping
<1>5. votes'[r] = votes[r]
  BY <1>0, <1>1, <1>3 DEF Dropping, IInv, OneAnswer
<1>6. Endorses(r)' \subseteq Endorses(r)
  <2> SUFFICES ASSUME NEW m \in net', m.type = "endorse", m.src = r
               PROVE  m \in net
    BY DEF Endorses
  <2>1. ~Fresh(m)
    BY <1>3 DEF Fresh
  <2>2. PICK h \in Handlers \cup {NULL} : \E n \in net : m = Drifted(h, n)
    BY <2>1 DEF Dropping, Fading
  <2>3. PICK n \in net : m = Drifted(h, n)
    BY <2>2
  <2>4. n \in Message
    BY DEF IInv, TypeOK, OutsideTypeOK
  <2>5. QED
    BY <2>3, <2>4, DriftedFields
<1>7. QED
  BY <1>0, <1>1, <1>2, <1>4, <1>5, <1>6, CountsFrame

LEMMA DroppingSubmitsEndorsed ==
  ASSUME SubmitsEndorsed, NEW S, Dropping(S)
  PROVE  SubmitsEndorsed'
<1> SUFFICES ASSUME NEW r \in Requests
             PROVE  submits'[r] \in {0, 1} /\ (submits'[r] = 1 => FullyEndorsed(r)')
  BY DEF SubmitsEndorsed
<1>1. submits' = submits /\ picked' = picked
  BY DEF Dropping
<1>2. submits[r] = 1 => votes'[r] = votes[r] /\ FullyEndorsed(r)
  BY DEF Dropping, SubmitsEndorsed
<1>3. QED
  BY <1>1, <1>2 DEF SubmitsEndorsed, FullyEndorsed, Voters

\* The messages after a submission fade without doubling.
LEMMA FadingFates ==
  ASSUME IInv, OneFate, Fading, UNCHANGED <<picked, submits, committed>>
  PROVE  OneFate'
<1>1. PICK h \in Handlers \cup {NULL} :
        \A m \in net' : (\E n \in net : m = Drifted(h, n)) \/ Fresh(m)
  BY DEF Fading
<1>2. \A m \in Lates' : \E n \in Lates : m = Drifted(h, n)
  <2> SUFFICES ASSUME NEW m \in net', m.type \in LateTypes
               PROVE  \E n \in Lates : m = Drifted(h, n)
    BY DEF Lates
  <2>1. ~Fresh(m)
    BY DEF Fresh, LateTypes
  <2>2. PICK n \in net : m = Drifted(h, n)
    BY <1>1, <2>1
  <2>3. n.type \in LateTypes
    BY <2>2, DriftedFields DEF LateTypes, IInv, TypeOK, OutsideTypeOK
  <2>4. QED
    BY <2>2, <2>3 DEF Lates
<1>3. \A n \in Lates : n \in Message
  BY DEF Lates, IInv, TypeOK, OutsideTypeOK
<1>4. \A m \in Lates' : /\ submits'[m.src] = 1
                        /\ m.es = m.h /\ m.h \in picked'[m.src]
                        /\ m.type = "committed" <=> m.src \in committed'
  <2> SUFFICES ASSUME NEW m \in Lates'
               PROVE  /\ submits[m.src] = 1
                      /\ m.es = m.h /\ m.h \in picked[m.src]
                      /\ m.type = "committed" <=> m.src \in committed
    BY Zenon
  <2>1. PICK n \in Lates : m = Drifted(h, n)
    BY <1>2
  <2>2. /\ m.src = n.src /\ m.h = n.h /\ m.es = n.es
        /\ m.type = n.type \/ (m.type = "adrift" /\ n.type = "submit")
    BY <1>3, <2>1, DriftedFields
  <2>3. QED
    BY <2>2 DEF OneFate
<1>5. \A m, n \in Lates' : m.src = n.src => m = n
  <2> SUFFICES ASSUME NEW m \in Lates', NEW n \in Lates', m.src = n.src
               PROVE  m = n
    OBVIOUS
  <2>1. PICK k \in Lates, l \in Lates : m = Drifted(h, k) /\ n = Drifted(h, l)
    BY <1>2
  <2>2. k.src = l.src
    BY <1>3, <2>1, DriftedFields
  <2>3. k = l
    BY <2>2 DEF OneFate
  <2>4. QED
    BY <2>1, <2>3
<1>6. \A r \in committed' : submits'[r] = 1
  BY DEF OneFate
<1>7. QED
  BY <1>4, <1>5, <1>6, Zenon DEF OneFate

LEMMA DroppingStep ==
  ASSUME EndorseInv, NEW S, Dropping(S)
  PROVE  /\ KindsFit' /\ NoHistory' /\ VotesCounted' /\ SubmitsEndorsed'
         /\ OneFate'
<1>1. OneFate'
  BY FadingFates DEF EndorseInv, Dropping
<1>2. QED
  BY <1>1, DroppingKindsFit, DroppingNoHistory, DroppingVotesCounted, DroppingSubmitsEndorsed
     DEF EndorseInv
-----------------------------------------------------------------------------
(* A new session. *)

\* Nothing stands for a request that is not sent yet.
LEMMA NothingYet ==
  ASSUME EndorseInv, NEW r \in Requests, req[r] = NULL
  PROVE  /\ \A m \in net : m \in Message /\ m.src # r /\ m.src \in Requests
         /\ \A id \in Live : session[id].src # r
         /\ picked[r] = {} /\ votes[r] = {} /\ submits[r] = 0
<1>1. \A m \in net : m \in Message /\ m.kind = req[m.src]
  BY DEF EndorseInv, IInv, TypeOK, OutsideTypeOK, KindsFit
<1>2. \A m \in net : m.src # r /\ m.src \in Requests
  BY <1>1, NullAssumption DEF Message
<1>3. \A id \in Live : session[id].src # r
  BY LiveSession DEF EndorseInv
<1>4. QED
  BY <1>1, <1>2, <1>3 DEF EndorseInv, NoHistory

LEMMA OpenedSession ==
  ASSUME IInv, NEW r \in Requests, req[r] = NULL, NEW s, s.kind \in Kinds,
         OpenSession(AllocSessionID, s)
  PROVE  /\ AllocSessionID \in SessionIDs /\ AllocSessionID \notin Live
         /\ Live' = Live \cup {AllocSessionID}
         /\ session'[AllocSessionID] = s
         /\ \A id \in Live : session'[id] = session[id]
<1>1. AllocSessionID \in SessionIDs /\ ~InUse(AllocSessionID)
  BY NextIdFree DEF IInv, TypeOK, ServiceTypeOK
<1>2. session[AllocSessionID].kind = "free" /\ "free" \notin Kinds
  BY <1>1 DEF InUse, Kinds
<1>3. session' = [session EXCEPT ![AllocSessionID] = s] /\ DOMAIN session = SessionIDs
  BY DEF OpenSession, IInv, TypeOK, ServiceTypeOK
<1>4. QED
  BY <1>1, <1>2, <1>3 DEF Live

LEMMA OpeningKindsFit ==
  ASSUME EndorseInv, NEW r \in Requests, NEW kind \in Kinds, Arrives(r, kind),
         NEW h, NEW es, OpenSession(AllocSessionID, NewSession(kind, r, h, es)),
         \A m \in net' : m \in net \/ Fresh(m)
  PROVE  KindsFit'
<1> DEFINE s == NewSession(kind, r, h, es)
<1>1. TypeOK /\ IInv
  BY DEF EndorseInv, IInv
<1>2. req[r] = NULL /\ req'[r] = kind /\ \A q \in Requests \ {r} : req'[q] = req[q]
  BY <1>1, ArrivesKeepsReq
<1>3. ASSUME NEW m \in net'
      PROVE  m.kind = req'[m.src] /\ (m.type = "query" <=> m.kind = "query")
  BY <1>2, NothingYet DEF Fresh, EndorseInv, KindsFit
<1>4. s.kind = kind /\ s.src = r
  BY DEF NewSession
<1>5. ASSUME NEW id \in Live'
      PROVE  session'[id].kind = req'[session'[id].src]
  <2> HIDE DEF s
  <2>1. /\ Live' = Live \cup {AllocSessionID}
        /\ session'[AllocSessionID] = s
        /\ \A i \in Live : session'[i] = session[i]
    BY <1>1, <1>2, <1>4, OpenedSession DEF s
  <2>2. CASE id = AllocSessionID
    BY <1>2, <1>4, <2>1, <2>2
  <2>3. CASE id \in Live
    <3>1. session[id].src # r /\ session[id].src \in Requests
      BY <1>1, <1>2, <2>3, NothingYet, LiveSession
    <3>2. QED
      BY <1>2, <2>1, <2>3, <3>1 DEF EndorseInv, KindsFit
  <2>4. QED
    BY <2>1, <2>2, <2>3
<1>6. QED
  BY <1>3, <1>5 DEF KindsFit

\* The other sessions count on.
LEMMA OpeningOthersCount ==
  ASSUME EndorseInv, NEW r \in Requests, NEW kind \in Kinds, Arrives(r, kind),
         NEW h, NEW es, OpenSession(AllocSessionID, NewSession(kind, r, h, es)),
         \A m \in net' : m \in net \/ m.src = r,
         \A q \in Requests \ {r} : picked'[q] = picked[q],
         UNCHANGED <<votes, submits>>,
         NEW id \in Live, session[id].kind # "query"
  PROVE  CountsVotes(id)'
<1> DEFINE s == NewSession(kind, r, h, es)
<1>1. IInv /\ TypeOK
  BY DEF EndorseInv, IInv
<1>2. req[r] = NULL /\ s.kind \in Kinds
  BY <1>1, ArrivesKeepsReq DEF NewSession
<1>3. session'[id] = session[id]
  <2> HIDE DEF s
  <2>1. OpenSession(AllocSessionID, s)
    BY DEF s
  <2>2. QED
    BY <1>1, <1>2, <2>1, OpenedSession
<1>4. PICK q \in Requests : q = session[id].src
  BY <1>1, LiveSession
<1>5. q # r
  BY <1>2, <1>4, NothingYet
<1>6. Endorses(q)' \subseteq Endorses(q)
  BY <1>5 DEF Endorses
<1>7. CountsVotes(id)
  BY DEF EndorseInv, VotesCounted
<1>8. QED
  BY <1>3, <1>4, <1>5, <1>6, <1>7, CountsFrame

LEMMA StartQueryStep ==
  ASSUME EndorseInv, NEW r \in Requests, NEW h \in Handlers, StartQuery(r, h)
  PROVE  /\ KindsFit' /\ NoHistory' /\ VotesCounted' /\ SubmitsEndorsed'
         /\ OneFate'
<1> DEFINE n == Msg("query", "query", h, AllocSessionID, r, NULL)
<1>1. /\ Arrives(r, "query") /\ net' = net \cup {n} /\ UNCHANGED history
      /\ OpenSession(AllocSessionID, NewSession("query", r, h, NULL))
  BY DEF StartQuery
<1>2. TypeOK /\ IInv /\ "query" \in Kinds
  BY DEF EndorseInv, IInv, Kinds
<1>3. req[r] = NULL /\ req'[r] = "query" /\ ReqKept
  BY <1>1, <1>2, ArrivesKeepsReq
<1>4. Fresh(n) /\ n.src = r
  <2>1. AllocSessionID \in SessionIDs
    BY <1>2, NextId DEF TypeOK, ServiceTypeOK
  <2>2. QED
    BY <1>2, <1>3, <2>1 DEF Fresh, Msg, Message
<1> HIDE DEF n
<1>5. KindsFit'
  BY <1>1, <1>2, <1>4, OpeningKindsFit
<1>6. NoHistory'
  BY <1>1, <1>3 DEF EndorseInv, NoHistory, ReqKept, history
<1>7. VotesCounted'
  <2> SUFFICES ASSUME NEW id \in Live', session'[id].kind # "query"
               PROVE  CountsVotes(id)'
    BY DEF VotesCounted
  <2>1. NewSession("query", r, h, NULL).kind = "query"
    BY DEF NewSession
  <2>2. /\ Live' = Live \cup {AllocSessionID}
        /\ session'[AllocSessionID].kind = "query"
        /\ \A i \in Live : session'[i] = session[i]
    BY <1>1, <1>2, <1>3, <2>1, OpenedSession
  <2>3. id \in Live /\ session[id].kind # "query"
    BY <2>2
  <2>4. UNCHANGED <<picked, votes, submits>> /\ \A m \in net' : m \in net \/ m.src = r
    BY <1>1, <1>4 DEF history
  <2>5. QED
    BY <1>1, <1>2, <2>3, <2>4, OpeningOthersCount
<1>8. SubmitsEndorsed'
  BY <1>1 DEF EndorseInv, SubmitsEndorsed, FullyEndorsed, Voters, history
<1>9. OneFate'
  <2>1. Fading
    BY <1>1, <1>2, <1>4, NothingDrifts DEF Fading, TypeOK, OutsideTypeOK
  <2>2. QED
    BY <1>1, <1>2, <2>1, FadingFates DEF EndorseInv, history
<1>10. QED
  BY <1>5, <1>6, <1>7, <1>8, <1>9

\* A new session for a transaction: nobody has accepted yet.
LEMMA NewCount ==
  ASSUME EndorseInv, NEW r \in Requests, NEW kind \in Kinds \ {"query"}, Arrives(r, kind),
         NEW S \in Selections, NEW h \in S, NEW es,
         OpenSession(AllocSessionID, NewSession(kind, r, h, es)),
         net' = net \cup {Msg("endorse", kind, g, AllocSessionID, r, NULL) : g \in S},
         picked' = [picked EXCEPT ![r] = S], UNCHANGED <<votes, submits>>
  PROVE  \A id : id = AllocSessionID => CountsVotes(id)'
<1> DEFINE s == NewSession(kind, r, h, es)
<1> SUFFICES ASSUME NEW id, id = AllocSessionID
             PROVE  CountsVotes(id)'
  OBVIOUS
<1>1. IInv /\ req[r] = NULL
  BY DEF EndorseInv, Arrives
<1>2. /\ s.kind = kind /\ s.src = r /\ s.handler = h /\ s.succ = 0
      /\ s.es = es /\ s.info = Empty
  BY DEF NewSession
<1>3. session'[id] = s
  <2> HIDE DEF s
  <2>1. OpenSession(AllocSessionID, s)
    BY DEF s
  <2>2. QED
    BY <1>1, <1>2, <2>1, OpenedSession
<1> HIDE DEF s
<1>4. /\ picked'[r] = S /\ votes'[r] = {} /\ submits'[r] = 0
  BY <1>1, NothingYet DEF EndorseInv, IInv, TypeOK, OutsideTypeOK
<1>5. Voters(r)' = {} /\ Cardinality({}) = 0
  BY <1>4, FS_EmptySet DEF Voters
<1>6. ASSUME NEW m \in Endorses(r)'
      PROVE  /\ m = Msg("endorse", kind, m.h, id, r, NULL)
             /\ m.h \in S
  <2>1. PICK g \in S : m = Msg("endorse", kind, g, AllocSessionID, r, NULL)
    BY <1>1, <1>6, NothingYet DEF Endorses
  <2>2. m.h = g
    BY <2>1 DEF Msg
  <2>3. QED
    BY <2>1, <2>2
<1>7. Cardinality(S) = EndorseCount /\ 0 < EndorseCount
  BY ConfigAssumption DEF Selections
<1>8. CountsVotes(id)' <=>
        LET q == s.src
        IN  /\ s.handler \in picked'[q]
            /\ Cardinality(picked'[q]) = EndorseCount
            /\ Voters(q)' \subseteq picked'[q]
            /\ s.succ = Cardinality(Voters(q)')
            /\ s.handler \in Voters(q)' => s.es = s.handler
            /\ \A v \in votes'[q] : v[2] \in {s.info, Empty}
            /\ \A m \in Endorses(q)' :
                 /\ m = Msg("endorse", s.kind, m.h, id, q, NULL)
                 /\ m.h \in picked'[q] \ Voters(q)'
            /\ submits'[q] = IF s.succ < EndorseCount THEN 0 ELSE 1
  BY <1>3 DEF CountsVotes
<1>9. QED
  BY <1>2, <1>4, <1>5, <1>6, <1>7, <1>8

LEMMA StartEndorseStep ==
  ASSUME EndorseInv, NEW r \in Requests, NEW kind \in Kinds, StartEndorse(kind, r)
  PROVE  /\ KindsFit' /\ NoHistory' /\ VotesCounted' /\ SubmitsEndorsed'
         /\ OneFate'
<1>1. PICK S \in Selections, es \in InitialEs(kind) :
        /\ \E h \in S : OpenSession(AllocSessionID, NewSession(kind, r, h, es))
        /\ net' = net \cup {Msg("endorse", kind, g, AllocSessionID, r, NULL) : g \in S}
        /\ picked' = [picked EXCEPT ![r] = S]
  BY DEF StartEndorse
<1>2. PICK h \in S : OpenSession(AllocSessionID, NewSession(kind, r, h, es))
  BY <1>1
<1>3. /\ kind # "query" /\ Arrives(r, kind) /\ UNCHANGED <<votes, submits, committed>>
  BY DEF StartEndorse
<1>4. TypeOK /\ IInv
  BY DEF EndorseInv, IInv
<1>5. req[r] = NULL /\ req'[r] = kind /\ ReqKept /\ kind # NULL
  BY <1>3, <1>4, ArrivesKeepsReq, NullAssumption
<1>6. \A q \in Requests \ {r} : picked'[q] = picked[q]
  BY <1>1, <1>4 DEF TypeOK, OutsideTypeOK
<1>7. \A m \in net' : m \in net \/ (Fresh(m) /\ m.src = r)
  <2>1. AllocSessionID \in SessionIDs /\ S \subseteq Handlers
    BY <1>4, NextId DEF TypeOK, ServiceTypeOK, Selections
  <2>2. \A g \in S : LET m == Msg("endorse", kind, g, AllocSessionID, r, NULL)
                     IN  Fresh(m) /\ m.src = r
    BY <1>3, <1>5, <2>1 DEF Fresh, Msg, Message
  <2>3. QED
    BY <1>1, <2>2
<1>8. KindsFit'
  BY <1>2, <1>3, <1>7, OpeningKindsFit
<1>9. NoHistory'
  BY <1>3, <1>5, <1>6 DEF EndorseInv, NoHistory, ReqKept
<1>10. VotesCounted'
  <2>1. NewSession(kind, r, h, es).kind = kind
    BY DEF NewSession
  <2>2. Live' = Live \cup {AllocSessionID} /\ \A i \in Live : session'[i] = session[i]
    BY <1>2, <1>4, <1>5, <2>1, OpenedSession
  <2>3. \A id : id = AllocSessionID => CountsVotes(id)'
    BY <1>1, <1>2, <1>3, NewCount
  <2>4. ASSUME NEW id \in Live, session[id].kind # "query"
        PROVE  CountsVotes(id)'
    BY <1>2, <1>3, <1>6, <1>7, <2>4, OpeningOthersCount
  <2>5. QED
    BY <2>2, <2>3, <2>4 DEF VotesCounted
<1>11. SubmitsEndorsed'
  <2> SUFFICES ASSUME NEW q \in Requests
               PROVE  submits'[q] \in {0, 1} /\ (submits'[q] = 1 => FullyEndorsed(q)')
    BY DEF SubmitsEndorsed
  <2>1. submits'[q] = submits[q] /\ votes'[q] = votes[q]
        /\ (submits[q] = 1 => FullyEndorsed(q)) /\ submits[q] \in {0, 1}
    BY <1>3 DEF EndorseInv, SubmitsEndorsed
  <2>2. submits[q] = 1 => picked'[q] = picked[q]
    BY <1>5, <1>6, NothingYet
  <2>3. QED
    BY <2>1, <2>2 DEF FullyEndorsed, Voters
<1>12. OneFate'
  <2>1. Lates' = Lates
    BY <1>1, <1>7 DEF Lates, Fresh, LateTypes
  <2>2. \A m \in Lates : m.src # r /\ m.src \in Requests
    BY <1>5, NothingYet DEF Lates
  <2>3. QED
    BY <1>3, <1>6, <2>1, <2>2, Zenon DEF EndorseInv, OneFate
<1>13. QED
  BY <1>8, <1>9, <1>10, <1>11, <1>12
-----------------------------------------------------------------------------
(* One more acceptance. *)

\* What a counted acceptance does: to a session, to the votes of its request
\* and to the number of its submissions.
CountsOne(m, c) ==
  LET t == Counted(session[m.id], m.h, c)
  IN  /\ Accepting(m, c)
      /\ session' = [session EXCEPT ![m.id] = t]
      /\ submits'[m.src] = IF t.succ < EndorseCount THEN 0 ELSE 1
      /\ \A q \in Requests \ {m.src} : submits'[q] = submits[q]
      /\ UNCHANGED <<picked, req, committed>>

\* The counted session, its request, and what held before.
LEMMA CountingFacts ==
  ASSUME EndorseInv, NEW m \in net, NEW c \in Contents, CountsOne(m, c)
  PROVE  LET s == session[m.id]
             t == Counted(s, m.h, c)
             r == m.src
         IN  /\ m \in Message /\ r \in Requests /\ m.id \in Live /\ s.src = r /\ s.kind = m.kind
             /\ m.kind # "query" /\ CountsVotes(m.id) /\ req[r] # NULL
             /\ submits[r] = 0
             /\ t.kind = s.kind /\ t.src = r /\ t.handler = s.handler /\ t.succ = s.succ + 1
             /\ session'[m.id] = t /\ \A id \in Live \ {m.id} : session'[id] = session[id]
             /\ Live' = Live
             /\ Voters(r)' = Voters(r) \cup {m.h}
             /\ votes'[r] = votes[r] \cup {<<m.h, c>>}
             /\ \A q \in Requests \ {r} : votes'[q] = votes[q]
             /\ m.h \in picked[r] /\ t.succ = Cardinality(Voters(r)') /\ t.succ \in Nat
             /\ t.es = IF m.h = s.handler THEN m.h ELSE s.es
             /\ t.info = IF s.info = Empty THEN c ELSE s.info
<1> DEFINE s == session[m.id]
           t == Counted(s, m.h, c)
           r == m.src
<1>1. Accepting(m, c) /\ session' = [session EXCEPT ![m.id] = t]
  BY DEF CountsOne
<1>2. /\ running /\ m.type = "endorse" /\ m.id \in map[m.kind]
      /\ votes' = [votes EXCEPT ![r] = @ \cup {<<m.h, c>>}]
  BY <1>1 DEF Accepting, Arrived
<1>3. IInv /\ TypeOK /\ KindsFit /\ VotesCounted
  BY DEF EndorseInv, IInv
<1>4. /\ m \in Message /\ r \in Requests /\ m.h \in Handlers
      /\ m.id \in Live /\ s.src = r /\ s.kind = m.kind
  BY <1>2, <1>3, MeetsSession
<1>5. /\ m.kind # "query" /\ CountsVotes(m.id) /\ m.h \in picked[r] /\ m.h \notin Voters(r)
      /\ submits[r] = 0
  BY <1>2, <1>3, EndorsementMissing
<1>6. s \in Session /\ req[r] # NULL /\ m.id \in SessionIDs /\ m.kind \in Kinds
  BY <1>3, <1>4, LiveSession
<1>7. /\ t.kind = s.kind /\ t.src = s.src /\ t.handler = s.handler /\ t.succ = s.succ + 1
      /\ t.info = IF s.info = Empty THEN c ELSE s.info
      /\ t.es = IF m.h = s.handler THEN m.h ELSE s.es
  BY <1>6, CountedFields
<1>8. /\ votes'[r] = votes[r] \cup {<<m.h, c>>}
      /\ Voters(r)' = Voters(r) \cup {m.h}
      /\ \A q \in Requests \ {r} : votes'[q] = votes[q]
      /\ Cardinality(Voters(r)') = Cardinality(Voters(r)) + 1
  BY <1>2, <1>3, <1>4, <1>5, VoteAdded
<1>9. s.succ = Cardinality(Voters(r)) /\ s.succ \in Nat
  BY <1>4, <1>5, <1>6 DEF CountsVotes, Session
<1> HIDE DEF s, t, r
<1>10. DOMAIN session = SessionIDs
  BY <1>3 DEF TypeOK, ServiceTypeOK
<1>11. session'[m.id] = t /\ \A id \in SessionIDs \ {m.id} : session'[id] = session[id]
  BY <1>1, <1>6, <1>10
<1>12. Live' = Live /\ \A id \in Live \ {m.id} : session'[id] = session[id]
  BY <1>4, <1>6, <1>7, <1>11 DEF Live, Kinds, s
<1>13. t.succ = Cardinality(Voters(r)') /\ t.succ \in Nat
  BY <1>7, <1>8, <1>9
<1>14. t.src = r
  BY <1>4, <1>7
<1>15. QED
  BY <1>4, <1>5, <1>6, <1>7, <1>8, <1>11, <1>12, <1>13, <1>14 DEF s, t, r

LEMMA CountingVotesCounted ==
  ASSUME EndorseInv, NEW m \in net, NEW c \in Contents, CountsOne(m, c),
         \A n \in net' : n.type = "endorse" => n \in net \ {m}
  PROVE  VotesCounted'
<1>1. IInv
  BY DEF EndorseInv
<1>2. ASSUME NEW id \in Live \ {m.id}, session[id].kind # "query"
      PROVE  CountsVotes(id)'
  <2>1. PICK q \in Requests : q = session[id].src
    BY <1>1, LiveSession
  <2>2. /\ m.id \in Live /\ session[m.id].src = m.src /\ session'[id] = session[id]
        /\ \A r \in Requests \ {m.src} : votes'[r] = votes[r]
    BY CountingFacts
  <2>3. q # m.src
    BY <1>1, <2>1, <2>2 DEF IInv, OneAnswer
  <2>4. /\ votes'[q] = votes[q] /\ picked'[q] = picked[q] /\ submits'[q] = submits[q]
    BY <2>2, <2>3 DEF CountsOne
  <2>5. Endorses(q)' \subseteq Endorses(q)
    BY DEF Endorses
  <2>6. CountsVotes(id)
    BY <1>2 DEF EndorseInv, VotesCounted
  <2>7. QED
    BY <2>1, <2>2, <2>4, <2>5, <2>6, CountsFrame
<1>3. CountsVotes(m.id)'
  <2>1. PICK s, t, r : s = session[m.id] /\ t = Counted(s, m.h, c) /\ r = m.src
    OBVIOUS
  <2>2. /\ s.src = r /\ CountsVotes(m.id)
        /\ t.kind = s.kind /\ t.src = r /\ t.handler = s.handler
        /\ session'[m.id] = t
        /\ Voters(r)' = Voters(r) \cup {m.h} /\ votes'[r] = votes[r] \cup {<<m.h, c>>}
        /\ m.h \in picked[r] /\ t.succ = Cardinality(Voters(r)')
        /\ t.es = IF m.h = s.handler THEN m.h ELSE s.es
        /\ t.info = IF s.info = Empty THEN c ELSE s.info
    BY <2>1, CountingFacts
  <2>3. /\ s.handler \in picked[r]
        /\ Cardinality(picked[r]) = EndorseCount
        /\ Voters(r) \subseteq picked[r]
        /\ s.handler \in Voters(r) => s.es = s.handler
        /\ \A v \in votes[r] : v[2] \in {s.info, Empty}
        /\ \A n \in Endorses(r) : /\ n = Msg("endorse", s.kind, n.h, m.id, r, NULL)
                                  /\ n.h \in picked[r] \ Voters(r)
    BY <2>1, <2>2 DEF CountsVotes
  <2>4. picked' = picked /\ submits'[r] = IF t.succ < EndorseCount THEN 0 ELSE 1
    BY <2>1 DEF CountsOne
  <2>5. Agrees(s, c) /\ m \in Endorses(r)
    BY <2>1 DEF CountsOne, Accepting, Arrived, Endorses
  <2>6. \A v \in votes'[r] : v[2] \in {t.info, Empty}
    BY <2>2, <2>3, <2>5 DEF Agrees
  <2>7. \A n \in Endorses(r)' : /\ n = Msg("endorse", t.kind, n.h, m.id, r, NULL)
                                /\ n.h \in picked[r] \ Voters(r)'
    <3> SUFFICES ASSUME NEW n \in Endorses(r)'
                 PROVE  /\ n = Msg("endorse", t.kind, n.h, m.id, r, NULL)
                        /\ n.h \in picked[r] \ Voters(r)'
      OBVIOUS
    <3>1. n \in Endorses(r) /\ n # m
      BY DEF Endorses
    <3>2. n.h # m.h
      BY <2>3, <2>5, <3>1
    <3>3. QED
      BY <2>2, <2>3, <3>1, <3>2
  <2>8. /\ t.handler \in picked'[r]
        /\ Cardinality(picked'[r]) = EndorseCount
        /\ Voters(r)' \subseteq picked'[r]
        /\ t.handler \in Voters(r)' => t.es = t.handler
    BY <2>2, <2>3, <2>4
  <2>9. QED
    BY <2>2, <2>4, <2>6, <2>7, <2>8 DEF CountsVotes
<1>4. QED
  BY <1>2, <1>3, CountingFacts DEF VotesCounted

LEMMA CountingSubmitsEndorsed ==
  ASSUME EndorseInv, VotesCounted', NEW m \in net, NEW c \in Contents, CountsOne(m, c)
  PROVE  SubmitsEndorsed'
<1> SUFFICES ASSUME NEW q \in Requests
             PROVE  submits'[q] \in {0, 1} /\ (submits'[q] = 1 => FullyEndorsed(q)')
  BY DEF SubmitsEndorsed
<1>1. CASE q # m.src
  <2>1. submits'[q] = submits[q] /\ votes'[q] = votes[q] /\ picked' = picked
    BY <1>1, CountingFacts DEF CountsOne
  <2>2. QED
    BY <2>1 DEF EndorseInv, SubmitsEndorsed, FullyEndorsed, Voters
<1>2. CASE q = m.src
  <2>1. PICK t : t = session'[m.id]
    OBVIOUS
  <2>2. /\ m.id \in Live' /\ t.src = q /\ t.kind # "query" /\ t.succ \in Nat
    BY <1>2, <2>1, CountingFacts
  <2>3. /\ Cardinality(picked'[q]) = EndorseCount
        /\ Voters(q)' \subseteq picked'[q]
        /\ t.succ = Cardinality(Voters(q)')
        /\ \A v \in votes'[q] : v[2] \in {t.info, Empty}
        /\ submits'[q] = IF t.succ < EndorseCount THEN 0 ELSE 1
    BY <2>1, <2>2 DEF VotesCounted, CountsVotes
  <2>4. CASE t.succ >= EndorseCount
    <3>1. IsFiniteSet(picked'[q]) /\ Cardinality(picked'[q]) \in Nat
      BY FiniteVoters DEF CountsOne, EndorseInv, IInv
    <3>2. Cardinality(Voters(q)') = Cardinality(picked'[q])
      BY <2>2, <2>3, <2>4, <3>1, FS_Subset
    <3>3. Voters(q)' = picked'[q]
      BY <2>3, <3>1, <3>2, FS_Subset
    <3>4. t.info \in Contents \cup {Empty}
      BY <2>1, CountingFacts, LiveSession DEF EndorseInv, Session
    <3>5. QED
      BY <2>3, <3>3, <3>4 DEF FullyEndorsed
  <2>5. CASE ~(t.succ >= EndorseCount)
    BY <2>2, <2>3, <2>5, ConfigAssumption
  <2>6. QED
    BY <2>4, <2>5
<1>3. QED
  BY <1>1, <1>2

LEMMA CountingKindsFit ==
  ASSUME EndorseInv, NEW m \in net, NEW c \in Contents, CountsOne(m, c),
         \A n \in net' : \/ n \in net
                         \/ n.kind = m.kind /\ n.src = m.src /\ n.type = "submit"
  PROVE  KindsFit' /\ NoHistory'
<1>1. req' = req /\ picked' = picked
  BY DEF CountsOne
<1>2. \A n \in net' : n.kind = req'[n.src] /\ (n.type = "query" <=> n.kind = "query")
  BY <1>1, CountingFacts DEF EndorseInv, KindsFit
<1>3. \A id \in Live' : session'[id].kind = req'[session'[id].src]
  BY <1>1, CountingFacts DEF EndorseInv, KindsFit
<1>4. \A q \in Requests \ {m.src} : votes'[q] = votes[q] /\ submits'[q] = submits[q]
  BY CountingFacts DEF CountsOne
<1>5. NoHistory'
  <2>1. req[m.src] # NULL /\ req[m.src] # "query"
    BY CountingFacts DEF EndorseInv, KindsFit
  <2>2. \A q \in Requests \ {m.src} :
          /\ req[q] = NULL => picked[q] = {} /\ votes[q] = {} /\ submits[q] = 0
          /\ req[q] = "query" => submits[q] = 0
    BY DEF EndorseInv, NoHistory
  <2>3. QED
    BY <1>1, <1>4, <2>1, <2>2 DEF NoHistory
<1>6. QED
  BY <1>2, <1>3, <1>5 DEF KindsFit

LEMMA EndorseWaitsStep ==
  ASSUME EndorseInv, NEW m \in net, NEW c \in Contents, EndorseWaits(m, c)
  PROVE  /\ KindsFit' /\ NoHistory' /\ VotesCounted' /\ SubmitsEndorsed'
         /\ OneFate'
<1> DEFINE t == Counted(session[m.id], m.h, c)
<1>1. /\ Accepting(m, c) /\ ~Endorsed(t) /\ session' = [session EXCEPT ![m.id] = t]
      /\ net' = net \ {m} /\ UNCHANGED <<req, picked, submits, committed>>
  BY DEF EndorseWaits
<1>2. m.src \in Requests /\ submits[m.src] = 0 /\ session[m.id] \in Session /\ m.h \in Handlers
  BY <1>1, MeetsSession, EndorsementMissing, LiveSession DEF Accepting, Arrived, EndorseInv
<1>3. t.succ < EndorseCount
  BY <1>1, <1>2, CountedKeeps, ConfigAssumption DEF Endorsed, Session
<1>4. CountsOne(m, c)
  BY <1>1, <1>2, <1>3 DEF CountsOne
<1>5. VotesCounted' /\ SubmitsEndorsed'
  BY <1>1, <1>4, CountingVotesCounted, CountingSubmitsEndorsed
<1>6. KindsFit' /\ NoHistory'
  BY <1>1, <1>4, CountingKindsFit
<1>7. OneFate'
  BY <1>1, NetShrinks, FadingFates DEF EndorseInv, IInv
<1>8. QED
  BY <1>5, <1>6, <1>7

LEMMA SubmitStep ==
  ASSUME EndorseInv, NEW m \in net, NEW c \in Contents, Submit(m, c)
  PROVE  /\ KindsFit' /\ NoHistory' /\ VotesCounted' /\ SubmitsEndorsed'
         /\ OneFate'
         /\ m.src \in Requests /\ session[m.id].src = m.src /\ m.id \in Live
         /\ submits' = [submits EXCEPT ![m.src] = 1]
<1> DEFINE s == session[m.id]
           t == Counted(s, m.h, c)
           n == Msg("submit", m.kind, t.handler, m.id, t.src, t.es)
<1>1. /\ Accepting(m, c) /\ Endorsed(t) /\ session' = [session EXCEPT ![m.id] = t]
      /\ net' = (net \ {m}) \cup {n} /\ submits' = [submits EXCEPT ![t.src] = @ + 1]
      /\ UNCHANGED <<req, picked, committed>>
  BY DEF Submit
<1>2. /\ m.src \in Requests /\ submits[m.src] = 0 /\ s \in Session /\ m.h \in Handlers
      /\ s.src = m.src /\ m.id \in Live
  BY <1>1, MeetsSession, EndorsementMissing, LiveSession DEF Accepting, Arrived, EndorseInv
<1>3. t \in Session /\ t.src = m.src /\ t.handler = s.handler
  BY <1>2, CountedKeeps
<1>4. ~(t.succ < EndorseCount)
  BY <1>1, <1>3, ConfigAssumption DEF Endorsed, Session
<1>5. submits \in [Requests -> Nat]
  BY DEF EndorseInv, IInv, TypeOK, OutsideTypeOK
<1>6. /\ submits'[m.src] = 1 /\ \A q \in Requests \ {m.src} : submits'[q] = submits[q]
      /\ submits' = [submits EXCEPT ![m.src] = 1]
  <2>1. submits' = [submits EXCEPT ![m.src] = submits[m.src] + 1]
    BY <1>1, <1>3, Zenon
  <2>2. QED
    BY <1>2, <1>5, <2>1
<1>7. CountsOne(m, c)
  BY <1>1, <1>4, <1>6 DEF CountsOne
<1>8. n.type = "submit" /\ n.kind = m.kind /\ n.src = m.src /\ n.h = t.handler /\ n.es = t.es
  BY <1>3 DEF Msg
<1>9. VotesCounted' /\ SubmitsEndorsed'
  BY <1>1, <1>7, <1>8, CountingVotesCounted, CountingSubmitsEndorsed
<1>10. KindsFit' /\ NoHistory'
  BY <1>1, <1>7, <1>8, CountingKindsFit
<1>11. t.es = t.handler /\ t.handler \in picked[m.src]
  <2>1. /\ session'[m.id] = t /\ m.id \in Live' /\ t.kind # "query"
    BY <1>7, CountingFacts
  <2>2. CountsVotes(m.id)'
    BY <1>9, <2>1 DEF VotesCounted
  <2>3. /\ t.handler \in picked'[m.src]
        /\ t.handler \in Voters(m.src)' => t.es = t.handler
    BY <1>3, <2>1, <2>2 DEF CountsVotes
  <2>4. Voters(m.src)' = picked'[m.src]
    BY <1>2, <1>6, <1>9 DEF SubmitsEndorsed, FullyEndorsed
  <2>5. QED
    BY <1>1, <2>3, <2>4
<1>12. OneFate'
  <2> HIDE DEF n, t, s
  <2>1. Lates' = Lates \cup {n}
    <3>1. m.type = "endorse"
      BY <1>1 DEF Accepting, Arrived
    <3>2. QED
      BY <1>1, <1>8, <3>1 DEF Lates, LateTypes
  <2>2. \A k \in Lates : k.src # m.src /\ k.src \in Requests
    <3>1. \A k \in Lates : k.src \in Requests
      BY DEF Lates, EndorseInv, IInv, TypeOK, OutsideTypeOK, Message
    <3>2. QED
      BY <1>2, <3>1 DEF EndorseInv, OneFate
  <2>3. m.src \notin committed
    BY <1>2 DEF EndorseInv, OneFate
  <2>4. \A k \in Lates' : /\ submits'[k.src] = 1
                          /\ k.es = k.h /\ k.h \in picked'[k.src]
                          /\ k.type = "committed" <=> k.src \in committed'
    BY <1>1, <1>6, <1>8, <1>11, <2>1, <2>2, <2>3 DEF EndorseInv, OneFate
  <2>5. \A k, l \in Lates' : k.src = l.src => k = l
    BY <1>8, <2>1, <2>2 DEF EndorseInv, OneFate
  <2>6. \A r \in committed' : submits'[r] = 1
    <3>1. committed \subseteq Requests
      BY DEF EndorseInv, IInv, TypeOK, OutsideTypeOK
    <3>2. QED
      BY <1>1, <1>6, <2>3, <3>1 DEF EndorseInv, OneFate
  <2>7. QED
    BY <2>4, <2>5, <2>6, Zenon DEF OneFate
<1>13. QED
  BY <1>2, <1>6, <1>9, <1>10, <1>12
-----------------------------------------------------------------------------
(* The endorsers' own steps. *)

LEMMA EsStep ==
  ASSUME EndorseInv, NEW m \in net, EsCommit(m) \/ EsRefuse(m)
  PROVE  /\ KindsFit' /\ NoHistory' /\ VotesCounted' /\ SubmitsEndorsed'
         /\ OneFate'
<1> DEFINE After(n, new) ==
             /\ n \in {[m EXCEPT !.type = "committed"], [m EXCEPT !.type = "refused"]}
             /\ new \in SUBSET {n} /\ net' = (net \ {m}) \cup new
             /\ \/ n.type = "committed" /\ committed' = committed \cup {m.src}
                \/ n.type = "refused" /\ committed' = committed
<1>1. PICK n, new : After(n, new)
  <2>1. \A t \in {"committed", "refused"} : [m EXCEPT !.type = t].type = t
    BY DEF EndorseInv, IInv, TypeOK, OutsideTypeOK, Message
  <2>2. CASE EsCommit(m)
    <3> DEFINE n == [m EXCEPT !.type = "committed"]
    <3>1. \E new \in SUBSET {n} : net' = (net \ {m}) \cup new
      BY <2>2 DEF EsCommit
    <3>2. n.type = "committed" /\ committed' = committed \cup {m.src}
      BY <2>1, <2>2 DEF EsCommit
    <3>3. \E new : After(n, new)
      BY <3>1, <3>2
    <3>4. QED
      BY <3>3
  <2>3. CASE EsRefuse(m)
    <3> DEFINE n == [m EXCEPT !.type = "refused"]
    <3>1. \E new \in SUBSET {n} : net' = (net \ {m}) \cup new
      BY <2>3 DEF EsRefuse
    <3>2. n.type = "refused" /\ committed' = committed
      BY <2>1, <2>3 DEF EsRefuse, history
    <3>3. \E new : After(n, new)
      BY <3>1, <3>2
    <3>4. QED
      BY <3>3
  <2>4. QED
    BY <2>2, <2>3
<1>2. /\ m.type \in {"submit", "adrift"}
      /\ UNCHANGED <<session, req, picked, votes, submits>>
  BY DEF EsCommit, EsRefuse, history
<1>3. /\ m \in Message /\ n.kind = m.kind /\ n.src = m.src /\ n.h = m.h /\ n.es = m.es
      /\ n.type \in {"committed", "refused"}
  BY <1>1 DEF EndorseInv, IInv, TypeOK, OutsideTypeOK, Message
<1>4. KindsFit'
  BY <1>1, <1>2, <1>3 DEF EndorseInv, KindsFit, Live
<1>5. NoHistory'
  BY <1>2 DEF EndorseInv, NoHistory
<1>6. SubmitsEndorsed'
  BY <1>2 DEF EndorseInv, SubmitsEndorsed, FullyEndorsed, Voters
<1>7. VotesCounted'
  <2> SUFFICES ASSUME NEW id \in Live', session'[id].kind # "query"
               PROVE  CountsVotes(id)'
    BY DEF VotesCounted
  <2>1. PICK q : q = session[id].src
    OBVIOUS
  <2>2. CountsVotes(id)
    BY <1>2 DEF Live, EndorseInv, VotesCounted
  <2>3. Endorses(q)' \subseteq Endorses(q)
    BY <1>1, <1>3 DEF Endorses
  <2>4. QED
    BY <1>2, <2>1, <2>2, <2>3, CountsFrame
<1>8. OneFate'
  <2>1. m \in Lates /\ m.src \notin committed
    BY <1>2 DEF Lates, LateTypes, EndorseInv, OneFate
  <2>2. \A k \in Lates' : k = n \/ (k \in Lates /\ k.src # m.src)
    BY <1>1, <2>1 DEF Lates, EndorseInv, OneFate
  <2>3. /\ submits[m.src] = 1 /\ m.es = m.h /\ m.h \in picked[m.src]
    BY <2>1 DEF EndorseInv, OneFate
  <2>4. \A k \in Lates' : /\ submits'[k.src] = 1
                          /\ k.es = k.h /\ k.h \in picked'[k.src]
                          /\ k.type = "committed" <=> k.src \in committed'
    BY <1>1, <1>2, <1>3, <2>1, <2>2, <2>3 DEF EndorseInv, OneFate
  <2>5. \A k, l \in Lates' : k.src = l.src => k = l
    BY <1>3, <2>2 DEF EndorseInv, OneFate
  <2>6. \A r \in committed' : submits'[r] = 1
    BY <1>1, <1>2, <2>3 DEF EndorseInv, OneFate
  <2>7. QED
    BY <2>4, <2>5, <2>6, Zenon DEF OneFate
<1>9. QED
  BY <1>4, <1>5, <1>6, <1>7, <1>8
-----------------------------------------------------------------------------
(* Every step is one of these. *)

Steps ==
  \/ \E S : Dropping(S)
  \/ \E r \in Requests, kind \in Kinds : StartEndorse(kind, r)
  \/ \E r \in Requests, h \in Handlers : StartQuery(r, h)
  \/ \E m \in net, c \in Contents : EndorseWaits(m, c)
  \/ \E m \in net, c \in Contents : Submit(m, c)
  \/ \E m \in net : EsCommit(m) \/ EsRefuse(m)

LEMMA NextSteps ==
  ASSUME EndorseInv, Next
  PROVE  Steps
<1>1. ASSUME NEW r \in Requests, OnDscMsg(r)
      PROVE  Steps
  BY <1>1, OnDscMsgDrops DEF Steps
<1>2. ASSUME NEW m \in net, OnHtsMsg(m)
      PROVE  Steps
  BY <1>2, OnHtsMsgDrops DEF Steps
<1>3. QED
  BY <1>1, <1>2, OthersDrop DEF Next, Steps

LEMMA CountsStep ==
  ASSUME EndorseInv, Next
  PROVE  /\ KindsFit' /\ NoHistory' /\ VotesCounted' /\ SubmitsEndorsed'
         /\ OneFate'
<1>1. CASE \E S : Dropping(S)
  BY <1>1, DroppingStep
<1>2. CASE \E r \in Requests, kind \in Kinds : StartEndorse(kind, r)
  BY <1>2, StartEndorseStep
<1>3. CASE \E r \in Requests, h \in Handlers : StartQuery(r, h)
  BY <1>3, StartQueryStep
<1>4. CASE \E m \in net, c \in Contents : EndorseWaits(m, c)
  BY <1>4, EndorseWaitsStep
<1>5. CASE \E m \in net, c \in Contents : Submit(m, c)
  BY <1>5, SubmitStep
<1>6. CASE \E m \in net : EsCommit(m) \/ EsRefuse(m)
  BY <1>6, EsStep
<1>7. QED
  BY <1>1, <1>2, <1>3, <1>4, <1>5, <1>6, NextSteps DEF Steps

\* A transaction that is settled and answered stays settled.
LEMMA SettledStays ==
  ASSUME EndorseInv, Next, NEW r \in Requests, rsp[r] # <<>>, Settled(r)
  PROVE  Settled(r)'
<1>1. IInv /\ TypeOK
  BY DEF EndorseInv, IInv
<1>2. CASE \E S : Dropping(S)
  <2>1. PICK h : \A m \in net' : (\E n \in net : m = Drifted(h, n)) \/ Fresh(m)
    BY <1>2 DEF Dropping, Fading
  <2>2. ASSUME NEW m \in net', m.src = r, m.type \in {"submit", "adrift"}
        PROVE  FALSE
    <3>1. PICK n \in net : m = Drifted(h, n)
      BY <2>1, <2>2 DEF Fresh
    <3>2. n \in Message
      BY <1>1 DEF TypeOK, OutsideTypeOK
    <3>3. n.src = r /\ n.type \in {"submit", "adrift"}
      BY <2>2, <3>1, <3>2, DriftedFields
    <3>4. QED
      BY <3>3 DEF Settled
  <2>3. committed' = committed
    BY <1>2 DEF Dropping
  <2>4. QED
    BY <2>2, <2>3 DEF Settled
<1>3. CASE \/ \E q \in Requests, kind \in Kinds : StartEndorse(kind, q)
           \/ \E q \in Requests, h \in Handlers : StartQuery(q, h)
           \/ \E m \in net, c \in Contents : EndorseWaits(m, c)
  <2>1. /\ committed' = committed
        /\ \A m \in net' : m \in net \/ m.type \in {"endorse", "query"}
    BY <1>3 DEF StartEndorse, StartQuery, EndorseWaits, Msg, history
  <2>2. QED
    BY <2>1 DEF Settled
<1>4. ASSUME NEW m \in net, NEW c \in Contents, Submit(m, c)
      PROVE  Settled(r)'
  <2>1. m.src # r
    BY <1>1, <1>4, SubmitStep, LiveSession
  <2>2. PICK n : net' = (net \ {m}) \cup {n} /\ n.src = m.src
    <3>1. Accepting(m, c)
      BY <1>4 DEF Submit
    <3>2. session[m.id].src = m.src /\ session[m.id] \in Session /\ m.h \in Handlers
      BY <1>1, <3>1, MeetsSession, LiveSession DEF EndorseInv, Accepting, Arrived
    <3>3. Counted(session[m.id], m.h, c).src = m.src
      BY <3>2, CountedKeeps
    <3> DEFINE t == Counted(session[m.id], m.h, c)
               n == Msg("submit", m.kind, t.handler, m.id, t.src, t.es)
    <3>4. net' = (net \ {m}) \cup {n}
      BY <1>4 DEF Submit
    <3>5. n.src = m.src
      BY <3>3 DEF Msg
    <3>6. QED
      BY <3>4, <3>5
  <2>3. committed' = committed
    BY <1>4 DEF Submit
  <2>4. QED
    BY <2>1, <2>2, <2>3 DEF Settled
<1>5. ASSUME NEW m \in net, EsCommit(m) \/ EsRefuse(m)
      PROVE  Settled(r)'
  <2>1. m.src # r
    BY <1>5 DEF EsCommit, EsRefuse, Settled
  <2>2. committed' \subseteq committed \cup {m.src}
    BY <1>5 DEF EsCommit, EsRefuse, history
  <2>3. m \in Message
    BY <1>1 DEF TypeOK, OutsideTypeOK
  <2>4. \A n \in net' : n \in net \/ n.type \in {"committed", "refused"}
    BY <1>5, <2>3 DEF EsCommit, EsRefuse, Message
  <2>5. QED
    BY <2>1, <2>2, <2>4 DEF Settled
<1>6. QED
  BY <1>2, <1>3, <1>4, <1>5, NextSteps DEF Steps

\* What was executed stays executed.
LEMMA ExecutedStays ==
  ASSUME EndorseInv, Next
  PROVE  committed \subseteq committed'
<1>1. CASE \E S : Dropping(S)
  BY <1>1 DEF Dropping
<1>2. CASE ~\E S : Dropping(S)
  BY <1>2, NextSteps DEF Steps, StartEndorse, StartQuery, EndorseWaits, Submit, EsCommit,
                         EsRefuse, history
<1>3. QED
  BY <1>1, <1>2
-----------------------------------------------------------------------------
(* What the application is told. *)

\* The answer says nothing of a transaction that is not so.
Fits(r, code) ==
  /\ code \in Codes
  /\ code = "OK" => req[r] # NULL /\ (req[r] = "query" \/ r \in committed)
  /\ code \in Refusals => req'[r] = "query" \/ Settled(r)'

Awaited(r) == req[r] = NULL \/ \E id \in Live : session[id].src = r

AnswersFit ==
  \A r \in Requests :
    \/ rsp'[r] = rsp[r]
    \/ \E code : /\ rsp[r] = <<>> /\ rsp'[r] = <<code>>
                 /\ Awaited(r) /\ Fits(r, code)

LEMMA NetworkFits ==
  ASSUME NEW r, NEW code \in {"NETWORK", "TIMEOUT", "DECODE", "DECRYPT", "NONCE"}
  PROVE  Fits(r, code)
BY DEF Fits, Codes, RspErrors, Refusals

\* Answering one request.
LEMMA AnswerOne ==
  ASSUME TypeOK, NEW r \in Requests, rsp[r] = <<>>, Awaited(r),
         NEW code, Fits(r, code),
         rsp' = Answer(r, code)
  PROVE  AnswersFit
<1>1. rsp'[r] = <<code>> /\ \A q \in Requests \ {r} : rsp'[q] = rsp[q]
  BY DEF TypeOK, OutsideTypeOK, Answer
<1>2. QED
  BY <1>1 DEF AnswersFit

LEMMA EndAnswers ==
  ASSUME EndorseInv, NEW id \in Live, NEW code, EndSession(id, code),
         Fits(session[id].src, code)
  PROVE  AnswersFit
<1>1. /\ session[id].src \in Requests /\ rsp[session[id].src] = <<>> /\ TypeOK
      /\ Awaited(session[id].src)
  BY LiveSession DEF EndorseInv, IInv, Awaited
<1>2. QED
  BY <1>1, AnswerOne DEF EndSession

\* A lost connection tells every one of its sessions the same.
LEMMA LossAnswers ==
  ASSUME EndorseInv, NEW h \in Handlers, running,
         \A r \in Requests : \/ rsp'[r] = AnswerAll(LostSessions(h), "NETWORK")[r]
                             \/ rsp[r] = <<>> /\ rsp'[r] = <<"NETWORK">> /\ Awaited(r)
  PROVE  AnswersFit
<1>1. LostSessions(h) \subseteq Live
  BY DEF LostSessions, EndorseInv, IInv, TypeOK, ServiceTypeOK, Linked, Live
<1>2. ASSUME NEW r \in Requests
      PROVE  LET a == AnswerAll(LostSessions(h), "NETWORK")[r]
             IN  a = rsp[r] \/ (rsp[r] = <<>> /\ a = <<"NETWORK">> /\ Awaited(r))
  <2>1. CASE \E id \in LostSessions(h) : session[id].src = r
    <3>1. rsp[r] = <<>>
      BY <1>1, <2>1, LiveSession DEF EndorseInv
    <3>2. AnswerAll(LostSessions(h), "NETWORK")[r] = Append(<<>>, "NETWORK")
      BY <2>1, <3>1, Zenon DEF AnswerAll
    <3>3. Awaited(r)
      BY <1>1, <2>1 DEF Awaited
    <3>4. QED
      BY <3>1, <3>2, <3>3
  <2>2. CASE ~\E id \in LostSessions(h) : session[id].src = r
    BY <2>2 DEF AnswerAll
  <2>3. QED
    BY <2>1, <2>2
<1>3. \A r \in Requests : \/ rsp'[r] = rsp[r]
                          \/ rsp[r] = <<>> /\ rsp'[r] = <<"NETWORK">> /\ Awaited(r)
  BY <1>2
<1>4. QED
  BY <1>3, NetworkFits DEF AnswersFit

\* A request that is not submitted is settled.
LEMMA UnsubmittedSettled ==
  ASSUME EndorseInv, NEW r \in Requests, submits[r] = 0,
         committed' = committed, \A n \in net' : n \in net \/ n.src # r
  PROVE  Settled(r)'
BY DEF EndorseInv, OneFate, Lates, LateTypes, Settled

LEMMA OnDscMsgFits ==
  ASSUME EndorseInv, NEW r \in Requests, OnDscMsg(r)
  PROVE  AnswersFit
<1>1. TypeOK /\ IInv
  BY DEF EndorseInv, IInv
<1>2. /\ running /\ req[r] = NULL /\ rsp[r] = <<>> /\ Awaited(r)
  BY DEF OnDscMsg, TooFewPeers, BadRequest, StartEndorse, StartEndorseFails, QueryNoPeer,
         StartQuery, QuerySendFails, Arrives, EndorseInv, IInv, UnsentUntouched, Awaited
<1>3. ASSUME NEW code \in {"NETWORK", "DECODE", "ENCRYPT"}, Reject(r, code), net' = net
      PROVE  AnswersFit
  <2>1. rsp' = Answer(r, code) /\ committed' = committed
    BY <1>3 DEF Reject, history
  <2>2. Settled(r)'
    BY <1>2, <1>3, <2>1, NothingYet, UnsubmittedSettled
  <2>3. Fits(r, code)
    BY <2>2 DEF Fits, Codes, RspErrors
  <2>4. QED
    BY <1>1, <1>2, <2>1, <2>3, AnswerOne
<1>4. ASSUME NEW kind \in Kinds, TooFewPeers(kind, r) \/ BadRequest(kind, r)
      PROVE  AnswersFit
  BY <1>3, <1>4 DEF TooFewPeers, BadRequest
<1>5. ASSUME NEW p \in Peers, QueryNoPeer(r, p)
      PROVE  AnswersFit
  BY <1>3, <1>5 DEF QueryNoPeer
<1>6. ASSUME rsp' = rsp
      PROVE  AnswersFit
  BY <1>6 DEF AnswersFit
<1>7. ASSUME NEW kind \in Kinds, StartEndorseFails(kind, r)
      PROVE  AnswersFit
  <2>1. PICK f \in Handlers : rsp' = StartFailedAnswers(r, f)
    BY <1>1, <1>7 DEF StartEndorseFails, Selections, TypeOK, ServiceTypeOK
  <2>2. PICK a : a = AnswerAll(LostSessions(f), "NETWORK")
    OBVIOUS
  <2>3. a \in [Requests -> {a[q] : q \in Requests}]
    BY <2>2 DEF AnswerAll
  <2>4. rsp' = [a EXCEPT ![r] = Append(@, "NETWORK")]
    BY <2>1, <2>2 DEF StartFailedAnswers
  <2>5. a[r] = <<>>
    <3>1. ~\E id \in LostSessions(f) : session[id].src = r
      BY <1>1, <1>2, NothingYet DEF LostSessions, TypeOK, ServiceTypeOK, IInv, Linked, Live
    <3>2. QED
      BY <1>2, <2>2, <3>1 DEF AnswerAll
  <2>6. rsp'[r] = <<"NETWORK">> /\ \A q \in Requests \ {r} : rsp'[q] = a[q]
    BY <2>3, <2>4, <2>5
  <2>7. QED
    BY <1>2, <2>1, <2>2, <2>6, LossAnswers
<1>8. ASSUME NEW h \in Handlers, QuerySendFails(r, h)
      PROVE  AnswersFit
  BY <1>2, <1>8, LossAnswers DEF QuerySendFails
<1>9. ASSUME \/ \E kind \in Kinds : StartEndorse(kind, r)
             \/ \E h \in Handlers : StartQuery(r, h)
      PROVE  AnswersFit
  BY <1>6, <1>9 DEF StartEndorse, StartQuery
<1>10. QED
  BY <1>4, <1>5, <1>7, <1>8, <1>9 DEF OnDscMsg

\* The answer to the submission is the only one of its request, and it says
\* what became of it.
LEMMA SubmitRspFits ==
  ASSUME EndorseInv, NEW m \in net, OnSubmitRsp(m)
  PROVE  AnswersFit
<1>1. PICK code \in SubmitCodes(m) : EndSession(m.id, code)
  BY DEF OnSubmitRsp
<1>2. /\ running /\ m.id \in map[m.kind] /\ m.type \in {"committed", "refused"}
      /\ net' = net \ {m} /\ UNCHANGED committed
  BY DEF OnSubmitRsp, Arrived, history
<1>3. /\ m.src \in Requests /\ m.id \in Live /\ session[m.id].src = m.src /\ req[m.src] # NULL
  BY <1>2, MeetsSession, LiveSession DEF EndorseInv
<1>4. m \in Lates
  BY <1>2 DEF Lates, LateTypes
<1>5. CASE m.type = "committed"
  <2>1. m.src \in committed
    BY <1>4, <1>5 DEF EndorseInv, OneFate
  <2>2. code \in {"OK", "DECRYPT", "DECODE", "NONCE"}
    BY <1>1, <1>5 DEF SubmitCodes
  <2>3. Fits(m.src, code)
    BY <1>3, <2>1, <2>2 DEF Fits, Codes, RspErrors, Refusals
  <2>4. QED
    BY <1>1, <1>3, <2>3, EndAnswers
<1>6. CASE m.type = "refused"
  <2>1. m.src \notin committed
    BY <1>4, <1>6 DEF EndorseInv, OneFate
  <2>2. \A n \in net' : n.src = m.src => n.type \notin {"submit", "adrift"}
    BY <1>2, <1>4, <1>6 DEF EndorseInv, OneFate, Lates, LateTypes
  <2>3. Settled(m.src)'
    BY <1>2, <2>1, <2>2 DEF Settled
  <2>4. code = "SERVER"
    BY <1>1, <1>6 DEF SubmitCodes
  <2>5. Fits(m.src, code)
    BY <2>3, <2>4 DEF Fits, Codes, RspErrors
  <2>6. QED
    BY <1>1, <1>3, <2>5, EndAnswers
<1>7. QED
  BY <1>2, <1>5, <1>6

LEMMA OnHtsMsgFits ==
  ASSUME EndorseInv, NEW m \in net, OnHtsMsg(m)
  PROVE  AnswersFit
<1>1. ASSUME rsp' = rsp
      PROVE  AnswersFit
  BY <1>1 DEF AnswersFit
\* An endorsement that fails ends a request that is not submitted.
<1>2. ASSUME NEW code \in Codes \ {"OK"}, EndSession(m.id, code), Arrived(m, {"endorse"}),
             m.id \in map[m.kind], net' = net \ {m}, committed' = committed
      PROVE  AnswersFit
  <2>1. /\ m.src \in Requests /\ m.id \in Live /\ session[m.id].src = m.src /\ submits[m.src] = 0
    BY <1>2, MeetsSession, EndorsementMissing DEF EndorseInv, Arrived
  <2>2. Settled(m.src)'
    BY <1>2, <2>1, UnsubmittedSettled
  <2>3. req[m.src] # NULL
    BY <2>1, LiveSession DEF EndorseInv
  <2>4. Fits(m.src, code)
    BY <1>2, <2>2, <2>3 DEF Fits
  <2>5. QED
    BY <1>2, <2>1, <2>4, EndAnswers
<1>3. \A code \in RspErrors \cup {"SYSTEM", "ENCRYPT"} : EndorseError(m.kind, code) \in Codes \ {"OK"}
  BY DEF RspErrors, Codes, EndorseError
<1>4. CASE EndorseFails(m)
  <2>1. PICK code \in RspErrors : EndSession(m.id, EndorseError(m.kind, code))
    BY <1>4 DEF EndorseFails
  <2>2. QED
    BY <1>2, <1>3, <1>4, <2>1 DEF EndorseFails, history
<1>5. ASSUME NEW c \in Contents, EndorseMismatch(m, c)
      PROVE  AnswersFit
  BY <1>2, <1>3, <1>5 DEF EndorseMismatch, history
<1>6. ASSUME NEW c \in Contents, SubmitEncryptFails(m, c)
      PROVE  AnswersFit
  BY <1>2, <1>3, <1>6 DEF SubmitEncryptFails, Accepting
<1>7. ASSUME NEW c \in Contents, SubmitSendFails(m, c)
      PROVE  AnswersFit
  <2>1. Accepting(m, c) /\ rsp' = AnswerAll(LostSessions(session[m.id].handler), "NETWORK")
    BY <1>7 DEF SubmitSendFails, FailedSendAnswers
  <2>2. running /\ session[m.id].handler \in Handlers
    BY <2>1, MeetsSession, LiveSession DEF Accepting, Arrived, EndorseInv
  <2>3. QED
    BY <2>1, <2>2, LossAnswers
<1>8. CASE OnQueryRsp(m)
  <2>1. PICK code \in {"OK", "SERVER", "DECRYPT", "NONCE"} : EndSession(m.id, code)
    BY <1>8 DEF OnQueryRsp
  <2>2. running /\ m.type = "query" /\ m.id \in map[m.kind] /\ req' = req
    BY <1>8 DEF OnQueryRsp, Arrived
  <2>3. /\ m.id \in Live /\ session[m.id].src = m.src /\ req[m.src] = "query"
        /\ req[m.src] # NULL
    BY <2>2, MeetsSession, LiveSession DEF EndorseInv, KindsFit
  <2>4. Fits(m.src, code)
    BY <2>2, <2>3 DEF Fits, Codes, RspErrors
  <2>5. QED
    BY <2>1, <2>3, <2>4, EndAnswers
<1>9. CASE NoSession(m) \/ \E c \in Contents : EndorseWaits(m, c) \/ Submit(m, c)
  BY <1>1, <1>9 DEF NoSession, EndorseWaits, Submit
<1>10. QED
  BY <1>4, <1>5, <1>6, <1>7, <1>8, <1>9, SubmitRspFits DEF OnHtsMsg

LEMMA NextFits ==
  ASSUME EndorseInv, Next
  PROVE  AnswersFit
<1>1. ASSUME NEW id \in SessionIDs, OnTimeOut(id)
      PROVE  AnswersFit
  <2>1. id \in Live /\ EndSession(id, "TIMEOUT")
    BY <1>1 DEF OnTimeOut, EndorseInv, IInv, Linked, Live
  <2>2. QED
    BY <2>1, NetworkFits, EndAnswers
<1>2. ASSUME NEW h \in Handlers, OnNetworkError(h)
      PROVE  AnswersFit
  BY <1>2, LossAnswers DEF OnNetworkError
<1>3. ASSUME rsp' = rsp
      PROVE  AnswersFit
  BY <1>3 DEF AnswersFit
<1>4. CASE \/ \E m \in net : EsCommit(m) \/ EsRefuse(m)
           \/ \E h \in Handlers : OnConnectedNodify(h)
           \/ OnExit
  BY <1>3, <1>4 DEF EsCommit, EsRefuse, OnConnectedNodify, OnExit
<1>5. QED
  BY <1>1, <1>2, <1>4, OnDscMsgFits, OnHtsMsgFits DEF Next
(* The inductive invariant. *)

\* What a request is does not change once it is sent.
LEMMA RequestsKept ==
  ASSUME EndorseInv, Next
  PROVE  ReqKept
<1>1. CASE \E S : Dropping(S)
  BY <1>1 DEF Dropping
<1>2. ASSUME NEW r \in Requests, NEW kind \in Kinds, Arrives(r, kind)
      PROVE  ReqKept
  BY <1>2, ArrivesKeepsReq DEF EndorseInv, IInv
<1>3. CASE \/ \E r \in Requests, kind \in Kinds : StartEndorse(kind, r)
           \/ \E r \in Requests, h \in Handlers : StartQuery(r, h)
  BY <1>2, <1>3 DEF StartEndorse, StartQuery, Kinds
<1>4. CASE \/ \E m \in net, c \in Contents : EndorseWaits(m, c)
           \/ \E m \in net, c \in Contents : Submit(m, c)
           \/ \E m \in net : EsCommit(m) \/ EsRefuse(m)
  BY <1>4 DEF EndorseWaits, Submit, EsCommit, EsRefuse, ReqKept
<1>5. QED
  BY <1>1, <1>3, <1>4, NextSteps DEF Steps

\* An answer that tells the fate of a transaction is true when it is given,
\* and stays true.
LEMMA FateToldStep ==
  ASSUME EndorseInv, Next
  PROVE  FateTold'
<1> SUFFICES ASSUME NEW r \in Requests, rsp'[r] # <<>>, req'[r] # "query"
             PROVE  /\ rsp'[r][1] = "OK" => r \in committed'
                    /\ rsp'[r][1] \in Refusals => Settled(r)'
  BY Zenon DEF FateTold
<1>1. committed \subseteq committed' /\ (req'[r] = req[r] \/ req[r] = NULL)
  BY ExecutedStays, RequestsKept DEF ReqKept
<1>2. CASE rsp'[r] = rsp[r]
  <2>1. req[r] # NULL
    BY <1>2 DEF EndorseInv, IInv, UnsentUntouched
  <2>2. /\ rsp[r][1] = "OK" => r \in committed
        /\ rsp[r][1] \in Refusals => Settled(r)
    BY <1>1, <1>2, <2>1 DEF EndorseInv, FateTold
  <2>3. QED
    BY <1>1, <1>2, <2>2, SettledStays
<1>3. CASE \E code : rsp'[r] = <<code>> /\ Fits(r, code)
  <2>1. PICK code : rsp'[r] = <<code>> /\ Fits(r, code)
    BY <1>3
  <2>2. rsp'[r][1] = code
    BY <2>1
  <2>3. QED
    BY <1>1, <2>1, <2>2 DEF Fits
<1>4. QED
  BY <1>2, <1>3, NextFits DEF AnswersFit

LEMMA InitEndorseInv ==
  ASSUME Init
  PROVE  EndorseInv
<1>1. IInv
  BY InitIInv
<1>2. Live = {} /\ net = {} /\ committed = {}
  BY DEF Init, Live, Freed
<1>3. KindsFit /\ VotesCounted /\ OneFate
  BY <1>2 DEF KindsFit, VotesCounted, OneFate, Lates
<1>4. NoHistory /\ SubmitsEndorsed /\ FateTold
  BY DEF Init, NoHistory, SubmitsEndorsed, FateTold
<1>5. QED
  BY <1>1, <1>3, <1>4 DEF EndorseInv

LEMMA NextEndorseInv ==
  ASSUME EndorseInv, [Next]_vars
  PROVE  EndorseInv'
<1>1. IInv'
  BY NextIInv DEF EndorseInv
<1>2. CASE UNCHANGED vars
  <2>1. KindsFit' /\ NoHistory' /\ SubmitsEndorsed'
    BY <1>2 DEF vars, history, EndorseInv, KindsFit, Live, NoHistory, SubmitsEndorsed,
                FullyEndorsed, Voters
  <2>2. VotesCounted'
    BY <1>2 DEF vars, history, EndorseInv, VotesCounted, Live, CountsVotes, Voters, Endorses
  <2>3. OneFate' /\ FateTold'
    BY <1>2 DEF vars, history, EndorseInv, OneFate, Lates, FateTold, Settled
  <2>4. QED
    BY <1>1, <2>1, <2>2, <2>3 DEF EndorseInv
<1>3. CASE Next
  BY <1>1, <1>3, CountsStep, FateToldStep DEF EndorseInv
<1>4. QED
  BY <1>2, <1>3

\* EndorseInv holds in every reachable state.
THEOREM EndorseInvariance == Spec => []EndorseInv
BY InitEndorseInv, NextEndorseInv, PTL DEF Spec

LEMMA EndorseInvImplies ==
  ASSUME EndorseInv
  PROVE  SubmitFullyEndorsed /\ PendingBelowCount /\ AnswerTruthful
<1>1. PendingBelowCount
  BY EndorsementMissing DEF EndorseInv, PendingBelowCount
<1>2. AnswerTruthful
  BY DEF EndorseInv, FateTold, Settled, AnswerTruthful
<1>3. ASSUME NEW r \in Requests, submits[r] = 1
      PROVE  Cardinality(EndorsedContents(r)) <= 1
  <2>1. PICK c : \A v \in votes[r] : v[2] \in {c, Empty}
    BY <1>3 DEF EndorseInv, SubmitsEndorsed, FullyEndorsed
  <2>2. EndorsedContents(r) \subseteq {c}
    BY <2>1 DEF EndorsedContents
  <2>3. IsFiniteSet({c}) /\ Cardinality({c}) = 1
    BY FS_Singleton
  <2>4. Cardinality(EndorsedContents(r)) <= Cardinality({c})
    BY <2>2, <2>3, FS_Subset
  <2>5. QED
    BY <2>3, <2>4
<1>4. ASSUME NEW m \in net, m.type = "submit"
      PROVE  m.es = m.h /\ m.h \in picked[m.src]
  BY <1>4 DEF EndorseInv, OneFate, Lates, LateTypes
<1>5. SubmitFullyEndorsed
  <2>1. \A r \in Requests :
          /\ submits[r] <= 1
          /\ submits[r] = 1 => Voters(r) = picked[r] /\ Cardinality(picked[r]) = EndorseCount
    BY DEF EndorseInv, SubmitsEndorsed, FullyEndorsed
  <2>2. QED
    BY <1>3, <1>4, <2>1 DEF SubmitFullyEndorsed
<1>6. QED
  BY <1>1, <1>2, <1>5

\* A transaction is submitted at most once, with the agreeing endorsements of
\* all EndorseCount picked endorsers, to one of them, naming the session that
\* this endorser opened.
THEOREM SubmitsFullyEndorsed == Spec => []SubmitFullyEndorsed
BY EndorseInvariance, EndorseInvImplies, PTL

\* While an endorser that was asked has not answered, its session is not
\* counted out: a mismatch in the regist handler never submits.
THEOREM PendingStaysBelowCount == Spec => []PendingBelowCount
BY EndorseInvariance, EndorseInvImplies, PTL

\* OK is only told of an executed transaction, and a refusal only of one that
\* is not executed and never will be.
THEOREM AnswersTruthful == Spec => []AnswerTruthful
BY EndorseInvariance, EndorseInvImplies, PTL
(* The service implements RequestLifecycle. *)

\* What the phase of a request means.
PhaseFacts(r) ==
  /\ phase[r] = "idle" <=> req[r] = NULL
  /\ phase[r] = "open" <=> (req[r] # NULL /\ \E id \in Live : session[id].src = r)
  /\ phase[r] = "closed" <=> (req[r] # NULL /\ \A id \in Live : session[id].src # r)
  /\ phase[r] \in {"idle", "open", "closed"}

LEMMA PhaseMeans ==
  ASSUME NEW r \in Requests
  PROVE  PhaseFacts(r)
BY DEF phase, Sessions, PhaseFacts

LEMMA NextPhaseMeans ==
  ASSUME NEW r \in Requests
  PROVE  PhaseFacts(r)'
BY PhaseMeans, PTL

\* A step opens sessions only for the request it is sent in.
LEMMA SessionsKept ==
  ASSUME EndorseInv, Next, NEW id \in Live'
  PROVE  \/ id \in Live /\ session[id].src = session'[id].src
         \/ req[session'[id].src] = NULL
<1>1. CASE \E S : Dropping(S)
  BY <1>1, LiveAfterDelete DEF Dropping
<1>2. TypeOK /\ IInv
  BY DEF EndorseInv, IInv
<1>3. ASSUME NEW r \in Requests, NEW kind \in Kinds, Arrives(r, kind),
             NEW s, s.kind = kind, s.src = r, OpenSession(AllocSessionID, s)
      PROVE  \/ id \in Live /\ session[id].src = session'[id].src
             \/ req[session'[id].src] = NULL
  <2>1. /\ \A i \in SessionIDs \ {AllocSessionID} : session'[i] = session[i]
        /\ session'[AllocSessionID] = s
    BY <1>2, <1>3, NextId DEF OpenSession, TypeOK, ServiceTypeOK
  <2>2. req[r] = NULL
    BY <1>3 DEF Arrives
  <2>3. id \in SessionIDs /\ session'[id].kind # "free"
    BY DEF Live
  <2>4. CASE id = AllocSessionID
    BY <1>3, <2>1, <2>2, <2>4
  <2>5. CASE id # AllocSessionID
    BY <2>1, <2>3, <2>5 DEF Live
  <2>6. QED
    BY <2>4, <2>5
<1>4. ASSUME NEW r \in Requests, NEW kind \in Kinds, StartEndorse(kind, r)
      PROVE  \/ id \in Live /\ session[id].src = session'[id].src
             \/ req[session'[id].src] = NULL
  <2>1. PICK h, es : OpenSession(AllocSessionID, NewSession(kind, r, h, es))
    BY <1>4 DEF StartEndorse
  <2>2. NewSession(kind, r, h, es).kind = kind /\ NewSession(kind, r, h, es).src = r
    BY DEF NewSession
  <2>3. QED
    BY <1>3, <1>4, <2>1, <2>2 DEF StartEndorse
<1>5. ASSUME NEW r \in Requests, NEW h \in Handlers, StartQuery(r, h)
      PROVE  \/ id \in Live /\ session[id].src = session'[id].src
             \/ req[session'[id].src] = NULL
  <2>1. NewSession("query", r, h, NULL).kind = "query" /\ NewSession("query", r, h, NULL).src = r
    BY DEF NewSession
  <2>2. QED
    BY <1>3, <1>5, <2>1 DEF StartQuery, Kinds
<1>6. ASSUME NEW m \in net, NEW c \in Contents, Accepting(m, c),
             session' = [session EXCEPT ![m.id] = Counted(session[m.id], m.h, c)]
      PROVE  id \in Live /\ session[id].src = session'[id].src
  <2>1. /\ m.id \in Live /\ session[m.id] \in Session
    BY <1>2, <1>6, MeetsSession, LiveSession DEF EndorseInv, Accepting, Arrived
  <2>2. Counted(session[m.id], m.h, c).src = session[m.id].src
    BY <2>1, CountedFields
  <2>3. /\ \A i \in SessionIDs \ {m.id} : session'[i] = session[i]
        /\ session'[m.id].src = session[m.id].src
    BY <1>2, <1>6, <2>1, <2>2 DEF TypeOK, ServiceTypeOK, Live
  <2>4. QED
    BY <2>1, <2>3 DEF Live
<1>7. CASE \E m \in net, c \in Contents : EndorseWaits(m, c) \/ Submit(m, c)
  BY <1>6, <1>7 DEF EndorseWaits, Submit
<1>8. CASE \E m \in net : EsCommit(m) \/ EsRefuse(m)
  BY <1>8 DEF EsCommit, EsRefuse, Live
<1>9. QED
  BY <1>1, <1>4, <1>5, <1>7, <1>8, NextSteps DEF Steps

\* Requests are sent only while the service runs.
LEMMA SentWhileRunning ==
  ASSUME Next, NEW r \in Requests, req'[r] # req[r]
  PROVE  running'
<1>1. ASSUME NEW q \in Requests, OnDscMsg(q)
      PROVE  running'
  BY <1>1 DEF OnDscMsg, TooFewPeers, BadRequest, Reject, StartEndorse, StartEndorseFails,
              QueryNoPeer, StartQuery, QuerySendFails, Arrives
<1>2. ASSUME NEW m \in net, OnHtsMsg(m)
      PROVE  req' = req
  BY <1>2 DEF OnHtsMsg, NoSession, EndorseFails, EndorseMismatch, EndorseWaits, Submit,
              SubmitEncryptFails, SubmitSendFails, OnSubmitRsp, OnQueryRsp
<1>3. QED
  BY <1>1, <1>2 DEF Next, EsCommit, EsRefuse, OnTimeOut, OnConnectedNodify, OnNetworkError,
                    OnExit

\* Every request moves along the life cycle.
LEMMA RequestMoves ==
  ASSUME EndorseInv, EndorseInv', Next, NEW r \in Requests
  PROVE  Lifecycle!Answered(r) \/ Lifecycle!Dropped(r) \/ Lifecycle!Unmoved(r)
<1>1. /\ phase[r] = "idle" <=> req[r] = NULL
      /\ phase[r] = "open" <=> (req[r] # NULL /\ \E id \in Live : session[id].src = r)
      /\ phase[r] = "closed" <=> (req[r] # NULL /\ \A id \in Live : session[id].src # r)
      /\ phase[r] \in {"idle", "open", "closed"}
  BY PhaseMeans DEF PhaseFacts
<1>2. /\ phase'[r] = "idle" <=> req'[r] = NULL
      /\ phase'[r] = "open" <=> (req'[r] # NULL /\ \E id \in Live' : session'[id].src = r)
      /\ phase'[r] = "closed" <=> (req'[r] # NULL /\ \A id \in Live' : session'[id].src # r)
      /\ phase'[r] \in {"idle", "open", "closed"}
  BY NextPhaseMeans DEF PhaseFacts
<1>3. req'[r] = req[r] \/ req[r] = NULL
  BY RequestsKept DEF ReqKept
<1>4. ASSUME NEW code, rsp[r] = <<>>, rsp'[r] = <<code>>, Awaited(r), Fits(r, code)
      PROVE  Lifecycle!Answered(r)
  <2>1. phase[r] # "closed"
    BY <1>1, <1>4 DEF Awaited
  <2>2. phase'[r] = "closed"
    <3>1. rsp'[r] # <<>>
      BY <1>4
    <3>2. req'[r] # NULL /\ \A id \in Live' : session'[id].src # r
      BY <3>1 DEF EndorseInv, IInv, UnsentUntouched, OneAnswer
    <3>3. QED
      BY <1>2, <3>2
  <2>3. Lifecycle!MayAnswer(r, code)
    <3>1. CASE code = "OK"
      BY <1>3, <1>4, <3>1 DEF Fits, Lifecycle!MayAnswer, Lifecycle!IsQuery, Refusals
    <3>2. CASE code \in Refusals
      <4>1. code # "OK"
        BY <3>2 DEF Refusals
      <4>2. r \notin committed'
        <5>1. CASE req'[r] = "query"
          BY <5>1 DEF EndorseInv, NoHistory, OneFate
        <5>2. CASE req'[r] # "query"
          BY <1>4, <3>2, <5>2 DEF Fits, Settled
        <5>3. QED
          BY <5>1, <5>2
      <4>3. r \notin committed
        BY <4>2, ExecutedStays
      <4>4. QED
        BY <3>2, <4>1, <4>2, <4>3 DEF Lifecycle!MayAnswer
    <3>3. CASE code # "OK" /\ code \notin Refusals
      BY <3>3 DEF Lifecycle!MayAnswer
    <3>4. QED
      BY <3>1, <3>2, <3>3
  <2>4. rsp'[r] = Append(rsp[r], code)
    BY <1>4
  <2>5. code \in Codes /\ (phase[r] = "idle" => code # "OK")
    BY <1>1, <1>4 DEF Fits
  <2>6. QED
    BY <2>1, <2>2, <2>3, <2>4, <2>5 DEF Lifecycle!Answered
<1>5. ASSUME rsp'[r] = rsp[r]
      PROVE  Lifecycle!Dropped(r) \/ Lifecycle!Unmoved(r)
  <2>1. CASE phase'[r] = phase[r]
    BY <1>5, <2>1 DEF Lifecycle!Unmoved
  <2>2. CASE phase[r] = "idle" /\ phase'[r] = "open"
    BY <1>5, <2>2 DEF Lifecycle!Unmoved, Lifecycle!Sent
  <2>3. CASE phase[r] = "idle" /\ phase'[r] = "closed"
    <3>1. running'
      BY <1>1, <1>2, <2>3, SentWhileRunning
    <3>2. rsp'[r] = <<>>
      BY <1>1, <1>5, <2>3 DEF EndorseInv, IInv, UnsentUntouched
    <3>3. req'[r] \in Kinds /\ Sessions(r)' = {}
      BY <1>2, <2>3 DEF EndorseInv, IInv, TypeOK, OutsideTypeOK, Sessions
    <3>4. req'[r] = "query"
      BY <3>1, <3>2, <3>3 DEF EndorseInv, IInv, OneAnswer, Kinds
    <3>5. QED
      BY <1>5, <2>3, <3>4 DEF Lifecycle!Dropped, Lifecycle!IsQuery
  <2>4. CASE phase[r] = "open" /\ phase'[r] = "closed"
    BY <1>5, <2>4 DEF Lifecycle!Dropped
  <2>5. ~(phase'[r] = "idle" /\ phase[r] # "idle")
    BY <1>1, <1>2, <1>3
  <2>6. ~(phase[r] = "closed" /\ phase'[r] = "open")
    BY <1>1, <1>2, SessionsKept
  <2>7. QED
    BY <1>1, <1>2, <2>1, <2>2, <2>3, <2>4, <2>5, <2>6
<1>6. QED
  BY <1>4, <1>5, NextFits DEF AnswersFit

\* Only an open request is submitted, and only once.
LEMMA SubmittedOpen ==
  ASSUME EndorseInv, EndorseInv', Next, NEW r \in Requests
  PROVE  \/ submits'[r] = submits[r]
         \/ submits[r] = 0 /\ submits'[r] = 1 /\ phase[r] = "open" /\ phase'[r] = "open"
<1>1. ASSUME NEW m \in net, NEW c \in Contents, Submit(m, c), submits'[r] # submits[r]
      PROVE  submits[r] = 0 /\ submits'[r] = 1 /\ phase[r] = "open" /\ phase'[r] = "open"
  <2>1. /\ session[m.id].src = m.src /\ m.id \in Live
        /\ submits' = [submits EXCEPT ![m.src] = 1] /\ m.src = r /\ submits'[r] = 1
    <3>1. /\ session[m.id].src = m.src /\ m.id \in Live
          /\ submits' = [submits EXCEPT ![m.src] = 1]
      BY <1>1, SubmitStep
    <3>2. submits \in [Requests -> Nat]
      BY DEF EndorseInv, IInv, TypeOK, OutsideTypeOK
    <3>3. QED
      BY <1>1, <3>1, <3>2
  <2>2. submits[r] = 0
    BY <1>1, <2>1 DEF EndorseInv, SubmitsEndorsed
  <2>3. req[r] # NULL
    BY <2>1, LiveSession DEF EndorseInv
  <2>4. phase[r] = "open"
    BY <2>1, <2>3, PhaseMeans DEF PhaseFacts
  <2>5. session[m.id] \in Session /\ m.id \in SessionIDs /\ session[m.id].kind # "free"
    BY <2>1, LiveSession DEF EndorseInv, Live
  <2>6. session' = [session EXCEPT ![m.id] = Counted(session[m.id], m.h, c)] /\ req' = req
    BY <1>1 DEF Submit
  <2>7. session'[m.id].src = r /\ session'[m.id].kind # "free"
    <3>1. session'[m.id] = Counted(session[m.id], m.h, c)
      BY <2>5, <2>6 DEF EndorseInv, IInv, TypeOK, ServiceTypeOK
    <3>2. QED
      BY <2>1, <2>5, <3>1, CountedFields
  <2>8. m.id \in Live' /\ req'[r] # NULL
    BY <2>3, <2>5, <2>6, <2>7 DEF Live
  <2>9. phase'[r] = "open"
    BY <2>7, <2>8, NextPhaseMeans DEF PhaseFacts
  <2>10. QED
    BY <2>1, <2>2, <2>4, <2>9
<1>2. CASE \/ \E S : Dropping(S)
           \/ \E q \in Requests, kind \in Kinds : StartEndorse(kind, q)
           \/ \E q \in Requests, h \in Handlers : StartQuery(q, h)
           \/ \E m \in net, c \in Contents : EndorseWaits(m, c)
           \/ \E m \in net : EsCommit(m) \/ EsRefuse(m)
  BY <1>2 DEF Dropping, StartEndorse, StartQuery, EndorseWaits, EsCommit, EsRefuse, history
<1>3. QED
  BY <1>1, <1>2, NextSteps DEF Steps

\* Only a submitted transaction is executed, and none that was refused.
LEMMA ExecutedOnce ==
  ASSUME EndorseInv, EndorseInv', Next
  PROVE  /\ committed \subseteq committed'
         /\ \A r \in committed' : r \in Requests /\ submits[r] = 1
         /\ \A r \in committed' \ committed : \A code \in Refusals : rsp'[r] # <<code>>
<1>1. \A r \in committed : r \in Requests /\ submits[r] = 1
  BY DEF EndorseInv, IInv, TypeOK, OutsideTypeOK, OneFate
<1>2. ASSUME NEW r \in committed' \ committed
      PROVE  r \in Requests /\ submits[r] = 1
  <2>1. PICK m \in net : EsCommit(m)
    BY <1>2, NextSteps DEF Steps, Dropping, StartEndorse, StartQuery, EndorseWaits, Submit,
                           EsRefuse, history
  <2>2. r = m.src /\ m \in Lates
    BY <1>2, <2>1 DEF EsCommit, Lates, LateTypes
  <2>3. r \in Requests
    BY <2>2 DEF Lates, EndorseInv, IInv, TypeOK, OutsideTypeOK, Message
  <2>4. QED
    BY <2>2, <2>3 DEF EndorseInv, OneFate
<1>3. ASSUME NEW r \in committed' \ committed, NEW code \in Refusals, rsp'[r] = <<code>>
      PROVE  FALSE
  <2>1. r \in Requests /\ submits'[r] = 1
    BY <1>2 DEF EndorseInv, OneFate
  <2>2. req'[r] # "query"
    BY <2>1 DEF EndorseInv, NoHistory
  <2>3. rsp'[r] # <<>> /\ rsp'[r][1] = code
    BY <1>3
  <2>4. Settled(r)'
    BY <1>3, <2>1, <2>2, <2>3 DEF EndorseInv, FateTold
  <2>5. QED
    BY <2>4 DEF Settled
<1>4. QED
  BY <1>1, <1>2, <1>3, ExecutedStays

LEMMA LifecycleStep ==
  ASSUME EndorseInv, EndorseInv', [Next]_vars
  PROVE  [Lifecycle!Move]_(Lifecycle!vars)
<1>1. CASE UNCHANGED vars
  <2>1. phase' = phase
    BY <1>1 DEF vars, phase, Sessions, Live
  <2>2. QED
    BY <1>1, <2>1 DEF vars, history, Lifecycle!vars
<1>2. CASE Next
  <2>1. \A r \in Requests : Lifecycle!Answered(r) \/ Lifecycle!Dropped(r) \/ Lifecycle!Unmoved(r)
    BY <1>2, RequestMoves
  <2>2. ASSUME NEW r \in Requests, req'[r] # req[r]
        PROVE  Lifecycle!Sent(r)
    <3>1. req[r] = NULL /\ req'[r] # NULL
      BY <1>2, <2>2, RequestsKept DEF ReqKept
    <3>2. phase[r] = "idle" /\ phase'[r] \in {"open", "closed"}
      BY <3>1, PhaseMeans, NextPhaseMeans DEF PhaseFacts
    <3>3. QED
      BY <3>2 DEF Lifecycle!Sent
  <2>3. PICK sub : sub = {r \in Requests : submits[r] > 0}
    OBVIOUS
  <2>4. PICK new : new = {r \in Requests : submits'[r] > 0}
    OBVIOUS
  <2>5. /\ \A r \in new \ sub : phase[r] = "open" /\ phase'[r] = "open"
        /\ sub \subseteq new
    <3>1. \A r \in Requests :
            \/ submits'[r] = submits[r]
            \/ submits[r] = 0 /\ submits'[r] = 1 /\ phase[r] = "open" /\ phase'[r] = "open"
      BY <1>2, SubmittedOpen
    <3>2. \A r \in Requests : submits[r] \in Nat
      BY DEF EndorseInv, IInv, TypeOK, OutsideTypeOK
    <3>3. QED
      BY <2>3, <2>4, <3>1, <3>2
  <2>6. /\ committed \subseteq committed' /\ committed' \subseteq sub
        /\ \A r \in committed' \ committed : \A code \in Refusals : rsp'[r] # <<code>>
    BY <1>2, <2>3, ExecutedOnce
  <2>7. Lifecycle!Move
    BY <2>1, <2>2, <2>3, <2>4, <2>5, <2>6, Zenon DEF Lifecycle!Move
  <2>8. QED
    BY <2>7
<1>3. QED
  BY <1>1, <1>2

\* The service keeps the promise of RequestLifecycle: every request is
\* answered at most once, a transaction is submitted only while its request
\* is open, and what the application is told of its fate is and stays true.
THEOREM ServiceImplementsLifecycle == Spec => ImplementsLifecycle
<1>1. Init => Lifecycle!Init
  <2> SUFFICES ASSUME Init
               PROVE  Lifecycle!Init
    OBVIOUS
  <2>1. phase = [r \in Requests |-> "idle"]
    BY DEF Init, phase
  <2>2. {r \in Requests : submits[r] > 0} = {}
    BY DEF Init
  <2>3. QED
    BY <2>1, <2>2 DEF Init, Lifecycle!Init
<1>2. EndorseInv /\ EndorseInv' /\ [Next]_vars => [Lifecycle!Move]_(Lifecycle!vars)
  BY LifecycleStep
<1>3. QED
  BY <1>1, <1>2, EndorseInvariance, PTL DEF Spec, ImplementsLifecycle, Lifecycle!Spec
-----------------------------------------------------------------------------
=============================================================================
