--------------------------- MODULE CryptClientProofs ---------------------------
(***************************************************************************)
(* Proofs about CryptClient: for every number of peers, endorsers,         *)
(* requests, contents and session ids that the assumptions of CryptClient  *)
(* allow, IInv is an inductive invariant, and the properties below follow. *)
(***************************************************************************)
EXTENDS CryptClientProps, FiniteSetTheorems, SequenceTheorems, TLAPS

(* Session ids. *)

\* The next id is a session id, and it is the one given out longest ago.
LEMMA NextId ==
  ASSUME m_nSessionID \in 0 .. MaxSessionID
  PROVE  /\ AllocSessionID \in SessionIDs
         /\ AllocSessionID = IF m_nSessionID = MaxSessionID THEN 1 ELSE m_nSessionID + 1
         /\ Age(AllocSessionID) = MaxSessionID - 1
<1>1. CASE m_nSessionID = MaxSessionID
  <2>1. (m_nSessionID + 1) % (MaxSessionID + 1) = 0
    BY <1>1, ConfigAssumption
  <2>2. QED
    BY <1>1, <2>1, ConfigAssumption DEF AllocSessionID, SessionIDs, Age
<1>2. CASE m_nSessionID < MaxSessionID
  <2>1. (m_nSessionID + 1) % (MaxSessionID + 1) = m_nSessionID + 1
    BY <1>2, ConfigAssumption
  <2>2. QED
    BY <1>2, <2>1, ConfigAssumption DEF AllocSessionID, SessionIDs, Age
<1>3. QED
  BY <1>1, <1>2, ConfigAssumption

\* The requests sent are fewer than the session ids as long as one is missing.
LEMMA SentBound ==
  /\ IsFiniteSet(Sent)
  /\ Cardinality(Sent) \in Nat
  /\ (\E r \in Requests : req[r] = NULL) => Cardinality(Sent) < MaxSessionID
<1>1. IsFiniteSet(Sent) /\ Cardinality(Sent) \in Nat /\ Cardinality(Requests) \in Nat
  BY IdBound, FS_Subset, FS_CardinalityType DEF Sent
<1>2. ASSUME NEW r \in Requests, req[r] = NULL
      PROVE  Cardinality(Sent) < Cardinality(Requests)
  <2>1. Sent \subseteq Requests /\ Sent # Requests
    BY <1>2 DEF Sent
  <2>2. QED
    BY <2>1, IdBound, FS_Subset, <1>1
<1>3. QED
  BY <1>1, <1>2, IdBound, ConfigAssumption

\* The next id is not in use when a request arrives.
LEMMA NextIdFree ==
  ASSUME m_nSessionID \in 0 .. MaxSessionID, IdsFresh,
         NEW r \in Requests, req[r] = NULL
  PROVE  AllocSessionID \in SessionIDs /\ ~InUse(AllocSessionID)
<1>1. Cardinality(Sent) <= MaxSessionID - 1 /\ Cardinality(Sent) \in Nat
  BY SentBound, ConfigAssumption
<1>2. QED
  BY NextId, <1>1, ConfigAssumption DEF IdsFresh
-----------------------------------------------------------------------------
(* What the handlers do to the sessions and what is linked to them. *)

Service == ServiceTypeOK /\ SessionsOwned /\ Linked

LEMMA OpenSessionStep ==
  ASSUME Service, running, running' = running, conn' = conn,
         m_nSessionID' \in 0 .. MaxSessionID,
         NEW id \in SessionIDs, session[id].kind = "free",
         NEW kind \in Kinds, NEW r \in Requests, NEW h \in conn,
         NEW es \in Handlers \cup {NULL},
         OpenSession(id, NewSession(kind, r, h, es))
  PROVE  Service'
<1> DEFINE s == NewSession(kind, r, h, es)
<1>1. s \in Session /\ s.kind = kind /\ s.src = r /\ s.handler = h /\ kind # "free"
  BY DEF NewSession, Session, Kinds, Service, ServiceTypeOK
<1>2. ServiceTypeOK'
  BY <1>1 DEF Service, ServiceTypeOK, OpenSession
<1>3. SessionsOwned'
  BY <1>1 DEF Service, ServiceTypeOK, SessionsOwned, OpenSession
<1>4. Linked'
  <2>1. \A i \in SessionIDs : session'[i] = IF i = id THEN s ELSE session[i]
    BY DEF Service, ServiceTypeOK, OpenSession
  <2>2. \A i \in SessionIDs : i \in timer' <=> session'[i].kind # "free"
    BY <1>1, <2>1 DEF Service, ServiceTypeOK, Linked, OpenSession
  <2>3. \A i \in SessionIDs, k \in Kinds : i \in map'[k] <=> session'[i].kind = k
    BY <1>1, <2>1 DEF Service, ServiceTypeOK, Linked, OpenSession, Kinds
  <2>4. \A i \in SessionIDs, g \in Handlers :
          i \in arrSession'[g] <=> session'[i].kind # "free" /\ session'[i].handler = g
    BY <1>1, <2>1 DEF Service, ServiceTypeOK, Linked, OpenSession
  <2>5. QED
    BY <2>2, <2>3, <2>4 DEF Linked
<1>5. QED
  BY <1>2, <1>3, <1>4 DEF Service

LEMMA EndSessionStep ==
  ASSUME Service, running, running' = running, conn' = conn,
         m_nSessionID' = m_nSessionID,
         NEW id \in SessionIDs, session[id].kind # "free",
         NEW code, EndSession(id, code)
  PROVE  Service'
<1>1. Freed \in Session /\ Freed.kind = "free" /\ "free" \notin Kinds
  BY DEF Freed, Session, Kinds
<1>2. ServiceTypeOK'
  BY <1>1 DEF Service, ServiceTypeOK, EndSession, CancelDscTimer, Erase, Unlink, Delete
<1>3. SessionsOwned'
  BY <1>1 DEF Service, ServiceTypeOK, SessionsOwned, EndSession, Delete
<1>4. Linked'
  BY <1>1 DEF Service, ServiceTypeOK, SessionsOwned, Linked, EndSession, CancelDscTimer,
              Erase, Unlink, Delete
<1>5. QED
  BY <1>2, <1>3, <1>4 DEF Service

LEMMA LoseHandlerStep ==
  ASSUME Service, running, running' = running, m_nSessionID' \in 0 .. MaxSessionID,
         NEW h \in conn, LoseHandler(h)
  PROVE  Service'
<1>1. Freed \in Session /\ Freed.kind = "free" /\ "free" \notin Kinds
  BY DEF Freed, Session, Kinds
<1>2. ServiceTypeOK'
  BY <1>1 DEF Service, ServiceTypeOK, LoseHandler, LostSessions, CancelDscTimer, Erase,
              Delete
<1>3. SessionsOwned'
  BY <1>1 DEF Service, ServiceTypeOK, SessionsOwned, Linked, LoseHandler, LostSessions, Delete
<1>4. Linked'
  BY <1>1 DEF Service, ServiceTypeOK, SessionsOwned, Linked, LoseHandler, LostSessions,
              CancelDscTimer, Erase, Delete
<1>5. QED
  BY <1>2, <1>3, <1>4 DEF Service
-----------------------------------------------------------------------------
(* The shapes of a step: what an action does to the sessions, the answers  *)
(* and the messages, which is all that the invariant is about.             *)

Arrival(r, kind) ==
  running /\ running' = running /\ req[r] = NULL /\ req' = [req EXCEPT ![r] = kind]

\* Every message descends from a message that was there, or carries the next
\* id for request r.
Descends(m) == m \in Message /\ \E n \in net : n.id = m.id /\ n.src = m.src

IsNew(m, r) == m \in Message /\ m.id = AllocSessionID /\ m.src = r

Carried == \A m \in net' : Descends(m)

CarriedOrNew(r) == \A m \in net' : Descends(m) \/ IsNew(m, r)

Rejecting ==
  \E r \in Requests, kind \in Kinds, code \in Codes :
    /\ Arrival(r, kind)
    /\ rsp' = Answer(r, code)
    /\ m_nSessionID' \in {m_nSessionID, AllocSessionID}
    /\ UNCHANGED <<conn, arrSession, session, map, timer, net>>

Opening ==
  \E r \in Requests, kind \in Kinds, h \in conn, es \in Handlers \cup {NULL} :
    /\ Arrival(r, kind)
    /\ m_nSessionID' = AllocSessionID
    /\ OpenSession(AllocSessionID, NewSession(kind, r, h, es))
    /\ CarriedOrNew(r)
    /\ UNCHANGED <<conn, rsp>>

\* A transaction whose sending fails is answered, a query is not.
Failing ==
  \E r \in Requests, kind \in Kinds, h \in conn :
    /\ Arrival(r, kind)
    /\ m_nSessionID' = AllocSessionID
    /\ LoseHandler(h)
    /\ \/ rsp' = StartFailedAnswers(r, h)
       \/ kind = "query" /\ rsp' = AnswerAll(LostSessions(h), "NETWORK")
    /\ CarriedOrNew(r)

Ending ==
  \E id \in SessionIDs, code \in Codes :
    /\ running /\ session[id].kind # "free"
    /\ EndSession(id, code)
    /\ Carried
    /\ UNCHANGED <<conn, m_nSessionID, running, req>>

Losing ==
  \E h \in conn :
    /\ running
    /\ LoseHandler(h)
    /\ rsp' = AnswerAll(LostSessions(h), "NETWORK")
    /\ Carried
    /\ UNCHANGED <<m_nSessionID, running, req>>

Counting ==
  \E id \in SessionIDs, s \in Session :
    /\ running /\ session[id].kind # "free"
    /\ s.kind = session[id].kind /\ s.src = session[id].src
    /\ s.handler = session[id].handler
    /\ session' = [session EXCEPT ![id] = s]
    /\ timer' \in {timer, timer \cup {id}}
    /\ Carried
    /\ UNCHANGED <<conn, arrSession, map, m_nSessionID, running, req, rsp>>

Connecting ==
  /\ \/ UNCHANGED <<conn, arrSession>>
     \/ \E h \in Handlers \ conn : /\ conn' = conn \cup {h}
                                   /\ arrSession' = [arrSession EXCEPT ![h] = {}]
  /\ Carried
  /\ UNCHANGED <<session, map, timer, m_nSessionID, running, req, rsp>>

Shape ==
  \/ Rejecting \/ Opening \/ Failing \/ Ending \/ Losing \/ Counting \/ Connecting
  \/ OnExit
-----------------------------------------------------------------------------
(* Every step of the service has one of the shapes. *)

LEMMA SeverCarries ==
  ASSUME NEW M \in SUBSET Message, NEW h \in Handlers
  PROVE  \A m \in Sever(h, M) : m \in Message /\ \E n \in M : n.id = m.id /\ n.src = m.src
<1> SUFFICES ASSUME NEW m \in Sever(h, M)
             PROVE  m \in Message /\ \E n \in M : n.id = m.id /\ n.src = m.src
  OBVIOUS
<1>1. CASE m \in M
  BY <1>1
<1>2. CASE m \notin M
  <2>1. PICK n \in M : m = [n EXCEPT !.type = "adrift"]
    BY <1>2 DEF Sever
  <2>2. m \in Message /\ n.id = m.id /\ n.src = m.src
    BY <2>1 DEF Message
  <2>3. QED
    BY <2>2
<1>3. QED
  BY <1>1, <1>2

\* A message in its map's session is the message of a live session.
LEMMA MappedIsLive ==
  ASSUME TypeOK, Linked, running, NEW m \in net, m.id \in map[m.kind]
  PROVE  /\ m \in Message /\ m.id \in SessionIDs /\ m.kind \in Kinds
         /\ session[m.id].kind = m.kind /\ session[m.id].kind # "free"
         /\ session[m.id] \in Session
BY DEF TypeOK, ServiceTypeOK, OutsideTypeOK, Linked, Message, Kinds

LEMMA CodesUsed ==
  /\ RspErrors \subseteq Codes
  /\ {"OK", "TIMEOUT", "NETWORK", "ENCRYPT", "SYSTEM"} \subseteq Codes
  /\ \A kind \in Kinds, code \in Codes : EndorseError(kind, code) \in Codes
BY DEF RspErrors, Codes, EndorseError

\* Counting an endorsement leaves a session with its request and handler.
LEMMA CountedKeeps ==
  ASSUME NEW s \in Session, NEW h \in Handlers, NEW c \in Contents
  PROVE  /\ Counted(s, h, c) \in Session
         /\ Counted(s, h, c).kind = s.kind /\ Counted(s, h, c).src = s.src
         /\ Counted(s, h, c).handler = s.handler
<1> DEFINE Same(t, u) == t \in Session /\ t.kind = u.kind /\ t.src = u.src
                         /\ t.handler = u.handler /\ t.succ = u.succ
<1>1. ASSUME NEW u \in Session, NEW info \in Contents \cup {Empty}
      PROVE  Same([u EXCEPT !.info = info], u)
  BY DEF Session
<1>2. ASSUME NEW u \in Session, NEW es \in Handlers \cup {NULL}
      PROVE  Same([u EXCEPT !.es = es], u)
  BY DEF Session
<1>3. ASSUME NEW u \in Session, NEW n \in Nat
      PROVE  LET t == [u EXCEPT !.succ = n]
             IN  t \in Session /\ t.kind = u.kind /\ t.src = u.src /\ t.handler = u.handler
  BY DEF Session
<1>4. /\ s.succ + 1 \in Nat
      /\ (IF s.info = Empty THEN c ELSE s.info) \in Contents \cup {Empty}
      /\ (IF h = s.handler THEN h ELSE s.es) \in Handlers \cup {NULL}
  BY DEF Session
<1> DEFINE a == [s EXCEPT !.info = IF s.info = Empty THEN c ELSE s.info]
           b == [a EXCEPT !.succ = s.succ + 1]
<1>5. Same(a, s)
  BY <1>1, <1>4, Zenon
<1>6. b \in Session /\ b.kind = a.kind /\ b.src = a.src /\ b.handler = a.handler
  <2> HIDE DEF a
  <2>1. QED
    BY <1>3, <1>4, <1>5, Zenon
<1> DEFINE d == [b EXCEPT !.es = IF h = s.handler THEN h ELSE s.es]
<1>7. Same(d, b)
  <2> HIDE DEF b
  <2>1. QED
    BY <1>2, <1>4, <1>6, Zenon
<1>8. Counted(s, h, c) = d
  BY DEF Counted
<1>9. QED
  <2> HIDE DEF a, b, d
  <2>1. QED
    BY <1>5, <1>6, <1>7, <1>8

LEMMA OnDscMsgShape ==
  ASSUME TypeOK, SessionsOwned, Linked, NEW r \in Requests, OnDscMsg(r)
  PROVE  Shape
<1>1. ASSUME NEW kind \in Kinds, TooFewPeers(kind, r) \/ BadRequest(kind, r)
      PROVE  Rejecting
  BY <1>1 DEF TooFewPeers, BadRequest, Reject, Arrives, Rejecting, Arrival, Codes, RspErrors
<1>2. ASSUME NEW kind \in Kinds, StartEndorse(kind, r)
      PROVE  Opening
  <2>1. PICK S \in Selections, es \in InitialEs(kind) :
          /\ \E h \in S : OpenSession(AllocSessionID, NewSession(kind, r, h, es))
          /\ net' = net \cup {Msg("endorse", kind, g, AllocSessionID, r, NULL) : g \in S}
    BY <1>2 DEF StartEndorse
  <2>2. PICK h \in S : OpenSession(AllocSessionID, NewSession(kind, r, h, es))
    BY <2>1
  <2>3. S \subseteq conn /\ conn \subseteq Handlers /\ es \in Handlers \cup {NULL}
    BY DEF Selections, InitialEs, TypeOK, ServiceTypeOK
  <2>4. AllocSessionID \in SessionIDs
    BY NextId DEF TypeOK, ServiceTypeOK
  <2>5. \A g \in S : IsNew(Msg("endorse", kind, g, AllocSessionID, r, NULL), r)
    BY <2>3, <2>4 DEF Msg, IsNew, Message
  <2>6. CarriedOrNew(r)
    BY <2>1, <2>5 DEF CarriedOrNew, Descends, TypeOK, OutsideTypeOK
  <2>7. QED
    BY <1>2, <2>2, <2>3, <2>6 DEF Opening, StartEndorse, Arrives, Arrival
<1>3. ASSUME NEW kind \in Kinds, StartEndorseFails(kind, r)
      PROVE  Failing
  <2>1. PICK S \in Selections, f \in conn, sent \in SUBSET conn :
          /\ LoseHandler(f)
          /\ rsp' = StartFailedAnswers(r, f)
          /\ net' = Sever(f, net)
                      \cup {Msg("endorse", kind, g, AllocSessionID, r, NULL) : g \in sent}
    BY <1>3 DEF StartEndorseFails, Selections
  <2>2. conn \subseteq Handlers /\ AllocSessionID \in SessionIDs
    BY NextId DEF TypeOK, ServiceTypeOK
  <2>3. \A g \in sent : IsNew(Msg("endorse", kind, g, AllocSessionID, r, NULL), r)
    BY <2>2 DEF Msg, IsNew, Message
  <2>4. \A m \in Sever(f, net) : Descends(m)
    BY <2>2, SeverCarries DEF Descends, TypeOK, OutsideTypeOK
  <2>5. CarriedOrNew(r)
    BY <2>1, <2>3, <2>4 DEF CarriedOrNew
  <2>6. QED
    BY <1>3, <2>1, <2>5 DEF Failing, StartEndorseFails, Arrives, Arrival
<1>4. ASSUME NEW p \in Peers, QueryNoPeer(r, p)
      PROVE  Rejecting
  BY <1>4 DEF QueryNoPeer, Reject, Arrives, Rejecting, Arrival, Codes, RspErrors, Kinds
<1>5. ASSUME NEW h \in Handlers, StartQuery(r, h)
      PROVE  Opening
  <2>1. AllocSessionID \in SessionIDs
    BY NextId DEF TypeOK, ServiceTypeOK
  <2>2. IsNew(Msg("query", "query", h, AllocSessionID, r, NULL), r)
    BY <2>1 DEF Msg, IsNew, Message, Kinds
  <2>3. CarriedOrNew(r)
    BY <1>5, <2>2 DEF StartQuery, CarriedOrNew, Descends, TypeOK, OutsideTypeOK
  <2>4. QED
    BY <1>5, <2>3 DEF Opening, StartQuery, Arrives, Arrival, Kinds
<1>6. ASSUME NEW h \in Handlers, QuerySendFails(r, h)
      PROVE  Failing
  <2>1. \A m \in Sever(h, net) : Descends(m)
    BY SeverCarries DEF Descends, TypeOK, OutsideTypeOK
  <2>2. CarriedOrNew(r)
    BY <1>6, <2>1 DEF QuerySendFails, CarriedOrNew
  <2>3. QED
    BY <1>6, <2>2 DEF Failing, QuerySendFails, Arrives, Arrival, Kinds
<1>7. QED
  BY <1>1, <1>2, <1>3, <1>4, <1>5, <1>6 DEF OnDscMsg, Shape

LEMMA OnHtsMsgShape ==
  ASSUME TypeOK, SessionsOwned, Linked, OwnMessages, NEW m \in net, OnHtsMsg(m)
  PROVE  Shape
<1>1. ASSUME net' = net \ {m}
      PROVE  Carried
  BY <1>1 DEF Carried, Descends, TypeOK, OutsideTypeOK
<1>2. ASSUME running, m.id \in map[m.kind], net' = net \ {m},
             NEW code \in Codes, EndSession(m.id, code),
             UNCHANGED <<conn, m_nSessionID, running, req>>
      PROVE  Ending
  BY <1>1, <1>2, MappedIsLive DEF Ending
<1>3. CASE NoSession(m)
  <2>1. Connecting
    BY <1>1, <1>3 DEF NoSession, Connecting
  <2>2. QED
    BY <2>1 DEF Shape
<1>4. CASE EndorseFails(m)
  <2>1. PICK code \in RspErrors : EndSession(m.id, EndorseError(m.kind, code))
    BY <1>4 DEF EndorseFails
  <2>2. Ending
    BY <1>2, <1>4, <2>1, CodesUsed, MappedIsLive DEF EndorseFails, Arrived
  <2>3. QED
    BY <2>2 DEF Shape
<1>5. ASSUME NEW c \in Contents, EndorseMismatch(m, c)
      PROVE  Shape
  <2>1. Ending
    BY <1>2, <1>5, CodesUsed, MappedIsLive DEF EndorseMismatch, Arrived
  <2>2. QED
    BY <2>1 DEF Shape
<1>6. ASSUME NEW c \in Contents, SubmitEncryptFails(m, c)
      PROVE  Shape
  <2>1. Ending
    BY <1>2, <1>6, CodesUsed, MappedIsLive DEF SubmitEncryptFails, Accepting, Arrived
  <2>2. QED
    BY <2>1 DEF Shape
<1>7. ASSUME NEW c \in Contents, Accepting(m, c)
      PROVE  LET s == Counted(session[m.id], m.h, c)
             IN  /\ s \in Session /\ s.kind = session[m.id].kind
                 /\ s.src = session[m.id].src /\ s.handler = session[m.id].handler
  <2>1. session[m.id] \in Session /\ m.h \in Handlers
    BY <1>7, MappedIsLive DEF Accepting, Arrived, Message
  <2>2. QED
    BY <2>1, CountedKeeps
<1>8. ASSUME NEW c \in Contents, EndorseWaits(m, c)
      PROVE  Shape
  <2>1. Counting
    BY <1>1, <1>7, <1>8, MappedIsLive DEF EndorseWaits, Accepting, Arrived, Counting
  <2>2. QED
    BY <2>1 DEF Shape
<1>9. ASSUME NEW c \in Contents, Submit(m, c)
      PROVE  Shape
  <2> DEFINE s == Counted(session[m.id], m.h, c)
             n == Msg("submit", m.kind, s.handler, m.id, s.src, s.es)
  <2>1. Accepting(m, c) /\ net' = (net \ {m}) \cup {n}
    BY <1>9 DEF Submit
  <2>2. s \in Session /\ s.handler \in Handlers /\ s.src \in Requests
    BY <1>7, <2>1, MappedIsLive DEF Accepting, Arrived, SessionsOwned
  <2>3. n \in Message /\ n.id = m.id /\ n.src = m.src
    BY <1>7, <2>1, <2>2, MappedIsLive DEF Msg, Message, Session, Accepting, Arrived, OwnMessages
  <2>4. Carried
    BY <2>1, <2>3 DEF Carried, Descends, TypeOK, OutsideTypeOK
  <2>5. Counting
    BY <1>7, <1>9, <2>1, <2>4, MappedIsLive DEF Submit, Accepting, Arrived, Counting
  <2>6. QED
    BY <2>5 DEF Shape
<1>10. ASSUME NEW c \in Contents, SubmitSendFails(m, c)
      PROVE  Shape
  <2> DEFINE h == session[m.id].handler
  <2>1. h \in conn /\ h \in Handlers
    BY <1>10, MappedIsLive DEF SubmitSendFails, Accepting, Arrived, SessionsOwned
  <2>2. net \ {m} \in SUBSET Message
    BY DEF TypeOK, OutsideTypeOK
  <2>3. Carried
    BY <1>10, <2>1, <2>2, SeverCarries DEF SubmitSendFails, Carried, Descends
  <2>4. Losing
    BY <1>10, <2>1, <2>3 DEF SubmitSendFails, FailedSendAnswers, Accepting, Arrived, Losing
  <2>5. QED
    BY <2>4 DEF Shape
<1>11. CASE OnSubmitRsp(m)
  <2>1. PICK code \in Codes : EndSession(m.id, code)
    BY <1>11, CodesUsed DEF OnSubmitRsp, SubmitCodes, RspErrors
  <2>2. Ending
    BY <1>2, <1>11, <2>1 DEF OnSubmitRsp, Arrived
  <2>3. QED
    BY <2>2 DEF Shape
<1>12. CASE OnQueryRsp(m)
  <2>1. PICK code \in Codes : EndSession(m.id, code)
    BY <1>12, CodesUsed DEF OnQueryRsp, RspErrors
  <2>2. Ending
    BY <1>2, <1>12, <2>1 DEF OnQueryRsp, Arrived
  <2>3. QED
    BY <2>2 DEF Shape
<1>13. QED
  BY <1>3, <1>4, <1>5, <1>6, <1>8, <1>9, <1>10, <1>11, <1>12 DEF OnHtsMsg

LEMMA NextShape ==
  ASSUME TypeOK, SessionsOwned, Linked, OwnMessages, Next
  PROVE  Shape
<1>1. ASSUME NEW r \in Requests, OnDscMsg(r)
      PROVE  Shape
  BY <1>1, OnDscMsgShape
<1>2. ASSUME NEW m \in net, OnHtsMsg(m)
      PROVE  Shape
  BY <1>2, OnHtsMsgShape
<1>3. ASSUME NEW m \in net, EsCommit(m) \/ EsRefuse(m)
      PROVE  Shape
  <2>1. ASSUME NEW n \in net'
        PROVE  Descends(n)
    <3>1. \A t \in {"committed", "refused"} :
            LET e == [m EXCEPT !.type = t]
            IN  e \in Message /\ e.id = m.id /\ e.src = m.src
      BY DEF Message, TypeOK, OutsideTypeOK
    <3>2. QED
      BY <1>3, <2>1, <3>1 DEF EsCommit, EsRefuse, Descends, TypeOK, OutsideTypeOK
  <2>2. Connecting
    BY <1>3, <2>1 DEF EsCommit, EsRefuse, Connecting, Carried
  <2>3. QED
    BY <2>2 DEF Shape
<1>4. ASSUME UNCHANGED net
      PROVE  Carried
  BY <1>4 DEF Carried, Descends, TypeOK, OutsideTypeOK
<1>5. ASSUME NEW id \in SessionIDs, OnTimeOut(id)
      PROVE  Shape
  <2>1. Ending
    BY <1>4, <1>5, CodesUsed DEF OnTimeOut, Ending, Linked
  <2>2. QED
    BY <2>1 DEF Shape
<1>6. ASSUME NEW h \in Handlers, OnConnectedNodify(h)
      PROVE  Shape
  <2>1. Connecting
    BY <1>4, <1>6 DEF OnConnectedNodify, Connecting
  <2>2. QED
    BY <2>1 DEF Shape
<1>7. ASSUME NEW h \in Handlers, OnNetworkError(h)
      PROVE  Shape
  <2>1. Carried
    BY <1>7, SeverCarries DEF OnNetworkError, Carried, Descends, TypeOK, OutsideTypeOK
  <2>2. Losing
    BY <1>7, <2>1 DEF OnNetworkError, Losing
  <2>3. QED
    BY <2>2 DEF Shape
<1>8. QED
  BY <1>1, <1>2, <1>3, <1>5, <1>6, <1>7 DEF Next, Shape
-----------------------------------------------------------------------------
(* What each shape preserves. *)

LEMMA ExitClears ==
  ASSUME Service, OnExit
  PROVE  /\ Service'
         /\ \A id \in SessionIDs : session'[id].kind = "free"
         /\ ExitStopsTimers'
<1>1. Freed \in Session /\ Freed.kind = "free" /\ "free" \notin Kinds
  BY DEF Freed, Session, Kinds
<1>2. \A id \in SessionIDs : session[id].kind # "free" => id \in Mapped
  BY DEF Service, ServiceTypeOK, Session, Linked, OnExit, Mapped
<1>3. \A id \in SessionIDs : session'[id].kind = "free"
  BY <1>1, <1>2 DEF OnExit, Delete
<1>4. timer' = {}
  BY <1>2 DEF OnExit, CancelDscTimer, Service, ServiceTypeOK, Linked
<1>5. ServiceTypeOK'
  BY <1>1 DEF Service, ServiceTypeOK, OnExit, CancelDscTimer, Delete
<1>6. SessionsOwned' /\ Linked'
  BY <1>3 DEF OnExit, SessionsOwned, Linked
<1>7. ExitStopsTimers'
  BY <1>3, <1>4 DEF ExitStopsTimers, Live
<1>8. QED
  BY <1>3, <1>5, <1>6, <1>7 DEF Service

LEMMA ServiceStep ==
  ASSUME Service, ExitStopsTimers, IdsFresh, Shape
  PROVE  Service' /\ ExitStopsTimers'
<1>1. AllocSessionID \in SessionIDs /\ AllocSessionID \in 0 .. MaxSessionID
  BY NextId, ConfigAssumption DEF Service, ServiceTypeOK, SessionIDs
<1>2. CASE Rejecting
  BY <1>1, <1>2 DEF Rejecting, Arrival, Service, ServiceTypeOK, SessionsOwned, Linked,
                    ExitStopsTimers, Live
<1>3. CASE Opening
  <2>1. PICK r \in Requests, kind \in Kinds, h \in conn, es \in Handlers \cup {NULL} :
          /\ Arrival(r, kind)
          /\ m_nSessionID' = AllocSessionID
          /\ OpenSession(AllocSessionID, NewSession(kind, r, h, es))
          /\ conn' = conn
    BY <1>3 DEF Opening
  <2>2. session[AllocSessionID].kind = "free"
    BY <2>1, NextIdFree DEF Arrival, InUse, Service, ServiceTypeOK
  <2>3. QED
    BY <1>1, <2>1, <2>2, OpenSessionStep DEF Arrival, ExitStopsTimers
<1>4. CASE Failing
  BY <1>1, <1>4, LoseHandlerStep DEF Failing, Arrival, ExitStopsTimers
<1>5. CASE Ending
  BY <1>5, EndSessionStep DEF Ending, ExitStopsTimers
<1>6. CASE Losing
  BY <1>6, LoseHandlerStep DEF Losing, ExitStopsTimers, Service, ServiceTypeOK
<1>7. CASE Counting
  <2>1. PICK id \in SessionIDs, s \in Session :
          /\ running /\ session[id].kind # "free"
          /\ s.kind = session[id].kind /\ s.src = session[id].src
          /\ s.handler = session[id].handler
          /\ session' = [session EXCEPT ![id] = s]
          /\ timer' \in {timer, timer \cup {id}}
          /\ UNCHANGED <<conn, arrSession, map, m_nSessionID, running>>
    BY <1>7 DEF Counting
  <2>2. timer' = timer
    BY <2>1 DEF Service, Linked
  <2>3. \A i \in SessionIDs : /\ session'[i].kind = session[i].kind
                             /\ session'[i].src = session[i].src
                             /\ session'[i].handler = session[i].handler
    BY <2>1 DEF Service, ServiceTypeOK
  <2>4. ServiceTypeOK'
    BY <2>1, <2>2 DEF Service, ServiceTypeOK
  <2>5. QED
    BY <2>1, <2>2, <2>3, <2>4 DEF Service, SessionsOwned, Linked, ExitStopsTimers
<1>8. CASE Connecting
  <2>1. ServiceTypeOK' /\ SessionsOwned' /\ ExitStopsTimers'
    BY <1>8 DEF Connecting, Service, ServiceTypeOK, SessionsOwned, ExitStopsTimers, Live
  <2>2. CASE UNCHANGED <<conn, arrSession>>
    BY <1>8, <2>1, <2>2 DEF Connecting, Service, Linked
  <2>3. CASE ~UNCHANGED <<conn, arrSession>>
    <3>1. PICK h \in Handlers \ conn : arrSession' = [arrSession EXCEPT ![h] = {}]
      BY <1>8, <2>3 DEF Connecting
    <3>2. running => arrSession[h] = {}
      BY <3>1 DEF Service, ServiceTypeOK, SessionsOwned, Linked
    <3>3. QED
      BY <1>8, <2>1, <3>1, <3>2 DEF Connecting, Service, ServiceTypeOK, Linked
  <2>4. QED
    BY <2>2, <2>3
<1>9. CASE OnExit
  BY <1>9, ExitClears
<1>10. QED
  BY <1>2, <1>3, <1>4, <1>5, <1>6, <1>7, <1>8, <1>9 DEF Shape

\* No shape frees a session of a request and gives it to another, except
\* for the session that is opened.
LEMMA SessionSources ==
  ASSUME Service, Shape, ~Opening, NEW id \in SessionIDs, session'[id].kind # "free"
  PROVE  session[id].kind # "free" /\ session'[id].src = session[id].src
<1>1. Freed.kind = "free"
  BY DEF Freed
<1>2. CASE Failing
  BY <1>1, <1>2 DEF Failing, LoseHandler, Delete
<1>3. CASE Ending
  BY <1>1, <1>3 DEF Ending, EndSession, Delete
<1>4. CASE Losing
  BY <1>1, <1>4 DEF Losing, LoseHandler, Delete
<1>5. CASE Counting
  BY <1>5 DEF Counting, Service, ServiceTypeOK
<1>6. CASE OnExit
  BY <1>6, ExitClears
<1>7. QED
  BY <1>2, <1>3, <1>4, <1>5, <1>6 DEF Shape, Rejecting, Connecting

\* Ids: either none is given out, or one is given out for one more request.
LEMMA IdsStep ==
  ASSUME Service, OutsideTypeOK, Shape
  PROVE  \/ /\ m_nSessionID' = m_nSessionID
            /\ Sent \subseteq Sent' /\ Sent' \subseteq Requests
            /\ \A id \in SessionIDs : InUse(id)' => InUse(id)
         \/ /\ m_nSessionID' = AllocSessionID
            /\ \E r \in Requests : req[r] = NULL /\ Sent' = Sent \cup {r}
            /\ \A id \in SessionIDs : InUse(id)' => InUse(id) \/ id = AllocSessionID
<1>1. ASSUME NEW r \in Requests, NEW kind \in Kinds, Arrival(r, kind)
      PROVE  req[r] = NULL /\ Sent' = Sent \cup {r}
  BY <1>1, NullAssumption DEF Arrival, Sent, OutsideTypeOK
<1>2. CASE Rejecting
  BY <1>1, <1>2 DEF Rejecting, InUse, Sent
<1>3. CASE Opening
  <2>1. PICK r \in Requests, kind \in Kinds :
          Arrival(r, kind) /\ m_nSessionID' = AllocSessionID /\ CarriedOrNew(r)
    BY <1>3 DEF Opening
  <2>2. \A id \in SessionIDs : id # AllocSessionID => session'[id] = session[id]
    BY <1>3 DEF Opening, OpenSession, Service, ServiceTypeOK
  <2>3. QED
    BY <1>1, <2>1, <2>2 DEF InUse, CarriedOrNew, Descends, IsNew
<1>4. CASE Failing
  <2>1. PICK r \in Requests, kind \in Kinds :
          Arrival(r, kind) /\ m_nSessionID' = AllocSessionID /\ CarriedOrNew(r)
    BY <1>4 DEF Failing
  <2>2. ~Opening => \A id \in SessionIDs : session'[id].kind # "free" => session[id].kind # "free"
    BY SessionSources
  <2>3. QED
    BY <1>1, <1>3, <2>1, <2>2 DEF InUse, CarriedOrNew, Descends, IsNew
<1>5. CASE Ending \/ Losing \/ Counting \/ Connecting \/ OnExit
  <2>1. m_nSessionID' = m_nSessionID /\ Sent' = Sent
    BY <1>5 DEF Ending, Losing, Counting, Connecting, OnExit, Sent
  <2>2. \A m \in net' : \E n \in net : n.id = m.id
    BY <1>5 DEF Ending, Losing, Counting, Connecting, OnExit, Carried, Descends
  <2>3. ~Opening => \A id \in SessionIDs : session'[id].kind # "free" => session[id].kind # "free"
    BY SessionSources
  <2>4. QED
    BY <1>3, <2>1, <2>2, <2>3 DEF InUse, Sent
<1>6. QED
  BY <1>2, <1>3, <1>4, <1>5 DEF Shape

\* The next id becomes the youngest, every other id in use grows older by
\* one, and none of them comes round again.
LEMMA IdsFreshStep ==
  ASSUME Service, OutsideTypeOK, IdsFresh, Shape
  PROVE  IdsFresh'
<1>1. m_nSessionID \in 0 .. MaxSessionID /\ MaxSessionID \in Nat \ {0}
  BY ConfigAssumption DEF Service, ServiceTypeOK
<1>2. CASE /\ m_nSessionID' = m_nSessionID
           /\ Sent \subseteq Sent' /\ Sent' \subseteq Requests
           /\ \A id \in SessionIDs : InUse(id)' => InUse(id)
  <2>1. Cardinality(Sent) <= Cardinality(Sent') /\ Cardinality(Sent') \in Nat
    BY <1>2, FS_Subset, FS_CardinalityType, IdBound
  <2>2. Cardinality(Sent) \in Nat
    BY SentBound
  <2>3. \A id \in SessionIDs : Age(id)' = Age(id) /\ Age(id) \in Int
    BY <1>1, <1>2 DEF Age, SessionIDs
  <2>4. QED
    BY <1>2, <2>1, <2>2, <2>3 DEF IdsFresh
<1>3. CASE /\ m_nSessionID' = AllocSessionID
           /\ \E r \in Requests : req[r] = NULL /\ Sent' = Sent \cup {r}
           /\ \A id \in SessionIDs : InUse(id)' => InUse(id) \/ id = AllocSessionID
  <2>1. PICK r \in Requests : req[r] = NULL /\ Sent' = Sent \cup {r}
    BY <1>3
  <2>2. /\ Cardinality(Sent') = Cardinality(Sent) + 1
        /\ Cardinality(Sent) \in Nat /\ Cardinality(Sent) < MaxSessionID
    BY <2>1, SentBound, FS_AddElement DEF Sent
  <2>3. ASSUME NEW id \in SessionIDs, InUse(id)'
        PROVE  Age(id)' < Cardinality(Sent')
    <3>1. CASE id = AllocSessionID
      BY <1>1, <1>3, <2>2, <3>1, NextId DEF Age
    <3>2. CASE id # AllocSessionID
      <4>1. Age(id) < Cardinality(Sent)
        BY <1>3, <2>3, <3>2 DEF IdsFresh
      <4>2. Age(id)' = Age(id) + 1
        BY <1>1, <1>3, <2>2, <3>2, <4>1, NextId DEF Age, SessionIDs
      <4>3. QED
        BY <1>1, <2>2, <4>1, <4>2 DEF Age, SessionIDs
    <3>3. QED
      BY <3>1, <3>2
  <2>4. QED
    BY <2>3 DEF IdsFresh
<1>4. QED
  BY <1>2, <1>3, IdsStep

LEMMA OwnMessagesStep ==
  ASSUME Service, OutsideTypeOK, IdsFresh, OwnMessages, Shape
  PROVE  OwnMessages'
<1> SUFFICES ASSUME NEW m \in net', session'[m.id].kind # "free"
             PROVE  session'[m.id].src = m.src
  BY DEF OwnMessages
<1>1. CASE Opening
  <2>1. PICK r \in Requests, kind \in Kinds, h \in conn, es \in Handlers \cup {NULL} :
          /\ Arrival(r, kind)
          /\ OpenSession(AllocSessionID, NewSession(kind, r, h, es))
          /\ CarriedOrNew(r)
    BY <1>1 DEF Opening
  <2>2. AllocSessionID \in SessionIDs /\ ~InUse(AllocSessionID)
    BY <2>1, NextIdFree DEF Arrival, Service, ServiceTypeOK
  <2>3. CASE m.id = AllocSessionID
    <3>1. IsNew(m, r)
      BY <2>1, <2>2, <2>3 DEF CarriedOrNew, Descends, InUse
    <3>2. session'[m.id].src = r
      BY <2>1, <2>2, <2>3 DEF OpenSession, NewSession, Service, ServiceTypeOK
    <3>3. QED
      BY <3>1, <3>2 DEF IsNew
  <2>4. CASE m.id # AllocSessionID
    <3>1. Descends(m) /\ m.id \in SessionIDs
      BY <2>1, <2>4 DEF CarriedOrNew, IsNew, Descends, Message
    <3>2. session'[m.id] = session[m.id]
      BY <2>1, <2>4, <3>1 DEF OpenSession, Service, ServiceTypeOK
    <3>3. QED
      BY <3>1, <3>2 DEF Descends, OwnMessages
  <2>5. QED
    BY <2>3, <2>4
<1>2. CASE ~Opening
  <2>1. CASE Descends(m)
    BY <1>2, <2>1, SessionSources DEF Descends, OwnMessages, Message
  <2>2. CASE ~Descends(m)
    <3>1. PICK r \in Requests : req[r] = NULL /\ IsNew(m, r)
      BY <1>2, <2>2 DEF Shape, Rejecting, Failing, Ending, Losing, Counting, Connecting,
                        OnExit, Carried, CarriedOrNew, Descends, OutsideTypeOK, Arrival
    <3>2. m.id \in SessionIDs /\ ~InUse(m.id)
      BY <3>1, NextIdFree DEF IsNew, Service, ServiceTypeOK
    <3>3. QED
      BY <1>2, <3>2, SessionSources DEF InUse
  <2>3. QED
    BY <2>1, <2>2
<1>3. QED
  BY <1>1, <1>2

(* Answers. *)

AnswerTypeOK ==
  req \in [Requests -> Kinds \cup {NULL}] /\ rsp \in [Requests -> Seq(Codes)]

\* OneAnswer and UnsentUntouched, said of one request at a time.
Owned(r) == \E id \in SessionIDs : session[id].kind # "free" /\ session[id].src = r

RequestOK(r) ==
  /\ rsp[r] = <<>> \/ Len(rsp[r]) = 1
  /\ Owned(r) => rsp[r] = <<>>
  /\ req[r] = NULL => rsp[r] = <<>> /\ ~Owned(r)
  /\ running => (req[r] \in {"regist", "propose"} => rsp[r] # <<>> \/ Owned(r))

OneSession ==
  \A i, j \in SessionIDs :
    /\ session[i].kind # "free" /\ session[j].kind # "free"
    /\ session[i].src = session[j].src
    => i = j

Answers == AnswerTypeOK /\ OneSession /\ \A r \in Requests : RequestOK(r)

LEMMA ShortSequences ==
  ASSUME NEW s \in Seq(Codes)
  PROVE  Len(s) <= 1 <=> (s = <<>> \/ Len(s) = 1)
<1>1. CASE s = <<>>
  <2>1. Len(s) = 0
    BY <1>1, EmptySeq
  <2>2. QED
    BY <1>1, <2>1
<1>2. CASE s # <<>>
  <2>1. Len(s) \in Nat \ {0}
    BY <1>2, EmptySeq
  <2>2. QED
    BY <1>2, <2>1
<1>3. QED
  BY <1>1, <1>2

LEMMA AnswersMeaning ==
  ASSUME AnswerTypeOK, SessionsOwned
  PROVE  (OneAnswer /\ UnsentUntouched) <=> (OneSession /\ \A r \in Requests : RequestOK(r))
<1>1. \A r \in Requests : Len(rsp[r]) <= 1 <=> (rsp[r] = <<>> \/ Len(rsp[r]) = 1)
  BY ShortSequences DEF AnswerTypeOK
<1>2. \A r \in Requests : Owned(r) <=> Sessions(r) # {}
  BY DEF Owned, Sessions, Live
<1>3. ASSUME OneAnswer, UnsentUntouched
      PROVE  OneSession /\ \A r \in Requests : RequestOK(r)
  <2>1. OneSession
    BY <1>3 DEF OneAnswer, OneSession, Live
  <2>2. ASSUME NEW r \in Requests
        PROVE  RequestOK(r)
    <3>1. rsp[r] = <<>> \/ Len(rsp[r]) = 1
      BY <1>1, <1>3, Zenon DEF OneAnswer
    <3>2. Owned(r) => rsp[r] = <<>>
      BY <1>3 DEF OneAnswer, Owned, Live
    <3>3. req[r] = NULL => rsp[r] = <<>> /\ ~Owned(r)
      BY <1>3 DEF UnsentUntouched, Owned
    <3>4. running => (req[r] \in {"regist", "propose"} => rsp[r] # <<>> \/ Owned(r))
      BY <1>2, <1>3 DEF OneAnswer
    <3>5. QED
      BY <3>1, <3>2, <3>3, <3>4 DEF RequestOK
  <2>3. QED
    BY <2>1, <2>2
<1>4. ASSUME OneSession, \A r \in Requests : RequestOK(r)
      PROVE  OneAnswer /\ UnsentUntouched
  <2>1. \A r \in Requests : Len(rsp[r]) <= 1
    BY <1>1, <1>4, Zenon DEF RequestOK
  <2>2. \A id \in Live : rsp[session[id].src] = <<>>
    BY <1>4 DEF RequestOK, Owned, Live, SessionsOwned
  <2>3. \A i, j \in Live : session[i].src = session[j].src => i = j
    BY <1>4 DEF OneSession, Live
  <2>4. running => \A r \in Requests : req[r] \in {"regist", "propose"} =>
                                         rsp[r] # <<>> \/ Sessions(r) # {}
    BY <1>2, <1>4 DEF RequestOK
  <2>5. UnsentUntouched
    BY <1>4 DEF RequestOK, Owned, UnsentUntouched
  <2>6. QED
    BY <2>1, <2>2, <2>3, <2>4, <2>5 DEF OneAnswer
<1>5. QED
  BY <1>3, <1>4

\* A first answer.
LEMMA FirstAnswer ==
  ASSUME NEW code \in Codes
  PROVE  /\ Append(<<>>, code) \in Seq(Codes)
         /\ Append(<<>>, code) # <<>>
         /\ Len(Append(<<>>, code)) = 1
OBVIOUS

\* Deleting a set S of live sessions and answering all of them.
LEMMA DeleteAndAnswer ==
  ASSUME Service, Answers, running, running' = running,
         NEW S \in SUBSET SessionIDs, \A id \in S : session[id].kind # "free",
         NEW code \in Codes,
         session' = Delete(S), rsp' = AnswerAll(S, code), req' = req
  PROVE  Answers'
<1>1. Freed.kind = "free"
  BY DEF Freed
<1>2. OneSession'
  BY <1>1 DEF Answers, OneSession, Delete
<1>3. ASSUME NEW r \in Requests
      PROVE  rsp'[r] \in Seq(Codes) /\ RequestOK(r)'
  <2>1. Owned(r)' <=> \E id \in SessionIDs \ S : session[id].kind # "free" /\ session[id].src = r
    BY <1>1 DEF Owned, Delete
  <2>2. CASE \E id \in S : session[id].src = r
    <3>1. Owned(r) /\ ~Owned(r)'
      BY <2>1, <2>2 DEF Owned, Answers, OneSession
    <3>2. rsp[r] = <<>> /\ rsp'[r] = Append(rsp[r], code)
      BY <2>2, <3>1 DEF Answers, RequestOK, AnswerAll
    <3>3. req[r] # NULL
      BY <3>1 DEF Answers, RequestOK
    <3>4. QED
      BY <3>1, <3>2, <3>3, FirstAnswer DEF RequestOK
  <2>3. CASE ~\E id \in S : session[id].src = r
    <3>1. Owned(r)' <=> Owned(r)
      BY <2>1, <2>3 DEF Owned
    <3>2. rsp'[r] = rsp[r]
      BY <2>3 DEF AnswerAll
    <3>3. QED
      BY <3>1, <3>2 DEF Answers, AnswerTypeOK, RequestOK
  <2>4. QED
    BY <2>2, <2>3
<1>4. AnswerTypeOK'
  <2>1. rsp' = [r \in Requests |-> rsp'[r]]
    BY DEF AnswerAll
  <2>2. QED
    BY <1>3, <2>1 DEF Answers, AnswerTypeOK
<1>5. QED
  BY <1>2, <1>3, <1>4 DEF Answers

\* One more request arrives; what stands for it is left to the caller.
LEMMA ArrivalKeeps ==
  ASSUME Service, Answers, NEW r \in Requests, NEW kind \in Kinds, Arrival(r, kind)
  PROVE  /\ req' \in [Requests -> Kinds \cup {NULL}]
         /\ req'[r] = kind /\ req'[r] # NULL
         /\ \A q \in Requests \ {r} : req'[q] = req[q]
         /\ rsp[r] = <<>> /\ ~Owned(r)
BY NullAssumption DEF Arrival, Answers, AnswerTypeOK, RequestOK

LEMMA RejectingKeepsAnswers ==
  ASSUME Service, Answers, Rejecting
  PROVE  Answers'
<1>1. PICK r \in Requests, kind \in Kinds, code \in Codes :
        Arrival(r, kind) /\ rsp' = Answer(r, code) /\ session' = session
  BY DEF Rejecting
<1>2. /\ req' \in [Requests -> Kinds \cup {NULL}] /\ req'[r] # NULL
      /\ \A q \in Requests \ {r} : req'[q] = req[q]
      /\ rsp[r] = <<>> /\ ~Owned(r)
  BY <1>1, ArrivalKeeps
<1>3. rsp'[r] = Append(<<>>, code) /\ \A q \in Requests \ {r} : rsp'[q] = rsp[q]
  BY <1>1, <1>2 DEF Answer, Answers, AnswerTypeOK
<1>4. AnswerTypeOK'
  BY <1>1, <1>2, <1>3, FirstAnswer DEF Answer, Answers, AnswerTypeOK
<1>5. \A q \in Requests : Owned(q)' <=> Owned(q)
  BY <1>1 DEF Owned
<1>6. RequestOK(r)'
  BY <1>2, <1>3, <1>5, FirstAnswer DEF RequestOK
<1>7. ASSUME NEW q \in Requests \ {r}
      PROVE  RequestOK(q)'
  BY <1>1, <1>2, <1>3, <1>5 DEF RequestOK, Answers, Arrival
<1>8. QED
  BY <1>1, <1>4, <1>6, <1>7 DEF Answers, OneSession

LEMMA OpeningKeepsAnswers ==
  ASSUME Service, Answers, IdsFresh, Opening
  PROVE  Answers'
<1>1. PICK r \in Requests, kind \in Kinds, h \in conn, es \in Handlers \cup {NULL} :
        /\ Arrival(r, kind) /\ rsp' = rsp
        /\ OpenSession(AllocSessionID, NewSession(kind, r, h, es))
  BY DEF Opening
<1>2. /\ req' \in [Requests -> Kinds \cup {NULL}] /\ req'[r] # NULL
      /\ \A q \in Requests \ {r} : req'[q] = req[q]
      /\ rsp[r] = <<>> /\ ~Owned(r)
  BY <1>1, ArrivalKeeps
<1>3. AllocSessionID \in SessionIDs /\ session[AllocSessionID].kind = "free"
  BY <1>1, NextIdFree DEF Arrival, InUse, Service, ServiceTypeOK
<1>4. /\ session'[AllocSessionID].kind # "free" /\ session'[AllocSessionID].src = r
      /\ \A id \in SessionIDs \ {AllocSessionID} : session'[id] = session[id]
  BY <1>1, <1>3 DEF OpenSession, NewSession, Kinds, Service, ServiceTypeOK
<1>5. Owned(r)' /\ \A q \in Requests \ {r} : Owned(q)' <=> Owned(q)
  BY <1>3, <1>4 DEF Owned
<1>6. OneSession'
  BY <1>2, <1>3, <1>4 DEF OneSession, Owned, Answers
<1>7. AnswerTypeOK'
  BY <1>1, <1>2 DEF Answers, AnswerTypeOK
<1>8. RequestOK(r)'
  BY <1>1, <1>2, <1>5 DEF RequestOK
<1>9. ASSUME NEW q \in Requests \ {r}
      PROVE  RequestOK(q)'
  BY <1>1, <1>2, <1>5 DEF RequestOK, Answers, Arrival
<1>10. QED
  BY <1>6, <1>7, <1>8, <1>9 DEF Answers

\* The sending of a new request fails: the others on the lost connection are
\* answered as by OnNetworkError, the new one by its own handler, if at all.
LEMMA FailingKeepsAnswers ==
  ASSUME Service, Answers, Failing
  PROVE  Answers'
<1>1. PICK r \in Requests, kind \in Kinds, h \in conn :
        /\ Arrival(r, kind)
        /\ LoseHandler(h)
        /\ \/ rsp' = StartFailedAnswers(r, h)
           \/ kind = "query" /\ rsp' = AnswerAll(LostSessions(h), "NETWORK")
  BY DEF Failing
<1> DEFINE S == LostSessions(h)
<1>2. /\ req' \in [Requests -> Kinds \cup {NULL}] /\ req'[r] = kind /\ req'[r] # NULL
      /\ \A q \in Requests \ {r} : req'[q] = req[q]
      /\ rsp[r] = <<>> /\ ~Owned(r)
  BY <1>1, ArrivalKeeps
<1>3. S \in SUBSET SessionIDs /\ \A id \in S : session[id].kind # "free"
  BY <1>1 DEF LostSessions, Arrival, Service, ServiceTypeOK, Linked
<1>4. Freed.kind = "free" /\ session' = Delete(S) /\ "NETWORK" \in Codes
  BY <1>1 DEF Freed, LoseHandler, Codes
<1>5. OneSession'
  BY <1>4 DEF Answers, OneSession, Delete
<1>6. ASSUME NEW q \in Requests \ {r}
      PROVE  rsp'[q] \in Seq(Codes) /\ RequestOK(q)'
  <2>1. rsp'[q] = IF \E id \in S : session[id].src = q THEN Append(rsp[q], "NETWORK")
                  ELSE rsp[q]
    BY <1>1 DEF StartFailedAnswers, AnswerAll
  <2>2. Owned(q)' <=> \E id \in SessionIDs \ S : session[id].kind # "free" /\ session[id].src = q
    BY <1>3, <1>4 DEF Owned, Delete
  <2>3. CASE \E id \in S : session[id].src = q
    <3>1. Owned(q) /\ ~Owned(q)'
      BY <1>3, <2>2, <2>3 DEF Owned, Answers, OneSession
    <3>2. rsp[q] = <<>> /\ req[q] # NULL
      BY <3>1 DEF Answers, RequestOK
    <3>3. rsp'[q] = Append(<<>>, "NETWORK")
      BY <2>1, <2>3, <3>2
    <3>4. QED
      BY <1>2, <1>4, <3>1, <3>2, <3>3, FirstAnswer DEF RequestOK
  <2>4. CASE ~\E id \in S : session[id].src = q
    <3>1. (Owned(q)' <=> Owned(q)) /\ rsp'[q] = rsp[q]
      BY <2>1, <2>2, <2>4 DEF Owned
    <3>2. QED
      BY <1>1, <1>2, <3>1 DEF Answers, AnswerTypeOK, RequestOK, Arrival
  <2>5. QED
    BY <2>3, <2>4
<1>7. rsp'[r] \in Seq(Codes) /\ RequestOK(r)'
  <2>1. ~Owned(r)' /\ ~\E id \in S : session[id].src = r
    BY <1>2, <1>3, <1>4 DEF Owned, Delete
  <2>2. rsp'[r] = Append(<<>>, "NETWORK") \/ (kind = "query" /\ rsp'[r] = <<>>)
    BY <1>1, <1>2, <2>1 DEF StartFailedAnswers, AnswerAll
  <2>3. QED
    BY <1>2, <1>4, <2>1, <2>2, FirstAnswer, EmptySeq DEF RequestOK
<1>8. AnswerTypeOK'
  <2>1. rsp' = [q \in Requests |-> rsp'[q]]
    BY <1>1 DEF StartFailedAnswers, AnswerAll
  <2>2. QED
    BY <1>2, <1>6, <1>7, <2>1 DEF AnswerTypeOK
<1>9. QED
  BY <1>5, <1>6, <1>7, <1>8 DEF Answers

LEMMA AnswersStep ==
  ASSUME Service, Answers, IdsFresh, Shape
  PROVE  Answers'
<1>1. CASE Ending
  <2>1. PICK id \in SessionIDs, code \in Codes :
          /\ running /\ session[id].kind # "free"
          /\ EndSession(id, code) /\ UNCHANGED <<running, req>>
    BY <1>1 DEF Ending
  <2>2. rsp' = AnswerAll({id}, code)
    BY <2>1 DEF EndSession, Answer, AnswerAll, Answers, AnswerTypeOK
  <2>3. QED
    BY <2>1, <2>2, DeleteAndAnswer DEF EndSession
<1>2. CASE Losing
  <2>1. PICK h \in conn :
          /\ running /\ LoseHandler(h)
          /\ rsp' = AnswerAll(LostSessions(h), "NETWORK")
          /\ UNCHANGED <<running, req>>
    BY <1>2 DEF Losing
  <2>2. /\ LostSessions(h) \in SUBSET SessionIDs
        /\ \A id \in LostSessions(h) : session[id].kind # "free"
    BY <2>1 DEF LostSessions, Service, ServiceTypeOK, Linked
  <2>3. QED
    BY <2>1, <2>2, DeleteAndAnswer DEF LoseHandler, Codes
<1>3. CASE Counting \/ Connecting
  <2>1. \A id \in SessionIDs : session'[id].kind = session[id].kind
                               /\ session'[id].src = session[id].src
    BY <1>3 DEF Counting, Connecting, Service, ServiceTypeOK
  <2>2. \A r \in Requests : Owned(r)' <=> Owned(r)
    BY <2>1 DEF Owned
  <2>3. UNCHANGED <<req, rsp, running>>
    BY <1>3 DEF Counting, Connecting
  <2>4. QED
    BY <2>1, <2>2, <2>3 DEF Answers, AnswerTypeOK, OneSession, RequestOK
<1>4. CASE OnExit
  <2>1. \A r \in Requests : ~Owned(r)'
    BY <1>4, ExitClears DEF Owned
  <2>2. UNCHANGED <<req, rsp>> /\ ~running'
    BY <1>4 DEF OnExit
  <2>3. OneSession'
    BY <1>4, ExitClears DEF OneSession
  <2>4. \A r \in Requests : RequestOK(r)'
    BY <2>1, <2>2 DEF Answers, RequestOK
  <2>5. QED
    BY <2>2, <2>3, <2>4 DEF Answers, AnswerTypeOK
<1>5. QED
  BY <1>1, <1>2, <1>3, <1>4, RejectingKeepsAnswers, OpeningKeepsAnswers,
     FailingKeepsAnswers DEF Shape
-----------------------------------------------------------------------------
(* The invariant. *)

HistoryTypeOK ==
  /\ picked \in [Requests -> SUBSET Handlers]
  /\ votes \in [Requests -> SUBSET (Handlers \X Contents)]
  /\ submits \in [Requests -> Nat]
  /\ committed \in SUBSET Requests

LEMMA HistoryStep ==
  ASSUME TypeOK, SessionsOwned, Linked, Next
  PROVE  HistoryTypeOK'
<1>1. HistoryTypeOK
  BY DEF TypeOK, OutsideTypeOK, HistoryTypeOK
<1>2. CASE UNCHANGED history
  BY <1>1, <1>2 DEF HistoryTypeOK, history
<1>3. ASSUME NEW r \in Requests, OnDscMsg(r)
      PROVE  HistoryTypeOK'
  <2>1. ASSUME NEW kind \in Kinds, StartEndorse(kind, r)
        PROVE  HistoryTypeOK'
    <3>1. PICK S \in SUBSET Handlers : picked' = [picked EXCEPT ![r] = S]
      BY <2>1 DEF StartEndorse, Selections, TypeOK, ServiceTypeOK
    <3>2. UNCHANGED <<votes, submits, committed>>
      BY <2>1 DEF StartEndorse
    <3>3. QED
      BY <1>1, <3>1, <3>2 DEF HistoryTypeOK
  <2>2. CASE ~\E kind \in Kinds : StartEndorse(kind, r)
    <3>1. UNCHANGED history
      BY <1>3, <2>2 DEF OnDscMsg, TooFewPeers, BadRequest, Reject, StartEndorseFails, QueryNoPeer,
                        StartQuery, QuerySendFails
    <3>2. QED
      BY <1>2, <3>1
  <2>3. QED
    BY <2>1, <2>2
<1>4. ASSUME NEW m \in net, NEW c \in Contents, Accepting(m, c),
             UNCHANGED <<picked, committed>>,
             submits' \in {submits, [submits EXCEPT ![session[m.id].src] = @ + 1]}
      PROVE  HistoryTypeOK'
  <2>1. m \in Message /\ m.src \in Requests /\ m.h \in Handlers
    BY DEF TypeOK, OutsideTypeOK, Message
  <2>2. session[m.id].src \in Requests
    BY <1>4, MappedIsLive DEF Accepting, Arrived, SessionsOwned
  <2>3. votes' \in [Requests -> SUBSET (Handlers \X Contents)]
    BY <1>1, <1>4, <2>1 DEF Accepting, HistoryTypeOK
  <2>4. submits' \in [Requests -> Nat]
    BY <1>1, <1>4, <2>2 DEF HistoryTypeOK
  <2>5. QED
    BY <1>1, <1>4, <2>3, <2>4 DEF HistoryTypeOK
<1>5. ASSUME NEW m \in net, OnHtsMsg(m)
      PROVE  HistoryTypeOK'
  <2>1. CASE NoSession(m) \/ EndorseFails(m) \/ OnSubmitRsp(m) \/ OnQueryRsp(m)
    BY <1>2, <2>1 DEF NoSession, EndorseFails, OnSubmitRsp, OnQueryRsp
  <2>2. ASSUME NEW c \in Contents,
               \/ EndorseMismatch(m, c) \/ EndorseWaits(m, c) \/ SubmitEncryptFails(m, c)
               \/ SubmitSendFails(m, c)
        PROVE  HistoryTypeOK'
    BY <1>2, <1>4, <2>2 DEF EndorseMismatch, EndorseWaits, SubmitEncryptFails, SubmitSendFails
  <2>3. ASSUME NEW c \in Contents, Submit(m, c)
        PROVE  HistoryTypeOK'
    <3>1. session[m.id] \in Session /\ m.h \in Handlers
      BY <2>3, MappedIsLive DEF Submit, Accepting, Arrived, Message
    <3>2. Counted(session[m.id], m.h, c).src = session[m.id].src
      BY <3>1, CountedKeeps
    <3>3. QED
      BY <1>4, <2>3, <3>2 DEF Submit
  <2>4. QED
    BY <1>5, <2>1, <2>2, <2>3 DEF OnHtsMsg
<1>6. ASSUME NEW m \in net, EsCommit(m) \/ EsRefuse(m)
      PROVE  HistoryTypeOK'
  <2>1. m.src \in Requests
    BY DEF TypeOK, OutsideTypeOK, Message
  <2>2. QED
    BY <1>1, <1>6, <2>1 DEF EsCommit, EsRefuse, HistoryTypeOK, history
<1>7. CASE \/ \E id \in SessionIDs : OnTimeOut(id)
           \/ \E h \in Handlers : OnConnectedNodify(h) \/ OnNetworkError(h)
           \/ OnExit
  BY <1>2, <1>7 DEF OnTimeOut, OnConnectedNodify, OnNetworkError, OnExit
<1>8. QED
  BY <1>3, <1>5, <1>6, <1>7 DEF Next

LEMMA NetStep ==
  ASSUME TypeOK, Service, Shape
  PROVE  net' \in SUBSET Message
<1>1. CASE Rejecting \/ OnExit
  BY <1>1 DEF Rejecting, OnExit, TypeOK, OutsideTypeOK
<1>2. CASE Opening \/ Failing
  BY <1>2 DEF Opening, Failing, CarriedOrNew, Descends, IsNew
<1>3. CASE Ending \/ Losing \/ Counting \/ Connecting
  BY <1>3 DEF Ending, Losing, Counting, Connecting, Carried, Descends
<1>4. QED
  BY <1>1, <1>2, <1>3 DEF Shape

LEMMA InitIInv ==
  ASSUME Init
  PROVE  IInv
<1>1. Freed \in Session /\ Freed.kind = "free" /\ "free" \notin Kinds
  BY DEF Freed, Session, Kinds
<1>2. \A id \in SessionIDs : session[id].kind = "free"
  BY <1>1 DEF Init
<1>3. ServiceTypeOK
  BY <1>1, ConfigAssumption DEF Init, ServiceTypeOK
<1>4. OutsideTypeOK
  <2>1. <<>> \in Seq(Codes)
    BY EmptySeq
  <2>2. QED
    BY <2>1 DEF Init, OutsideTypeOK
<1>5. SessionsOwned /\ ExitStopsTimers /\ IdsFresh /\ OwnMessages /\ OneSession
  BY <1>2 DEF Init, SessionsOwned, ExitStopsTimers, IdsFresh, InUse, OwnMessages, OneSession
<1>6. Linked
  BY <1>1, <1>2 DEF Init, Linked
<1>7. ASSUME NEW r \in Requests
      PROVE  RequestOK(r)
  BY <1>2, NullAssumption DEF Init, RequestOK, Owned, Kinds
<1>8. QED
  BY <1>3, <1>4, <1>5, <1>6, <1>7, AnswersMeaning DEF IInv, TypeOK, OutsideTypeOK, AnswerTypeOK

LEMMA NextIInv ==
  ASSUME IInv, [Next]_vars
  PROVE  IInv'
<1>1. CASE UNCHANGED vars
  <2>1. TypeOK'
    BY <1>1 DEF vars, IInv, TypeOK, ServiceTypeOK, OutsideTypeOK
  <2>2. SessionsOwned' /\ Linked' /\ ExitStopsTimers' /\ OwnMessages'
    BY <1>1 DEF vars, IInv, SessionsOwned, Linked, ExitStopsTimers, Live, OwnMessages
  <2>3. IdsFresh'
    BY <1>1 DEF vars, IInv, IdsFresh, InUse, Age, Sent
  <2>4. UnsentUntouched' /\ OneAnswer'
    BY <1>1 DEF vars, IInv, UnsentUntouched, OneAnswer, Live, Sessions
  <2>5. QED
    BY <2>1, <2>2, <2>3, <2>4 DEF IInv
<1>2. CASE Next
  <2>1. Shape
    BY <1>2, NextShape DEF IInv
  <2>2. Service /\ AnswerTypeOK
    BY DEF IInv, TypeOK, OutsideTypeOK, AnswerTypeOK, Service
  <2>3. Answers
    BY <2>2, AnswersMeaning DEF IInv, Service, Answers
  <2>4. Service' /\ ExitStopsTimers'
    BY <2>1, <2>2, ServiceStep DEF IInv
  <2>5. IdsFresh' /\ OwnMessages'
    BY <2>1, <2>2, IdsFreshStep, OwnMessagesStep DEF IInv, TypeOK
  <2>6. Answers'
    BY <2>1, <2>2, <2>3, AnswersStep DEF IInv
  <2>7. (OneAnswer /\ UnsentUntouched)'
    <3>1. ASSUME AnswerTypeOK', SessionsOwned'
          PROVE  (OneAnswer /\ UnsentUntouched)'
                   <=> (OneSession /\ \A r \in Requests : RequestOK(r))'
      BY <3>1, AnswersMeaning, PTL
    <3>2. QED
      BY <2>4, <2>6, <3>1 DEF Service, Answers
  <2>8. TypeOK'
    BY <1>2, <2>1, <2>2, <2>4, <2>6, HistoryStep, NetStep
       DEF IInv, Service, Answers, AnswerTypeOK, HistoryTypeOK, TypeOK, OutsideTypeOK
  <2>9. QED
    BY <2>4, <2>5, <2>7, <2>8 DEF IInv, Service
<1>3. QED
  BY <1>1, <1>2

\* IInv holds in every reachable state.
THEOREM Invariance == Spec => []IInv
BY InitIInv, NextIInv, PTL DEF Spec

LEMMA IInvImplies ==
  ASSUME IInv
  PROVE  /\ TypeOK /\ NoDanglingPointer /\ SessionReachable /\ ExitStopsTimers
         /\ OneAnswer /\ NoCrossTalk
<1>1. "free" \notin Kinds
  BY DEF Kinds
<1>2. NoDanglingPointer
  BY <1>1 DEF IInv, TypeOK, ServiceTypeOK, SessionsOwned, Linked, NoDanglingPointer, Live
<1>3. SessionReachable
  BY DEF IInv, Linked, SessionReachable, Live
<1>4. NoCrossTalk
  <2> SUFFICES ASSUME NEW m \in net, running, m.id \in map[m.kind]
               PROVE  session[m.id].src = m.src
    BY DEF NoCrossTalk
  <2>1. QED
    BY MappedIsLive DEF IInv, OwnMessages
<1>5. QED
  BY <1>2, <1>3, <1>4 DEF IInv

\* The variables of the service, of the network and of the history keep
\* their types: no session without an owner is ever written into a message.
THEOREM TypeCorrect == Spec => []TypeOK
BY Invariance, IInvImplies, PTL

\* A map, a timer and the array of a handler never name a deleted session,
\* and a session never names a lost handler.
THEOREM PointersAlive == Spec => []NoDanglingPointer
BY Invariance, IInvImplies, PTL

\* Every session can be found by an answer, by a timeout and by the loss of
\* its connection.
THEOREM SessionsReachable == Spec => []SessionReachable
BY Invariance, IInvImplies, PTL

\* OnExit leaves no timer armed and no session behind.
THEOREM ExitClean == Spec => []ExitStopsTimers
BY Invariance, IInvImplies, PTL

\* Every request is answered at most once; a transaction request has, as
\* long as the service runs, an answer or a session that will answer it.
THEOREM AnsweredOnce == Spec => []OneAnswer
BY Invariance, IInvImplies, PTL

\* No message is ever taken for an answer to another request, although the
\* session ids wrap.
THEOREM MessagesMeetOwnSession == Spec => []NoCrossTalk
BY Invariance, IInvImplies, PTL

\* The step that submits a transaction happens before any answer.
LEMMA SubmitBeforeAnswer ==
  ASSUME IInv, [Next]_vars, NEW r \in Requests, submits'[r] # submits[r]
  PROVE  rsp'[r] = <<>>
<1>0. ASSUME NEW q \in Requests, OnDscMsg(q)
      PROVE  submits' = submits
  BY <1>0 DEF OnDscMsg, TooFewPeers, BadRequest, Reject, StartEndorse, StartEndorseFails,
         QueryNoPeer, StartQuery, QuerySendFails, history
<1>1. PICK m \in net, c \in Contents : Submit(m, c)
  <2>1. PICK m \in net : OnHtsMsg(m)
    BY <1>0 DEF Next, vars, EsCommit, EsRefuse, OnTimeOut, OnConnectedNodify,
           OnNetworkError, OnExit, history
  <2>2. QED
    BY <2>1 DEF OnHtsMsg, NoSession, EndorseFails, EndorseMismatch, EndorseWaits,
           SubmitEncryptFails, SubmitSendFails, OnSubmitRsp, OnQueryRsp, history
<1>2. /\ m.h \in Handlers /\ session[m.id] \in Session /\ m.id \in SessionIDs
      /\ session[m.id].kind # "free"
  BY <1>1, MappedIsLive DEF Submit, Accepting, Arrived, Message, IInv
<1>3. Counted(session[m.id], m.h, c).src = session[m.id].src
  BY <1>2, CountedKeeps
<1>4. submits' = [submits EXCEPT ![session[m.id].src] = @ + 1] /\ rsp' = rsp
  BY <1>1, <1>3 DEF Submit
<1>5. r = session[m.id].src
  BY <1>4 DEF IInv, TypeOK, OutsideTypeOK
<1>6. QED
  BY <1>2, <1>4, <1>5 DEF IInv, OneAnswer, Live

\* Once the application has an answer, its transaction is not submitted.
THEOREM SubmitsPrecedeAnswers == Spec => NoSubmitAfterAnswer
<1>1. ASSUME IInv, [Next]_vars
      PROVE  [\A r \in Requests : submits'[r] # submits[r] => rsp'[r] = <<>>]_vars
  BY <1>1, SubmitBeforeAnswer
<1>2. QED
  BY <1>1, Invariance, PTL DEF Spec, NoSubmitAfterAnswer
=============================================================================
