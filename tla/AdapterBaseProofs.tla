--------------------------- MODULE AdapterBaseProofs ---------------------------
(***************************************************************************)
(* Proofs about AdapterBase: for every number of peers, endorsers, calls,  *)
(* contents and session ids that its assumptions allow, IInv is inductive, *)
(* and the properties below follow from it.                                *)
(*                                                                         *)
(* What the invariant is about is little of what an action does: the       *)
(* sessions and their links, ids, messages by id and request, callbacks.   *)
(* So every action is first shown to be one of a few shapes, and the       *)
(* invariant to be kept by the shapes.                                     *)
(***************************************************************************)
EXTENDS AdapterBaseProps, FiniteSetTheorems, SequenceTheorems, TLAPS

LEMMA KindsFacts ==
  /\ "free" \notin Kinds /\ NULL \notin Kinds /\ TxKinds \cap QueryKinds = {}
  /\ TxKinds \subseteq Kinds /\ QueryKinds \subseteq Kinds
  BY AdapterAssumption DEF Kinds

LEMMA FreedFacts == Freed \in Session /\ Freed.kind = "free"
  BY DEF Freed, Session

\* What Erase and the end of sessions can make of the arrays: nothing is put
\* into them, and what they held of an ended session points to freed memory.
Arrays == [Handlers -> SUBSET (Slots \cup {NULL})]

LEMMA UnlinkedFacts ==
  ASSUME NEW arrays \in Arrays, NEW n, NEW S, NEW arr \in Unlinked(arrays, n, S)
  PROVE  /\ arr \in Arrays
         /\ \A h \in Handlers : arr[h] \subseteq (arrays[h] \ S) \cup {NULL}
  <1> DEFINE left(h) == {Forget(a, S) : a \in Erasures(arrays[h], n[h])}
  <1>1. arr \in [Handlers -> UNION {left(h) : h \in Handlers}]
        /\ \A h \in Handlers : arr[h] \in left(h)
    BY DEF Unlinked
  <1>2. ASSUME NEW h \in Handlers
        PROVE  arr[h] \subseteq (arrays[h] \ S) \cup {NULL}
    <2>1. PICK a \in Erasures(arrays[h], n[h]) : arr[h] = Forget(a, S)
      BY <1>1
    <2>2. a \subseteq arrays[h]
      BY DEF Erasures
    <2> QED BY <2>1, <2>2 DEF Forget
  <1>3. \A h \in Handlers : arr[h] \subseteq Slots \cup {NULL}
    BY <1>2 DEF Arrays
  <1> QED BY <1>1, <1>2, <1>3 DEF Arrays

LEMMA CallFacts ==
  ASSUME NEW c \in Calls
  PROVE  /\ c.kind \in Kinds /\ c.wait \in BOOLEAN /\ c.kind # "free" /\ c # NULL
         /\ c.kind \in QueryKinds => ~c.wait
  BY KindsFacts, AdapterAssumption

LEMMA NextIDType ==
  ASSUME m_nSessionID \in SessionIDs
  PROVE  /\ NextID \in SessionIDs
         /\ NextID = IF m_nSessionID = MaxSessionID THEN 0 ELSE m_nSessionID + 1
  <1>1. CASE m_nSessionID = MaxSessionID
    <2>1. (MaxSessionID + 1) % (MaxSessionID + 1) = 0
      BY AdapterAssumption
    <2> QED BY <1>1, <2>1, AdapterAssumption DEF NextID, SessionIDs
  <1>2. CASE m_nSessionID # MaxSessionID
    <2>1. (m_nSessionID + 1) % (MaxSessionID + 1) = m_nSessionID + 1
      BY <1>2, AdapterAssumption DEF SessionIDs
    <2> QED BY <1>2, <2>1, AdapterAssumption DEF NextID, SessionIDs
  <1> QED BY <1>1, <1>2
-----------------------------------------------------------------------------
(* The shapes of a step. *)

\* A message descends from one that was there, or is sent for a session; the
\* only late one that is sent for a session is the submission. An endorser
\* accepts only the transaction it is named.
FromMessage(m) ==
  \E n \in net : /\ n.id = m.id /\ n.src = m.src
                 /\ m.type \in Late => n.type \in Late /\ n.h = m.h /\ n.es = m.es
                 /\ m.type = "query" => n.type = "query" /\ n.kind = m.kind
                 /\ m.type = "endorse" => n = m
                 /\ m.type \in {"accepted", "notify"} =>
                      n.type = m.type \/ (m.es # NULL /\ m.es.src \in accepted')

FromSession(m) ==
  \E slot \in Live : /\ slot[1] = m.id /\ session[slot].src = m.src
                     /\ m.type \in {"submit", "cancel"}
                     /\ m.type = "submit" => submits'[m.src] = submits[m.src] + 1

Carried == \A m \in net' : m \in Message /\ (FromMessage(m) \/ FromSession(m))

\* A message of a new call.
IsNew(m, r) ==
  /\ m \in Message /\ m.id = m_nSessionID /\ m.src = r
  /\ m.type \in {"endorse", "query"} /\ (m.type = "query" => m.kind \in QueryKinds)
  /\ m.type = "endorse" => m.kind \in TxKinds

serviceVars == <<conn, arrSession, session, map, timer, m_nSessionID>>

Called(r, c, code) ==
  /\ running /\ req[r] = NULL
  /\ req' = [req EXCEPT ![r] = c] /\ ret' = [ret EXCEPT ![r] = code]
  /\ UNCHANGED <<rsp, ntf, service, submits, accepted>>

\* In a step the arrays lose entries, or what they led to is deleted; only the
\* slots in new are put into them.
ArraysLose(gone, new) ==
  /\ arrSession' \in Arrays
  /\ \A h \in Handlers : arrSession'[h] \subseteq ((arrSession[h] \cup new) \ gone) \cup {NULL}

\* The service goes on, or it has used freed memory in the step.
GoesOn == service' \in {service, "undefined"}

Refusing ==
  \E r \in Requests, c \in Calls, code \in {"NETWORK", "DECODE"} :
    /\ Called(r, c, code)
    /\ \A m \in net' : m \in net \/ (IsNew(m, r) /\ code = "NETWORK")
    /\ ArraysLose({}, {})
    /\ UNCHANGED <<conn, session, map, timer, m_nSessionID>>

Crashing ==
  \E r \in Requests, c \in Calls :
    /\ running /\ req[r] = NULL
    /\ req' = [req EXCEPT ![r] = c] /\ service' \in {"crashed", "undefined"}
    /\ UNCHANGED <<serviceVars, net, ret, rsp, ntf, submits, accepted>>

Undefining ==
  /\ running /\ service' = "undefined"
  /\ UNCHANGED <<serviceVars, net, req, ret, rsp, ntf, submits, accepted>>

Opening ==
  \E r \in Requests, c \in Calls, S \in SUBSET Handlers, h \in Handlers,
     es \in EsSessions \cup {NULL} :
    /\ S \subseteq conn /\ h \in S
    /\ Called(r, c, "OK")
    /\ Open(NewSession(c, r, S, h, es))
    /\ \A m \in net' : m \in net \/ IsNew(m, r)
    /\ conn' = conn

\* The submissions of a step are those of one session's request.
SubmitsOf(slot) ==
  submits' = submits \/ ( /\ slot[2] = "request"
                          /\ submits' = [submits EXCEPT ![session[slot].src] = @ + 1])

Releasing ==
  \E slot \in Slots, code \in Codes :
    /\ running /\ slot \in Live
    /\ Tell(slot, code)
    /\ slot[2] = "request" /\ code = "OK" => session[slot].kind \in QueryKinds
    /\ Release(slot)
    /\ Carried /\ SubmitsOf(slot)
    /\ UNCHANGED <<conn, m_nSessionID, req, ret, accepted>>

\* The session s takes the place of another one in its slot.
Counting ==
  \E slot \in Slots, s \in Session :
    /\ running /\ slot \in Live /\ slot[2] = "request"
    /\ slot \in map[session[slot].kind]
    /\ s.kind = session[slot].kind /\ s.src = session[slot].src
    /\ s.wait = session[slot].wait
    /\ session' = [session EXCEPT ![slot] = s]
    /\ ArraysLose({}, {})
    /\ Carried /\ SubmitsOf(slot)
    /\ UNCHANGED <<conn, map, timer, m_nSessionID, service, req, ret, rsp, ntf, accepted>>

\* What becomes of the session of an accepted transaction.
Promoting ==
  \E m \in net :
    /\ TransactionAccepted(m)
    /\ m \in Message /\ Slot(m) \in Live /\ Slot(m)[2] = "request" /\ m.id \in SessionIDs
    /\ m.kind \in TxKinds /\ session[Slot(m)].kind = m.kind

Unmapping ==
  \E m \in net :
    /\ TransactionRefused(m)
    /\ Slot(m) \in Live /\ Slot(m)[2] = "request" /\ submits[session[Slot(m)].src] > 0
    /\ session[Slot(m)].kind = m.kind

Losing == \E h \in Handlers : NULL \notin arrSession[h] /\ OnNetworkError(h)

\* Nothing but messages and connections that come.
Quiet ==
  /\ conn \subseteq conn' /\ conn' \subseteq Handlers
  /\ Carried /\ accepted \subseteq accepted' /\ accepted' \subseteq Requests
  /\ UNCHANGED <<arrSession, session, map, timer, m_nSessionID, service, req, ret, rsp,
                 ntf, submits>>

Shape ==
  \/ Refusing \/ Crashing \/ Undefining \/ Opening \/ Releasing \/ Counting
  \/ Promoting \/ Unmapping \/ Losing \/ Quiet \/ OnExit
-----------------------------------------------------------------------------
(* Every action has a shape. *)

LEMMA OldIsCarried ==
  ASSUME IInv, NEW m \in net
  PROVE  m \in Message /\ FromMessage(m)
  BY DEF IInv, TypeOK, FromMessage

\* A message found in a map meets a live session of its kind.
LEMMA FoundIsLive ==
  ASSUME IInv, running, NEW m \in net, Found(m)
  PROVE  /\ m \in Message /\ m.id \in SessionIDs /\ m.kind \in Kinds /\ m.h \in Handlers
         /\ m.src \in Requests /\ Slot(m) \in Slots /\ Slot(m) \in Live
         /\ Slot(m)[1] = m.id /\ session[Slot(m)] \in Session
         /\ session[Slot(m)].kind = m.kind
         /\ session[Slot(m)].src \in Requests
         /\ session[Slot(m)].submit # NULL => session[Slot(m)].submit \in Handlers
         /\ m.type # "notify" => Slot(m)[2] = "request"
  <1>1. m \in Message
    BY DEF IInv, TypeOK
  <1>2. m.id \in SessionIDs /\ m.kind \in Kinds /\ m.h \in Handlers /\ m.src \in Requests
    BY <1>1 DEF Message
  <1>3. Slot(m) \in Slots /\ Slot(m)[1] = m.id /\ (m.type # "notify" => Slot(m)[2] = "request")
    BY <1>2 DEF Slot, Slots
  <1>4. Slot(m) \in Live /\ session[Slot(m)].kind = m.kind
    BY <1>2 DEF IInv, TimersExact, OnlyRefusedUnmapped, Found
  <1>5. session[Slot(m)] \in Session
        /\ (session[Slot(m)].submit # NULL => session[Slot(m)].submit \in Handlers)
    BY <1>3 DEF IInv, TypeOK, Session
  <1> QED BY <1>1, <1>2, <1>3, <1>4, <1>5 DEF IInv, SessionsOwned

\* Messages of a call that starts.
LEMMA NewMessages ==
  ASSUME IInv, NEW c \in Calls, NEW r \in Requests, NEW S \in SUBSET Handlers,
         NEW f \in Handlers, NEW g \in Handlers, NEW es \in EsSessions \cup {NULL}
  PROVE  LET s == NewSession(c, r, S, f, es)
         IN  /\ c.kind \in TxKinds =>
                  /\ IsNew([Msg("endorse", s, g, m_nSessionID) EXCEPT !.es = NULL], r)
                  /\ IsNew(Msg("endorse", NewSession(c, r, S, f, NULL), g, m_nSessionID), r)
             /\ c.kind \in QueryKinds =>
                  IsNew(Msg("query", NewSession(c, r, S, f, NULL), g, m_nSessionID), r)
  BY CallFacts DEF IsNew, Msg, NewSession, Message, IInv, TypeOK

LEMMA StartShape ==
  ASSUME IInv, NEW r \in Requests, NEW c \in Calls, Start(r, c)
  PROVE  Shape
  <1> USE DEF Called, serviceVars, calls, history
  <1>1. conn \subseteq Handlers /\ arrSession \in Arrays
    BY DEF IInv, TypeOK, Arrays
  <1>0. ASSUME arrSession' = arrSession
        PROVE  ArraysLose({}, {})
    BY <1>0, <1>1 DEF ArraysLose
  <1>2. CASE Reject(r, c)
    BY <1>0, <1>2 DEF Reject, Call, Shape, Refusing
  <1>3. CASE StartEndorse(r, c)
    <2> DEFINE Sent(S, h, es) ==
                 LET s == NewSession(c, r, S, h, es)
                 IN  /\ Open(s)
                     /\ net' = net \cup {[Msg("endorse", s, g, m_nSessionID) EXCEPT !.es = NULL] :
                                            g \in S}
    <2>0. PICK S \in Selections : \E h \in S : \E es \in InitialEs(r, h) : Sent(S, h, es)
      BY <1>3 DEF StartEndorse
    <2>1. PICK h \in S : \E es \in InitialEs(r, h) : Sent(S, h, es)
      BY <2>0
    <2>2. S \in SUBSET Handlers /\ S \subseteq conn /\ h \in Handlers
          /\ InitialEs(r, h) \subseteq EsSessions \cup {NULL}
      BY <1>1 DEF Selections, InitialEs, EsSessions
    <2>3. PICK es \in EsSessions \cup {NULL} : Sent(S, h, es)
      BY <2>1, <2>2
    <2>4. \A m \in net' : m \in net \/ IsNew(m, r)
      <3>1. c.kind \in TxKinds
        BY <1>3 DEF StartEndorse
      <3> QED BY <2>2, <2>3, <3>1, NewMessages
    <2> QED BY <1>3, <2>2, <2>3, <2>4 DEF StartEndorse, Call, Shape, Opening
  <1>4. CASE StartEndorseFails(r, c)
    <2> DEFINE slot == <<m_nSessionID, "request">>
               linked(f, sent, h) == sent # {} /\ h \in sent \cup {f}
               with(f, sent) == [h \in Handlers |->
                                   IF linked(f, sent, h) THEN arrSession[h] \cup {slot}
                                   ELSE arrSession[h]]
               times(f, sent) == [h \in Handlers |-> IF linked(f, sent, h) THEN 1 ELSE 0]
               Sent(S, f, sent) ==
                 /\ net' = net \cup
                      {Msg("endorse", NewSession(c, r, S, f, NULL), g, m_nSessionID) :
                         g \in sent}
                 /\ arrSession' \in Unlinked(with(f, sent), times(f, sent), {slot})
    <2>0. \E S \in Selections : \E f \in S : \E sent \in SUBSET (S \ {f}) : Sent(S, f, sent)
      BY <1>4 DEF StartEndorseFails
    <2> HIDE DEF Sent
    <2>1. PICK S \in Selections : \E f \in S, sent \in SUBSET S : Sent(S, f, sent)
      BY <2>0
    <2>2. PICK f \in S, sent \in SUBSET S : Sent(S, f, sent)
      BY <2>1
    <2>3. S \in SUBSET Handlers /\ f \in Handlers /\ sent \in SUBSET Handlers
          /\ NULL \in EsSessions \cup {NULL}
      BY <1>1 DEF Selections
    <2> DEFINE n(g) == Msg("endorse", NewSession(c, r, S, f, NULL), g, m_nSessionID)
    <2>6. \A g \in sent : IsNew(n(g), r)
      <3>1. c.kind \in TxKinds
        BY <1>4 DEF StartEndorseFails
      <3> QED BY <2>3, <3>1, NewMessages
    <2>4. \A m \in net' : m \in net \/ IsNew(m, r)
      <3>1. \A m \in net' : m \in net \/ \E g \in sent : m = n(g)
        BY <2>2 DEF Sent
      <3> HIDE DEF n
      <3> QED BY <2>6, <3>1
    <2>5. Called(r, c, "NETWORK") /\ UNCHANGED <<conn, session, map, timer, m_nSessionID>>
      BY <1>4 DEF StartEndorseFails, Call
    <2>7. ArraysLose({}, {})
      <3>1. slot \in Slots
        BY DEF IInv, TypeOK, Slots
      <3>2. arrSession' \in Unlinked(with(f, sent), times(f, sent), {slot})
        BY <2>2 DEF Sent
      <3> HIDE DEF slot
      <3>3. with(f, sent) \in Arrays
            /\ \A h \in Handlers : with(f, sent)[h] \subseteq arrSession[h] \cup {slot}
        BY <1>1, <3>1 DEF Arrays
      <3> HIDE DEF with, times
      <3>4. arrSession' \in Arrays
            /\ \A h \in Handlers : arrSession'[h] \subseteq (with(f, sent)[h] \ {slot}) \cup {NULL}
        BY <3>2, <3>3, UnlinkedFacts
      <3> QED BY <3>3, <3>4 DEF ArraysLose
    <2> HIDE DEF Called
    <2>8. Refusing
      BY <2>4, <2>5, <2>7 DEF Refusing
    <2> QED BY <2>8 DEF Shape
  <1>5. ASSUME NEW h \in Handlers, StartQuery(r, c, h)
        PROVE  Shape
    <2>0. {h} \in SUBSET Handlers /\ NULL \in EsSessions \cup {NULL}
      OBVIOUS
    <2>1. \A m \in net' : m \in net \/ IsNew(m, r)
      <3>1. c.kind \in QueryKinds
            /\ net' = net \cup {Msg("query", NewSession(c, r, {h}, h, NULL), h, m_nSessionID)}
        BY <1>5 DEF StartQuery
      <3>2. IsNew(Msg("query", NewSession(c, r, {h}, h, NULL), h, m_nSessionID), r)
        BY <2>0, <3>1, NewMessages
      <3> QED BY <3>1, <3>2
    <2>2. Open(NewSession(c, r, {h}, h, NULL)) /\ {h} \in SUBSET Handlers /\ {h} \subseteq conn
      BY <1>5 DEF StartQuery
    <2>3. Called(r, c, "OK") /\ conn' = conn
      BY <1>5 DEF StartQuery, Call
    <2> HIDE DEF Called
    <2>4. Opening
      BY <2>0, <2>1, <2>2, <2>3 DEF Opening
    <2> QED BY <2>4 DEF Shape
  <1>6. ASSUME NEW h \in Handlers, QuerySendFails(r, c, h)
        PROVE  Shape
    BY <1>0, <1>6 DEF QuerySendFails, Call, Shape, Refusing
  <1>7. CASE QueryWithoutPeers(r, c) \/ CallSendBreaks(r, c)
    BY <1>7 DEF QueryWithoutPeers, CallSendBreaks, CallEnds, Shape, Crashing
  <1> QED BY <1>2, <1>3, <1>4, <1>5, <1>6, <1>7
          DEF Start, RegistUser, CreateInformation, Propose, StartTx, QueryUserInfo,
              QueryTransactionInfo, Query

\* Counting an answer leaves a session what and where it is.
Alike(t, s) ==
  /\ t.kind = s.kind /\ t.src = s.src /\ t.wait = s.wait /\ t.hs = s.hs
  /\ t.submit = s.submit

LEMMA CountedKeeps ==
  ASSUME NEW s \in Session, NEW m \in Message, NEW c \in Contents
  PROVE  Counted(s, m, c) \in Session /\ Alike(Counted(s, m, c), s)
  <1>1. ASSUME NEW u \in Session, NEW info \in Contents \cup {Empty}
        PROVE  [u EXCEPT !.info = info] \in Session /\ Alike([u EXCEPT !.info = info], u)
    BY DEF Session, Alike
  <1>2. ASSUME NEW u \in Session, NEW n \in Nat
        PROVE  [u EXCEPT !.succ = n] \in Session /\ Alike([u EXCEPT !.succ = n], u)
    BY DEF Session, Alike
  <1>3. ASSUME NEW u \in Session, NEW es \in EsSessions \cup {NULL}
        PROVE  [u EXCEPT !.es = es] \in Session /\ Alike([u EXCEPT !.es = es], u)
    BY DEF Session, Alike
  <1> DEFINE info == IF s.info = Empty THEN c ELSE s.info
             es == IF m.h = s.submit THEN [h |-> m.h, src |-> m.src] ELSE s.es
             d == [s EXCEPT !.info = info]
             e == [d EXCEPT !.succ = s.succ + 1]
             f == [e EXCEPT !.es = es]
  <1>4. info \in Contents \cup {Empty} /\ es \in EsSessions \cup {NULL} /\ s.succ + 1 \in Nat
    BY DEF Session, Message, EsSessions
  <1> HIDE DEF info, es
  <1>5. d \in Session /\ Alike(d, s)
    BY <1>1, <1>4
  <1>6. e \in Session /\ Alike(e, d)
    <2> HIDE DEF d
    <2> QED BY <1>2, <1>4, <1>5
  <1>7. f \in Session /\ Alike(f, e)
    <2> HIDE DEF e
    <2> QED BY <1>3, <1>4, <1>6
  <1>8. Counted(s, m, c) = f
    BY DEF Counted, info, es
  <1> HIDE DEF d, e, f
  <1> QED BY <1>5, <1>6, <1>7, <1>8 DEF Alike

\* A message sent for a session.
LEMMA SentForSession ==
  ASSUME IInv, NEW m \in net, NEW s \in Session, NEW t \in Session, NEW slot \in Live,
         slot[1] = m.id, t = session[slot], Alike(s, t), s.src \in Requests,
         s.submit \in Handlers, s.kind \in Kinds
  PROVE  /\ Msg("cancel", s, s.submit, m.id) \in Message
         /\ FromSession(Msg("cancel", s, s.submit, m.id))
         /\ Submission(m, s) \in Message
         /\ submits'[s.src] = submits[s.src] + 1 => FromSession(Submission(m, s))
  <1>1. m.id \in SessionIDs /\ s.es \in EsSessions \cup {NULL}
    BY DEF IInv, TypeOK, Message, Session
  <1> QED BY <1>1 DEF Submission, Msg, Message, FromSession, Alike

\* A session ends with one of the messages that can follow.
LEMMA FailEndorseShape ==
  ASSUME IInv, running, NEW m \in net, Found(m), m.type = "endorse",
         NEW s \in Session, Alike(s, session[Slot(m)]),
         NEW code \in Codes \ {"OK"}, NEW left,
         FailEndorse(m, s, code, left),
         \A n \in left : n \in net \/ ( /\ n = Submission(m, s)
                                      /\ submits'[s.src] = submits[s.src] + 1 ),
         s.submit = NULL => left \subseteq net,
         SubmitsOf(Slot(m)), UNCHANGED <<conn, m_nSessionID, accepted>>
  PROVE  Shape
  <1>1. /\ Slot(m) \in Slots /\ Slot(m) \in Live /\ Slot(m)[1] = m.id
        /\ session[Slot(m)] \in Session /\ Slot(m)[2] = "request"
        /\ s.src \in Requests /\ s.kind \in Kinds
        /\ s.submit # NULL => s.submit \in Handlers
    BY FoundIsLive DEF Alike
  <1>3. \A n \in net' : n \in left \/ (s.submit # NULL /\ n = Msg("cancel", s, s.submit, m.id))
    <2>1. PICK cancel \in Cancels(m, s, code) : net' = left \cup cancel
      BY DEF FailEndorse
    <2>2. code = "NETWORK" \/ s.submit # NULL
      BY DEF FailEndorse
    <2> QED BY <2>1, <2>2 DEF Cancels
  <1>4. Carried
    <2>1. CASE s.submit = NULL
      BY <1>3, <2>1, OldIsCarried DEF Carried
    <2>2. CASE s.submit # NULL
      <3>1. /\ Msg("cancel", s, s.submit, m.id) \in Message
            /\ FromSession(Msg("cancel", s, s.submit, m.id))
            /\ Submission(m, s) \in Message
            /\ submits'[s.src] = submits[s.src] + 1 => FromSession(Submission(m, s))
        BY <1>1, <2>2, SentForSession
      <3> QED BY <1>3, <3>1, OldIsCarried DEF Carried
    <2> QED BY <2>1, <2>2
  <1>5. Tell(Slot(m), code)
    BY <1>1 DEF FailEndorse, OnResponse, Tell, Alike
  <1>6. Release(Slot(m)) /\ UNCHANGED <<req, ret>>
    BY DEF FailEndorse
  <1> QED BY <1>1, <1>4, <1>5, <1>6 DEF Shape, Releasing

\* What Keep does to the session whose endorsement is counted.
LEMMA KeepShape ==
  ASSUME IInv, NEW m \in net, Found(m), running, m.type = "endorse",
         NEW s \in Session, Alike(s, session[Slot(m)]), Keep(m, s),
         Carried, SubmitsOf(Slot(m)),
         UNCHANGED <<conn, map, timer, m_nSessionID, service, req, ret, rsp, ntf, accepted>>
  PROVE  Shape
  <1>1. /\ Slot(m) \in Slots /\ Slot(m) \in Live /\ Slot(m)[2] = "request" /\ m.h \in Handlers
        /\ session[Slot(m)].kind = m.kind
    BY FoundIsLive
  <1>2. Slot(m) \in map[session[Slot(m)].kind]
    BY <1>1 DEF Found
  <1>0. arrSession \in Arrays /\ session[Slot(m)] \in Session
    BY <1>1 DEF IInv, TypeOK, Arrays
  <1>3. CASE m.h = s.submit
    <2>1. ArraysLose({}, {})
      BY <1>0, <1>3 DEF Keep, ArraysLose
    <2> QED BY <1>1, <1>2, <1>3, <2>1 DEF Keep, Alike, Shape, Counting
  <1>4. CASE m.h # s.submit
    <2>1. PICK hs \in Erasures(s.hs, 1) :
            session' = [session EXCEPT ![Slot(m)] = [s EXCEPT !.hs = hs]]
      BY <1>4 DEF Keep
    <2>2. PICK a \in Erasures(arrSession[m.h], 1) :
            arrSession' = [arrSession EXCEPT ![m.h] = a]
      BY <1>4 DEF Keep
    <2>3. hs \subseteq s.hs /\ a \subseteq arrSession[m.h]
      BY DEF Erasures
    <2>4. ArraysLose({}, {})
      BY <1>0, <1>1, <2>2, <2>3 DEF Arrays, ArraysLose
    <2> DEFINE t == [s EXCEPT !.hs = hs]
    <2>5. t \in Session /\ t.kind = s.kind /\ t.src = s.src /\ t.wait = s.wait
      BY <2>3 DEF Session
    <2>6. session' = [session EXCEPT ![Slot(m)] = t]
      BY <2>1
    <2> HIDE DEF t
    <2>7. Counting
      BY <1>1, <1>2, <2>4, <2>5, <2>6 DEF Alike, Counting
    <2> QED BY <2>7 DEF Shape
  <1> QED BY <1>3, <1>4

LEMMA EndorseRspShape ==
  ASSUME IInv, NEW m \in net, EndorseRsp(m)
  PROVE  Shape
  <1> USE DEF history, calls
  <1>1. CASE EndorseFails(m)
    <2>1. PICK code \in {"SERVER", "NETWORK"} :
            FailEndorse(m, session[Slot(m)], code, net \ {m})
      BY <1>1 DEF EndorseFails
    <2>2. running /\ Found(m) /\ m.type = "endorse" /\ SubmitsOf(Slot(m))
          /\ UNCHANGED <<conn, m_nSessionID, accepted>>
      BY <1>1 DEF EndorseFails, Arrived, SubmitsOf
    <2>3. session[Slot(m)] \in Session /\ Alike(session[Slot(m)], session[Slot(m)])
          /\ code \in Codes \ {"OK"}
      BY <2>2, FoundIsLive DEF Alike, Codes
    <2>4. \A n \in net \ {m} : n \in net
      OBVIOUS
    <2> QED BY <2>1, <2>2, <2>3, <2>4, FailEndorseShape
  <1>2. ASSUME NEW c \in Contents, Reaches(m, c)
        PROVE  LET s == session[Slot(m)]
                   t == Counted(s, m, c)
               IN  /\ running /\ Found(m) /\ m.type = "endorse" /\ m \in Message
                   /\ s \in Session /\ Alike(s, s) /\ t \in Session /\ Alike(t, s)
                   /\ s.src \in Requests /\ s.kind \in Kinds
                   /\ s.submit # NULL => s.submit \in Handlers
                   /\ Slot(m) \in Live /\ Slot(m)[1] = m.id /\ Slot(m)[2] = "request"
    <2>1. running /\ Found(m) /\ m.type = "endorse"
      BY <1>2 DEF Reaches, Arrived
    <2>2. session[Slot(m)] \in Session /\ m \in Message
      BY <2>1, FoundIsLive
    <2> QED BY <2>1, <2>2, FoundIsLive, CountedKeeps DEF Alike
  <1>3. ASSUME net' = net \ {m}
        PROVE  Carried
    BY <1>3, OldIsCarried DEF Carried
  <1>4. ASSUME NEW s \in Session, s.src \in Requests, Slot(m)[2] = "request",
               Alike(s, session[Slot(m)]),
               submits' = [submits EXCEPT ![s.src] = @ + 1]
        PROVE  submits'[s.src] = submits[s.src] + 1 /\ SubmitsOf(Slot(m))
    BY <1>4 DEF IInv, SubmitsOf, Alike
  <1>5. ASSUME NEW c \in Contents, EndorseWaits(m, c)
        PROVE  Shape
    <2> DEFINE s == Counted(session[Slot(m)], m, c)
    <2>1. Reaches(m, c) /\ Keep(m, s) /\ net' = net \ {m} /\ SubmitsOf(Slot(m))
          /\ UNCHANGED <<conn, map, timer, m_nSessionID, service, req, ret, rsp, ntf, accepted>>
      BY <1>5 DEF EndorseWaits, Accepting, SubmitsOf
    <2>2. running /\ Found(m) /\ m.type = "endorse" /\ s \in Session
          /\ Alike(s, session[Slot(m)]) /\ Carried
      BY <1>2, <1>3, <2>1
    <2> HIDE DEF s
    <2> QED BY <2>1, <2>2, KeepShape
  <1>6. ASSUME NEW c \in Contents, Submit(m, c)
        PROVE  Shape
    <2> DEFINE s == Counted(session[Slot(m)], m, c)
    <2>1. Reaches(m, c) /\ Keep(m, s) /\ net' = (net \ {m}) \cup {Submission(m, s)}
          /\ s.submit # NULL /\ submits' = [submits EXCEPT ![s.src] = @ + 1]
          /\ UNCHANGED <<conn, map, timer, m_nSessionID, service, req, ret, rsp, ntf, accepted>>
      BY <1>6 DEF Submit, Accepting
    <2>2. /\ running /\ Found(m) /\ m.type = "endorse" /\ s \in Session
          /\ Alike(s, session[Slot(m)]) /\ session[Slot(m)] \in Session
          /\ session[Slot(m)].src \in Requests /\ session[Slot(m)].kind \in Kinds
          /\ session[Slot(m)].submit # NULL => session[Slot(m)].submit \in Handlers
          /\ Slot(m) \in Live /\ Slot(m)[1] = m.id /\ Slot(m)[2] = "request"
      BY <1>2, <2>1
    <2> HIDE DEF s
    <2>3. s.src \in Requests /\ s.submit \in Handlers /\ s.kind \in Kinds
      BY <2>1, <2>2 DEF Alike
    <2>4. submits'[s.src] = submits[s.src] + 1 /\ SubmitsOf(Slot(m))
      BY <1>4, <2>1, <2>2, <2>3
    <2>5. Submission(m, s) \in Message /\ FromSession(Submission(m, s))
      BY <2>2, <2>3, <2>4, SentForSession
    <2>6. Carried
      BY <2>1, <2>5, OldIsCarried DEF Carried
    <2> QED BY <2>1, <2>2, <2>4, <2>6, KeepShape
  <1>7. ASSUME NEW c \in Contents, SubmitSendFails(m, c)
        PROVE  Shape
    <2> DEFINE s == Counted(session[Slot(m)], m, c)
    <2>1. Reaches(m, c) /\ FailEndorse(m, s, "NETWORK", net \ {m}) /\ SubmitsOf(Slot(m))
          /\ UNCHANGED <<conn, m_nSessionID, accepted>>
      BY <1>7 DEF SubmitSendFails, Accepting, SubmitsOf
    <2>2. running /\ Found(m) /\ m.type = "endorse" /\ s \in Session
          /\ Alike(s, session[Slot(m)]) /\ "NETWORK" \in Codes \ {"OK"}
      BY <1>2, <2>1 DEF Codes
    <2> HIDE DEF s
    <2> QED BY <2>1, <2>2, FailEndorseShape
  <1>8. ASSUME NEW c \in Contents, EndorseMismatch(m, c)
        PROVE  Shape
    <2>1. Reaches(m, c) /\ FailEndorse(m, session[Slot(m)], "SYSTEM", net \ {m})
          /\ SubmitsOf(Slot(m)) /\ UNCHANGED <<conn, m_nSessionID, accepted>>
      BY <1>8 DEF EndorseMismatch, SubmitsOf
    <2>2. running /\ Found(m) /\ m.type = "endorse" /\ session[Slot(m)] \in Session
          /\ Alike(session[Slot(m)], session[Slot(m)]) /\ "SYSTEM" \in Codes \ {"OK"}
      BY <1>2, <2>1 DEF Codes
    <2> QED BY <2>1, <2>2, FailEndorseShape
  <1>9. ASSUME NEW c \in Contents, MismatchSubmits(m, c)
        PROVE  Shape
    <2> DEFINE s == session[Slot(m)]
    <2>1. Reaches(m, c) /\ s.submit # NULL /\ UNCHANGED <<conn, m_nSessionID, accepted>>
      BY <1>9 DEF MismatchSubmits
    <2>2. /\ running /\ Found(m) /\ m.type = "endorse" /\ s \in Session /\ s.src \in Requests
          /\ Alike(s, s) /\ Slot(m)[2] = "request"
      BY <1>2, <2>1
    <2>3. {"SYSTEM", "NETWORK"} \subseteq Codes \ {"OK"}
      BY DEF Codes
    <2>4. CASE /\ FailEndorse(m, s, "SYSTEM", (net \ {m}) \cup {Submission(m, s)})
               /\ submits' = [submits EXCEPT ![s.src] = @ + 1]
      <3>1. submits'[s.src] = submits[s.src] + 1 /\ SubmitsOf(Slot(m))
        BY <1>4, <2>2, <2>4
      <3> QED BY <2>1, <2>2, <2>3, <2>4, <3>1, FailEndorseShape
    <2>5. CASE FailEndorse(m, s, "NETWORK", net \ {m}) /\ UNCHANGED submits
      <3>1. SubmitsOf(Slot(m))
        BY <2>5 DEF SubmitsOf
      <3> QED BY <2>1, <2>2, <2>3, <2>5, <3>1, FailEndorseShape
    <2> QED BY <1>9, <2>4, <2>5 DEF MismatchSubmits
  <1>10. CASE EndorseSendBreaks(m)
    BY <1>10 DEF EndorseSendBreaks, Arrived, Undefined, Shape, Undefining, serviceVars
  <1> QED BY <1>1, <1>5, <1>6, <1>7, <1>8, <1>9, <1>10 DEF EndorseRsp

LEMMA OnHtsMsgShape ==
  ASSUME IInv, NEW m \in net, OnHtsMsg(m)
  PROVE  Shape
  <1> USE DEF history, calls
  <1>1. ASSUME net' = net \ {m}
        PROVE  Carried
    BY <1>1, OldIsCarried DEF Carried
  <1>2. CASE NoSession(m)
    <2>1. conn \subseteq Handlers /\ accepted \subseteq Requests
      BY DEF IInv, TypeOK
    <2> QED BY <1>1, <1>2, <2>1 DEF NoSession, Shape, Quiet
  <1>3. CASE EndorseRsp(m)
    BY <1>3, EndorseRspShape
  <1>4. CASE m.kind \in {"regist", "info", "propose"} /\ TransactionAccepted(m)
    <2>1. running /\ Found(m) /\ m.type = "accepted"
      BY <1>4 DEF TransactionAccepted, Arrived
    <2>2. m \in Message /\ Slot(m) \in Live /\ Slot(m)[2] = "request" /\ m.id \in SessionIDs
          /\ session[Slot(m)].kind = m.kind
      BY <2>1, FoundIsLive
    <2>3. m.kind \in TxKinds
      BY <1>4, <2>2, AdapterAssumption DEF Message, Kinds
    <2> QED BY <1>4, <2>2, <2>3 DEF Shape, Promoting
  <1>5. CASE TransactionRefused(m)
    <2>1. running /\ Found(m) /\ m.type = "refused"
      BY <1>5 DEF TransactionRefused, Arrived
    <2>2. Slot(m) \in Live /\ Slot(m)[2] = "request" /\ Slot(m)[1] = m.id
          /\ session[Slot(m)].kind = m.kind
      BY <2>1, FoundIsLive
    <2>3. ~Stale(m.src) /\ submits[m.src] > 0
      BY <2>1 DEF IInv, MessagesFit, Late, Stale
    <2>4. session[Slot(m)].src = m.src
      BY <2>2, <2>3 DEF IInv, OwnMessages
    <2> QED BY <1>5, <2>2, <2>3, <2>4 DEF Shape, Unmapping
  <1>6. CASE Finish(m)
    <2>1. running /\ Found(m) /\ m.type \in {"notify", "query"} /\ net' = net \ {m}
      BY <1>6 DEF Finish, Arrived
    <2>2. /\ Slot(m) \in Live /\ Slot(m) \in Slots /\ session[Slot(m)].kind = m.kind
          /\ m.type # "notify" => Slot(m)[2] = "request"
      BY <2>1, FoundIsLive
    <2>3. PICK code \in {"OK", "SERVER"} : Tell(Slot(m), code)
      BY <1>6 DEF Finish
    <2>4. Slot(m)[2] = "request" => m.kind \in QueryKinds
      BY <2>1 DEF IInv, MessagesFit, Slot
    <2>5. Release(Slot(m)) /\ UNCHANGED <<conn, m_nSessionID, req, ret, accepted>>
          /\ SubmitsOf(Slot(m))
      BY <1>6 DEF Finish, SubmitsOf
    <2>6. Releasing
      BY <1>1, <2>1, <2>2, <2>3, <2>4, <2>5 DEF Releasing, Codes
    <2> QED BY <2>6 DEF Shape
  <1> QED BY <1>2, <1>3, <1>4, <1>5, <1>6
          DEF OnHtsMsg, RegistUserEsCltRsp, SubmitRegistUserEsCltRsp,
              CreateInformationEsCltRsp, SubmitCreateInformationEsCltRsp, ProposeEsCltRsp,
              SubmitProposalEsCltRsp, SubmitRsp, SubscribeNotify, QueryUserInfoEsCltRsp,
              QueryTransInfoEsCltRsp

LEMMA EndorserShape ==
  ASSUME IInv, NEW m \in net, EsAccept(m) \/ EsRefuse(m) \/ EsCancel(m)
  PROVE  Shape
  <1> USE DEF history, calls
  <1>0. conn \subseteq Handlers /\ accepted \subseteq Requests /\ m \in Message
    BY DEF IInv, TypeOK
  <1>1. ASSUME m.type = "submit", NEW type \in {"accepted", "refused", "notify"},
               type = "refused" \/ (m.es # NULL /\ m.es.src \in accepted')
        PROVE  LET n == [m EXCEPT !.type = type]
               IN  n \in Message /\ FromMessage(n)
    BY <1>0, <1>1 DEF Message, FromMessage, Late
  <1>2. CASE EsAccept(m)
    <2>1. \A n \in net' : \/ n \in net
                         \/ \E type \in {"accepted", "notify"} : n = [m EXCEPT !.type = type]
      BY <1>2 DEF EsAccept
    <2>0. m.type = "submit" /\ m.es # NULL /\ m.es.src \in accepted'
          /\ accepted \subseteq accepted'
      BY <1>2 DEF EsAccept
    <2>2. Carried
      <3>1. ASSUME NEW type \in {"accepted", "notify"}
            PROVE  /\ [m EXCEPT !.type = type] \in Message
                   /\ FromMessage([m EXCEPT !.type = type])
        BY <1>1, <2>0
      <3> QED BY <2>1, <3>1, OldIsCarried DEF Carried
    <2>3. m.es.src \in Requests
      BY <1>0, <1>2 DEF EsAccept, Message, EsSessions
    <2> QED BY <1>0, <1>2, <2>0, <2>2, <2>3 DEF EsAccept, Shape, Quiet
  <1>3. CASE EsRefuse(m)
    <2>1. \A n \in net' : n \in net \/ n = [m EXCEPT !.type = "refused"]
      BY <1>3 DEF EsRefuse
    <2>2. Carried
      <3>1. [m EXCEPT !.type = "refused"] \in Message
            /\ FromMessage([m EXCEPT !.type = "refused"])
        BY <1>1, <1>3 DEF EsRefuse
      <3> QED BY <2>1, <3>1, OldIsCarried DEF Carried
    <2> QED BY <1>0, <1>3, <2>2 DEF EsRefuse, Shape, Quiet
  <1>4. CASE EsCancel(m)
    <2>1. Carried
      BY <1>4, OldIsCarried DEF EsCancel, Carried
    <2> QED BY <1>0, <1>4, <2>1 DEF EsCancel, Shape, Quiet
  <1> QED BY <1>2, <1>3, <1>4

LEMMA NextShape ==
  ASSUME IInv, Next
  PROVE  Shape
  <1> USE DEF history, calls
  <1>1. ASSUME net' = net
        PROVE  Carried
    BY <1>1, OldIsCarried DEF Carried
  <1>2. ASSUME NEW slot \in Slots, OnTimeOut(slot)
        PROVE  Shape
    <2>1. slot \in Live
      BY <1>2 DEF OnTimeOut, IInv, TimersExact
    <2>2. Releasing
      BY <1>1, <1>2, <2>1 DEF OnTimeOut, Releasing, SubmitsOf, Codes
    <2> QED BY <2>2 DEF Shape
  <1>3. ASSUME NEW h \in Handlers, OnConnectedNodify(h)
        PROVE  Shape
    BY <1>1, <1>3 DEF OnConnectedNodify, Shape, Quiet, IInv, TypeOK
  <1>4. ASSUME NEW h \in Handlers, OnNetworkError(h)
        PROVE  Shape
    <2>1. CASE NULL \notin arrSession[h]
      BY <1>4, <2>1 DEF Shape, Losing
    <2>2. CASE NULL \in arrSession[h]
      BY <1>4, <2>2 DEF OnNetworkError, Undefined, Shape, Undefining, serviceVars
    <2> QED BY <2>1, <2>2
  <1>5. CASE OnExit
    BY <1>5 DEF Shape
  <1> QED BY <1>2, <1>3, <1>4, <1>5, StartShape, OnHtsMsgShape, EndorserShape DEF Next

-----------------------------------------------------------------------------
(* The shapes keep the sessions and their links. *)

Sessions ==
  /\ TypeOK /\ submits \in [Requests -> Nat]
  /\ TimersExact /\ ArraysLead /\ OnlyRefusedUnmapped
  /\ SessionsOwned /\ OneSession /\ UnsentUntouched

LEMMA LiveFacts ==
  ASSUME Sessions, NEW slot \in Live
  PROVE  /\ slot \in Slots /\ slot[1] \in SessionIDs /\ slot[2] \in {"request", "notify"}
         /\ slot = <<slot[1], slot[2]>>
         /\ session[slot] \in Session /\ session[slot].kind \in Kinds
         /\ session[slot].src \in Requests /\ session[slot].submit \in Handlers \cup {NULL}
  <1>1. slot \in Slots /\ session[slot].kind # "free"
    BY DEF Live
  <1>2. session[slot] \in Session
    BY <1>1 DEF Sessions, TypeOK
  <1>3. session[slot].kind \in Kinds /\ session[slot].submit \in Handlers \cup {NULL}
    BY <1>1, <1>2 DEF Session
  <1>4. session[slot].src \in Requests
    BY DEF Sessions, SessionsOwned
  <1> QED BY <1>1, <1>2, <1>3, <1>4 DEF Slots

\* Arrays that lose entries lead to what is left.
LEMMA ArraysStillLead ==
  ASSUME Sessions, NEW gone, NEW new, ArraysLose(gone, new), running,
         (Live \cup new) \ gone \subseteq Live'
  PROVE  ArraysLead' /\ arrSession' \in [Handlers -> SUBSET (Slots \cup {NULL})]
  BY DEF Sessions, ArraysLead, ArraysLose, Arrays

\* A call that has no session yet is none that a session stands for.
LEMMA CalledIsNew ==
  ASSUME Sessions, NEW r \in Requests, req[r] = NULL
  PROVE  /\ ret[r] = NULL /\ rsp[r] = <<>>
         /\ \A slot \in Live : session[slot].src # r
  BY DEF Sessions, UnsentUntouched, SessionsOwned

LEMMA RefusingSessions ==
  ASSUME Sessions, Refusing
  PROVE  Sessions'
  <1>1. PICK r \in Requests, c \in Calls, code \in {"NETWORK", "DECODE"} :
          /\ Called(r, c, code)
          /\ \A m \in net' : m \in net \/ IsNew(m, r)
          /\ ArraysLose({}, {})
          /\ UNCHANGED <<conn, session, map, timer, m_nSessionID>>
    BY DEF Refusing
  <1>2. ret[r] = NULL /\ rsp[r] = <<>> /\ \A slot \in Live : session[slot].src # r
    BY <1>1, CalledIsNew DEF Called
  <1>7. ArraysLead' /\ arrSession' \in [Handlers -> SUBSET (Slots \cup {NULL})]
    <2>1. running /\ (Live \cup {}) \ {} \subseteq Live'
      BY <1>1 DEF Called, Live
    <2> QED BY <1>1, <2>1, ArraysStillLead
  <1>3. TypeOK' /\ submits' \in [Requests -> Nat]
    BY <1>1, <1>7 DEF Sessions, TypeOK, Called, IsNew
  <1>4. TimersExact' /\ OnlyRefusedUnmapped' /\ OneSession'
    BY <1>1 DEF Sessions, Called, running, Live, TimersExact, OnlyRefusedUnmapped,
                Refused, OneSession
  <1>5. SessionsOwned'
    BY <1>1, <1>2 DEF Sessions, TypeOK, Called, Live, SessionsOwned
  <1>6. UnsentUntouched'
    BY <1>1, <1>2, CallFacts DEF Sessions, TypeOK, Called, UnsentUntouched
  <1> QED BY <1>3, <1>4, <1>5, <1>6, <1>7 DEF Sessions

LEMMA CrashingSessions ==
  ASSUME Sessions, Crashing
  PROVE  Sessions'
  <1>1. PICK r \in Requests, c \in Calls :
          /\ running /\ req[r] = NULL
          /\ req' = [req EXCEPT ![r] = c] /\ service' \in {"crashed", "undefined"}
          /\ UNCHANGED <<serviceVars, net, ret, rsp, ntf, submits, accepted>>
    BY DEF Crashing
  <1>2. ret[r] = NULL /\ rsp[r] = <<>> /\ \A slot \in Live : session[slot].src # r
    BY <1>1, CalledIsNew
  <1>3. TypeOK' /\ submits' \in [Requests -> Nat]
    BY <1>1 DEF Sessions, TypeOK, serviceVars
  <1>4. TimersExact' /\ ArraysLead' /\ OnlyRefusedUnmapped' /\ OneSession'
    BY <1>1 DEF Sessions, serviceVars, running, Live, TimersExact, ArraysLead,
                OnlyRefusedUnmapped, OneSession
  <1>5. SessionsOwned'
    BY <1>1, <1>2 DEF Sessions, TypeOK, serviceVars, Live, SessionsOwned
  <1>6. UnsentUntouched'
    BY <1>1, <1>2, CallFacts DEF Sessions, TypeOK, UnsentUntouched
  <1> QED BY <1>3, <1>4, <1>5, <1>6 DEF Sessions

LEMMA UndefiningSessions ==
  ASSUME Sessions, Undefining
  PROVE  Sessions'
  <1> USE DEF Undefining, serviceVars
  <1>1. TypeOK' /\ submits' \in [Requests -> Nat]
    BY DEF Sessions, TypeOK
  <1>2. TimersExact' /\ ArraysLead' /\ OnlyRefusedUnmapped'
    BY DEF TimersExact, ArraysLead, OnlyRefusedUnmapped, running
  <1>3. SessionsOwned' /\ OneSession' /\ UnsentUntouched'
    BY DEF Sessions, Live, OneSession, SessionsOwned, UnsentUntouched
  <1> QED BY <1>1, <1>2, <1>3 DEF Sessions

LEMMA QuietSessions ==
  ASSUME Sessions, Quiet
  PROVE  Sessions'
  <1>1. TypeOK' /\ submits' \in [Requests -> Nat]
    BY DEF Sessions, TypeOK, Quiet, Carried
  <1>2. TimersExact' /\ ArraysLead'
    BY DEF Sessions, Quiet, running, Live, TimersExact, ArraysLead
  <1>3. OnlyRefusedUnmapped' /\ OneSession' /\ SessionsOwned' /\ UnsentUntouched'
    BY DEF Sessions, Quiet, running, Live, OnlyRefusedUnmapped, Refused, OneSession,
           SessionsOwned, UnsentUntouched
  <1> QED BY <1>1, <1>2, <1>3 DEF Sessions

LEMMA OpeningSessions ==
  ASSUME Sessions, Opening, \A slot \in Live : slot[1] # m_nSessionID
  PROVE  Sessions'
  <1>1. PICK r \in Requests, c \in Calls, S \in SUBSET Handlers, h \in Handlers,
            es \in EsSessions \cup {NULL} :
          /\ S \subseteq conn /\ h \in S
          /\ Called(r, c, "OK")
          /\ Open(NewSession(c, r, S, h, es))
          /\ \A m \in net' : m \in net \/ IsNew(m, r)
          /\ conn' = conn
    BY DEF Opening
  <1> DEFINE s == NewSession(c, r, S, h, es)
             new == <<m_nSessionID, "request">>
  <1>2. ret[r] = NULL /\ rsp[r] = <<>> /\ \A slot \in Live : session[slot].src # r
    BY <1>1, CalledIsNew DEF Called
  <1>3. /\ s \in Session /\ s.kind = c.kind /\ s.src = r /\ s.hs = S /\ s.submit = h
        /\ s.wait = c.wait /\ s.kind \in Kinds /\ s.kind # "free"
    BY CallFacts DEF NewSession, Session
  <1>4. new \in Slots /\ new \notin Live /\ new[1] = m_nSessionID /\ new[2] = "request"
    BY DEF Sessions, TypeOK, Slots
  <1>5. /\ session' = [session EXCEPT ![new] = s]
        /\ arrSession' = [g \in Handlers |->
                            IF g \in s.hs THEN arrSession[g] \cup {new} ELSE arrSession[g]]
        /\ timer' = timer \cup {new}
        /\ map' = [map EXCEPT ![s.kind] = @ \cup {new}]
        /\ m_nSessionID' = NextID
    BY <1>1 DEF Open
  <1> HIDE DEF s, new
  <1>6. \A slot \in Slots : session'[slot] = IF slot = new THEN s ELSE session[slot]
    BY <1>5 DEF Sessions, TypeOK
  <1>7. Live' = Live \cup {new}
    BY <1>3, <1>4, <1>6 DEF Live
  <1>8. TypeOK' /\ submits' \in [Requests -> Nat]
    BY <1>1, <1>3, <1>4, <1>5, NextIDType DEF Sessions, TypeOK, Called, IsNew
  <1>14. ArraysLead'
    <2>1. running /\ running' /\ \A g \in Handlers : arrSession'[g] \subseteq arrSession[g] \cup {new}
      BY <1>1, <1>5 DEF Called, running
    <2> QED BY <1>7, <2>1 DEF Sessions, ArraysLead
  <1>9. TimersExact'
    <2> SUFFICES ASSUME running PROVE TimersExact'
      BY <1>1 DEF Called
    <2>1. \A k \in Kinds : map'[k] \subseteq Live'
      BY <1>3, <1>5, <1>7 DEF Sessions, TypeOK, TimersExact
    <2> QED BY <2>1, <1>5, <1>7 DEF TimersExact, Sessions
  <1>10. OnlyRefusedUnmapped'
    <2>1. running /\ running' /\ submits' = submits
      BY <1>1 DEF Called, running
    <2>2. \A slot \in Live', k \in Kinds :
            slot \in map'[k] <=> slot \in map[k] \/ (slot = new /\ k = s.kind)
      BY <1>3, <1>5 DEF Sessions, TypeOK
    <2>3. \A k \in Kinds : new \notin map[k]
      BY <1>4, <2>1 DEF Sessions, TimersExact
    <2>4. new \notin Refused'
      BY <1>3, <1>4, <1>6, <1>7, <2>2 DEF Refused
    <2>5. \A slot \in Live : session'[slot] = session[slot] /\ slot # new
      BY <1>4, <1>6 DEF Live
    <2>6. Refused' \subseteq Refused
      BY <1>7, <2>2, <2>4, <2>5, LiveFacts DEF Refused
    <2> QED BY <1>3, <1>4, <1>6, <1>7, <2>1, <2>2, <2>3, <2>5, <2>6
            DEF Sessions, OnlyRefusedUnmapped, running, Refused
  <1>11. SessionsOwned'
    <2>1. \A slot \in Live : session'[slot] = session[slot] /\ slot # new
      BY <1>4, <1>6 DEF Live
    <2>2. session'[new] = s
      BY <1>4, <1>6
    <2>3. \A q \in Requests : /\ req'[q] = IF q = r THEN c ELSE req[q]
                              /\ ret'[q] = IF q = r THEN "OK" ELSE ret[q]
      BY <1>1 DEF Sessions, TypeOK, Called
    <2> QED BY <1>1, <1>2, <1>3, <1>7, <2>1, <2>2, <2>3, CallFacts
            DEF Sessions, SessionsOwned, Called
  <1>12. OneSession'
    BY <1>2, <1>3, <1>4, <1>6, <1>7, LiveFacts DEF Sessions, OneSession
  <1>13. UnsentUntouched'
    BY <1>1, <1>2, CallFacts DEF Sessions, TypeOK, Called, UnsentUntouched
  <1> QED BY <1>8, <1>9, <1>10, <1>11, <1>12, <1>13, <1>14 DEF Sessions

LEMMA Appended ==
  ASSUME NEW f \in [Requests -> Seq(Codes)], NEW q \in Requests, NEW code \in Codes
  PROVE  LET g == [f EXCEPT ![q] = Append(@, code)]
         IN  /\ g \in [Requests -> Seq(Codes)] /\ g[q] = Append(f[q], code)
             /\ \A r \in Requests : r # q => g[r] = f[r]
  <1>1. Append(f[q], code) \in Seq(Codes)
    OBVIOUS
  <1> QED BY <1>1

\* What is said when a session ends.
LEMMA ToldType ==
  ASSUME Sessions, NEW slot \in Live, NEW code \in Codes, Tell(slot, code)
  PROVE  /\ rsp' \in [Requests -> Seq(Codes)] /\ ntf' \in [Requests -> Seq(Codes)]
         /\ \A r \in Requests : r # session[slot].src => rsp'[r] = rsp[r] /\ ntf'[r] = ntf[r]
         /\ slot[2] = "request" => /\ rsp'[session[slot].src] = Append(rsp[session[slot].src], code)
                                   /\ ntf' = ntf
         /\ slot[2] = "notify" => /\ ntf'[session[slot].src] = Append(ntf[session[slot].src], code)
                                  /\ rsp' = rsp
  <1>1. session[slot].src \in Requests
    BY LiveFacts
  <1>0. rsp \in [Requests -> Seq(Codes)] /\ ntf \in [Requests -> Seq(Codes)]
    BY DEF Sessions, TypeOK
  <1>2. CASE slot[2] = "request"
    <2>1. rsp' = [rsp EXCEPT ![session[slot].src] = Append(@, code)] /\ ntf' = ntf
      BY <1>2 DEF Tell, OnResponse
    <2> QED BY <1>0, <1>1, <1>2, <2>1, Appended
  <1>3. CASE slot[2] # "request"
    <2>1. ntf' = [ntf EXCEPT ![session[slot].src] = Append(@, code)] /\ rsp' = rsp
      BY <1>3 DEF Tell, OnNotify
    <2> QED BY <1>0, <1>1, <1>3, <2>1, Appended
  <1> QED BY <1>2, <1>3

\* What stays the same of a session whose connections change.
Kin(t, s) == t.kind = s.kind /\ t.src = s.src /\ t.wait = s.wait

\* Sessions that go, without a trace.
LEMMA GoneSessions ==
  ASSUME Sessions, running, NEW S \in SUBSET Live,
         session' \in [Slots -> Session],
         \A slot \in S : session'[slot] = Freed,
         \A slot \in Slots \ S : Kin(session'[slot], session[slot]),
         map' = Erase(S), timer' = timer \ S, ArraysLose(S, {}),
         GoesOn, req' = req, ret' = ret,
         submits' \in [Requests -> Nat], \A r \in Requests : submits'[r] >= submits[r],
         \A slot \in Live \ S : rsp'[session[slot].src] = rsp[session[slot].src]
  PROVE  /\ TimersExact' /\ ArraysLead' /\ OnlyRefusedUnmapped' /\ SessionsOwned' /\ OneSession'
         /\ Live' = Live \ S
         /\ map' \in [Kinds -> SUBSET Slots]
         /\ arrSession' \in [Handlers -> SUBSET (Slots \cup {NULL})]
         /\ service' \in {"running", "undefined"}
  <1>1. service' \in {"running", "undefined"}
    BY DEF GoesOn, running
  <1>2. Live' = Live \ S /\ \A slot \in Live' : Kin(session'[slot], session[slot])
    <2>1. S \subseteq Slots
      BY DEF Live
    <2> QED BY <2>1, FreedFacts DEF Live, Kin
  <1>4. \A k \in Kinds : map'[k] = map[k] \ S
    BY DEF Erase
  <1>5. map' \in [Kinds -> SUBSET Slots]
    BY DEF Sessions, TypeOK, Erase
  <1>6. ArraysLead' /\ arrSession' \in [Handlers -> SUBSET (Slots \cup {NULL})]
    <2>1. (Live \cup {}) \ S \subseteq Live'
      BY <1>2
    <2> QED BY <2>1, ArraysStillLead
  <1>8. TimersExact'
    <2>2. \A k \in Kinds : map'[k] \subseteq Live'
      BY <1>2, <1>4 DEF Sessions, TimersExact
    <2>3. timer' = Live'
      BY <1>2 DEF Sessions, TimersExact
    <2> QED BY <2>2, <2>3 DEF TimersExact
  <1>9. OnlyRefusedUnmapped'
    <2>1. service' # "exited"
      BY <1>1
    <2>2. \A slot \in Live' : \A k \in Kinds : slot \in map'[k] => k = session'[slot].kind
      BY <1>2, <1>4 DEF Sessions, OnlyRefusedUnmapped, Kin
    <2>3. Refused' \subseteq Refused /\ Refused \subseteq Live
      BY <1>2, <1>4, LiveFacts DEF Refused, Kin
    <2>4. ASSUME NEW slot \in Refused'
          PROVE  slot[2] = "request" /\ submits'[session'[slot].src] > 0
      <3>1. slot \in Live' /\ session'[slot].src = session[slot].src
        BY <1>2 DEF Refused, Kin
      <3>2. slot[2] = "request" /\ submits[session[slot].src] > 0
        BY <2>3 DEF Sessions, OnlyRefusedUnmapped
      <3>3. session[slot].src \in Requests
        BY <2>3, LiveFacts
      <3>4. submits'[session[slot].src] >= submits[session[slot].src]
        BY <3>3
      <3>5. submits[session[slot].src] \in Nat /\ submits'[session[slot].src] \in Nat
        BY <3>3 DEF Sessions
      <3> QED BY <3>1, <3>2, <3>4, <3>5
    <2> QED BY <2>1, <2>2, <2>4 DEF OnlyRefusedUnmapped
  <1>10. SessionsOwned'
    <2> SUFFICES ASSUME NEW slot \in Live'
                 PROVE  LET s == session[slot]
                        IN  /\ s.src \in Requests
                            /\ ret[s.src] = "OK" /\ req[s.src] # NULL
                            /\ req[s.src].kind = s.kind
                            /\ slot[2] = "request" => /\ rsp'[s.src] = <<>>
                                                       /\ s.wait = req[s.src].wait
      BY <1>2 DEF SessionsOwned, Kin
    <2>1. slot \in Live \ S
      BY <1>2
    <2>2. rsp'[session[slot].src] = rsp[session[slot].src]
      BY <2>1
    <2> QED BY <2>1, <2>2 DEF Sessions, SessionsOwned
  <1>11. OneSession'
    BY <1>2 DEF Sessions, OneSession, Kin
  <1> QED BY <1>1, <1>2, <1>5, <1>6, <1>8, <1>9, <1>10, <1>11

LEMMA SubmitsGrow ==
  ASSUME Sessions, NEW slot \in Live, SubmitsOf(slot)
  PROVE  /\ submits' \in [Requests -> Nat]
         /\ \A r \in Requests : submits'[r] >= submits[r]
         /\ \A r \in Requests :
              submits'[r] # submits[r] => slot[2] = "request" /\ r = session[slot].src
  <1>1. session[slot].src \in Requests
    BY LiveFacts
  <1>2. submits \in [Requests -> Nat]
    BY DEF Sessions
  <1> QED BY <1>1, <1>2 DEF SubmitsOf

\* Sessions that are erased and deleted, and what the arrays may be then.
LEMMA Deleted ==
  ASSUME Sessions, NEW S \in SUBSET Live
  PROVE  /\ Delete(S) \in [Slots -> Session]
         /\ \A i \in Slots : Delete(S)[i] = IF i \in S THEN Freed ELSE session[i]
         /\ \A i \in Slots \ S : Kin(Delete(S)[i], session[i])
  BY FreedFacts DEF Delete, Sessions, TypeOK, Kin

LEMMA Cleaned ==
  ASSUME Sessions, NEW S
  PROVE  /\ Cleared(S) \in Arrays
         /\ \A h \in Handlers : Cleared(S)[h] \subseteq arrSession[h]
  BY DEF Cleared, Arrays, Sessions, TypeOK

LEMMA ReleaseArrays ==
  ASSUME Sessions, NEW slot, Release(slot)
  PROVE  ArraysLose({slot}, {})
  <1> DEFINE n == Astray({slot})
             c == Cleared({slot})
  <1>1. arrSession' \in Unlinked(c, n, {slot})
    BY DEF Release
  <1>2. c \in Arrays /\ \A h \in Handlers : c[h] \subseteq arrSession[h]
    BY Cleaned
  <1> HIDE DEF n, c
  <1> QED BY <1>1, <1>2, UnlinkedFacts DEF ArraysLose

LEMMA ReleasingSessions ==
  ASSUME Sessions, Releasing
  PROVE  Sessions'
  <1>1. PICK slot \in Slots, code \in Codes :
          /\ running /\ slot \in Live
          /\ Tell(slot, code)
          /\ Release(slot)
          /\ Carried /\ SubmitsOf(slot)
          /\ UNCHANGED <<conn, m_nSessionID, req, ret, accepted>>
    BY DEF Releasing
  <1>2. /\ submits' \in [Requests -> Nat]
        /\ \A r \in Requests : submits'[r] >= submits[r]
    BY <1>1, SubmitsGrow
  <1>3. /\ rsp' \in [Requests -> Seq(Codes)] /\ ntf' \in [Requests -> Seq(Codes)]
        /\ \A r \in Requests : r # session[slot].src => rsp'[r] = rsp[r] /\ ntf'[r] = ntf[r]
    BY <1>1, ToldType
  <1> DEFINE S == {slot}
  <1>6. S \in SUBSET Live /\ slot \in Slots
    BY <1>1
  <1>4. \A i \in Live \ S : rsp'[session[i].src] = rsp[session[i].src]
    BY <1>1, <1>3, LiveFacts DEF Sessions, OneSession
  <1>5. /\ session' = Delete(S) /\ map' = Erase(S) /\ timer' = timer \ S
        /\ GoesOn /\ req' = req /\ ret' = ret
    BY <1>1 DEF Release, GoesOn
  <1>10. ArraysLose(S, {})
    BY <1>1, ReleaseArrays
  <1> HIDE DEF S
  <1>11. /\ session' \in [Slots -> Session]
         /\ \A i \in S : session'[i] = Freed
         /\ \A i \in Slots \ S : Kin(session'[i], session[i])
    BY <1>5, <1>6, Deleted DEF Live
  <1>7. /\ TimersExact' /\ ArraysLead' /\ OnlyRefusedUnmapped' /\ SessionsOwned' /\ OneSession'
        /\ map' \in [Kinds -> SUBSET Slots]
        /\ arrSession' \in [Handlers -> SUBSET (Slots \cup {NULL})]
        /\ service' \in {"running", "undefined"}
    BY <1>1, <1>2, <1>4, <1>5, <1>6, <1>10, <1>11, GoneSessions
  <1>8. TypeOK'
    BY <1>1, <1>3, <1>5, <1>7, <1>11 DEF Sessions, TypeOK, Carried
  <1>9. UnsentUntouched'
    BY <1>1, <1>3 DEF Sessions, UnsentUntouched, SessionsOwned
  <1> QED BY <1>2, <1>7, <1>8, <1>9 DEF Sessions

\* Each call is told at most once of a connection that breaks.
LEMMA LostType ==
  ASSUME Sessions, NEW S \in SUBSET Live
  PROVE  /\ LostRsp(S) \in [Requests -> Seq(Codes)] /\ LostNtf(S) \in [Requests -> Seq(Codes)]
         /\ \A i \in Live \ S : LostRsp(S)[session[i].src] = rsp[session[i].src]
         /\ \A r \in Requests : req[r] = NULL => LostRsp(S)[r] = rsp[r]
  <1>1. ASSUME NEW f \in [Requests -> Seq(Codes)], NEW r \in Requests
        PROVE  Append(f[r], "NETWORK") \in Seq(Codes)
    BY DEF Codes
  <1>2. LostRsp(S) \in [Requests -> Seq(Codes)]
    BY <1>1 DEF LostRsp, Sessions, TypeOK
  <1>3. LostNtf(S) \in [Requests -> Seq(Codes)]
    BY <1>1 DEF LostNtf, Sessions, TypeOK
  <1>4. \A i \in Live \ S, j \in S : session[j].src # session[i].src
    BY DEF Sessions, OneSession
  <1>5. \A j \in S : req[session[j].src] # NULL
    BY DEF Sessions, SessionsOwned
  <1> QED BY <1>2, <1>3, <1>4, <1>5, LiveFacts DEF LostRsp

\* A session that loses a connection is still the session of its request.
LEMMA WithoutFacts ==
  ASSUME NEW s \in Session, NEW h
  PROVE  Without(s, h) \in Session /\ Kin(Without(s, h), s)
  <1> DEFINE hs == {IF g = h THEN NULL ELSE g : g \in s.hs}
             submit == IF s.submit = h THEN NULL ELSE s.submit
             d == [s EXCEPT !.hs = hs]
             e == [d EXCEPT !.submit = submit]
  <1>1. hs \in SUBSET (Handlers \cup {NULL}) /\ submit \in Handlers \cup {NULL}
    BY DEF Session
  <1>2. Without(s, h) = e
    BY DEF Without
  <1> HIDE DEF hs, submit
  <1>3. d \in Session /\ Kin(d, s)
    BY <1>1 DEF Session, Kin
  <1> HIDE DEF d
  <1>4. e \in Session /\ Kin(e, d)
    BY <1>1, <1>3 DEF Session, Kin
  <1> HIDE DEF e
  <1> QED BY <1>2, <1>3, <1>4 DEF Kin

LEMMA LosingSteps ==
  ASSUME Sessions, NEW h \in Handlers, NULL \notin arrSession[h], OnNetworkError(h)
  PROVE  LET S == arrSession[h]
         IN  /\ running /\ S \in SUBSET Live
             /\ session' \in [Slots -> Session]
             /\ \A i \in S : session'[i] = Freed
             /\ \A i \in Slots \ S :
                  session'[i] = Without(session[i], h) /\ Kin(session'[i], session[i])
             /\ rsp' = LostRsp(S) /\ ntf' = LostNtf(S)
             /\ map' = Erase(S) /\ timer' = timer \ S
             /\ conn' = conn \ {h} /\ GoesOn /\ ArraysLose(S, {})
             /\ net' = Sever(h, net)
             /\ UNCHANGED <<m_nSessionID, req, ret, picked, votes, submits, accepted>>
  <1> DEFINE S == arrSession[h]
  <1>1. running /\ S \in SUBSET Live
    BY DEF OnNetworkError, Sessions, ArraysLead
  <1>2. /\ conn' = conn \ {h} /\ rsp' = LostRsp(S) /\ ntf' = LostNtf(S)
        /\ timer' = timer \ S /\ map' = Erase(S) /\ session' = Survivors(S, h)
        /\ arrSession' \in Unlinked([Cleared(S) EXCEPT ![h] = {}], Astray(S), S)
        /\ GoesOn /\ net' = Sever(h, net)
        /\ UNCHANGED <<m_nSessionID, req, ret, picked, votes, submits, accepted>>
    BY DEF OnNetworkError, history, GoesOn
  <1> HIDE DEF S
  <1>3. S \subseteq Slots
    BY <1>1 DEF Live
  <1>4. /\ \A i \in S : session'[i] = Freed
        /\ \A i \in Slots \ S : session'[i] = Without(session[i], h)
    BY <1>2, <1>3 DEF Survivors
  <1>5. \A i \in Slots \ S : session'[i] \in Session /\ Kin(session'[i], session[i])
    BY <1>4, WithoutFacts DEF Sessions, TypeOK
  <1>6. session' \in [Slots -> Session]
    <2>1. DOMAIN session' = Slots /\ session' = [i \in Slots |-> session'[i]]
      BY <1>2 DEF Survivors
    <2> QED BY <1>4, <1>5, <2>1, FreedFacts
  <1>7. ArraysLose(S, {})
    <2> DEFINE n == Astray(S)
               c == [Cleared(S) EXCEPT ![h] = {}]
    <2>1. arrSession' \in Unlinked(c, n, S)
      BY <1>2
    <2>2. c \in Arrays /\ \A g \in Handlers : c[g] \subseteq arrSession[g]
      BY Cleaned DEF Arrays
    <2> HIDE DEF n, c
    <2> QED BY <2>1, <2>2, UnlinkedFacts DEF ArraysLose
  <1> QED BY <1>1, <1>2, <1>4, <1>5, <1>6, <1>7 DEF S

LEMMA LosingSessions ==
  ASSUME Sessions, Losing
  PROVE  Sessions'
  <1>1. PICK h \in Handlers : NULL \notin arrSession[h] /\ OnNetworkError(h)
    BY DEF Losing
  <1> DEFINE S == arrSession[h]
  <1>2. /\ running /\ S \in SUBSET Live
        /\ session' \in [Slots -> Session]
        /\ \A i \in S : session'[i] = Freed
        /\ \A i \in Slots \ S : Kin(session'[i], session[i])
        /\ rsp' = LostRsp(S) /\ ntf' = LostNtf(S)
        /\ map' = Erase(S) /\ timer' = timer \ S
        /\ conn' = conn \ {h} /\ GoesOn /\ ArraysLose(S, {})
        /\ net' \subseteq net
        /\ UNCHANGED <<m_nSessionID, req, ret, submits, accepted>>
    BY <1>1, LosingSteps DEF Sever
  <1> HIDE DEF S
  <1>3. /\ submits' \in [Requests -> Nat]
        /\ \A r \in Requests : submits'[r] >= submits[r]
    BY <1>2 DEF Sessions
  <1>5. /\ rsp' \in [Requests -> Seq(Codes)] /\ ntf' \in [Requests -> Seq(Codes)]
        /\ \A i \in Live \ S : rsp'[session[i].src] = rsp[session[i].src]
        /\ \A r \in Requests : req[r] = NULL => rsp'[r] = rsp[r]
    BY <1>2, LostType
  <1>6. /\ TimersExact' /\ ArraysLead' /\ OnlyRefusedUnmapped' /\ SessionsOwned' /\ OneSession'
        /\ map' \in [Kinds -> SUBSET Slots]
        /\ arrSession' \in [Handlers -> SUBSET (Slots \cup {NULL})]
        /\ service' \in {"running", "undefined"}
    BY <1>2, <1>3, <1>5, GoneSessions
  <1>7. TypeOK'
    BY <1>2, <1>5, <1>6 DEF Sessions, TypeOK
  <1>8. UnsentUntouched'
    BY <1>2, <1>5 DEF Sessions, UnsentUntouched
  <1> QED BY <1>3, <1>6, <1>7, <1>8 DEF Sessions

LEMMA OnExitSessions ==
  ASSUME Sessions, OnExit
  PROVE  Sessions'
  <1> USE DEF history, calls
  <1>1. \A slot \in Slots : session'[slot] = IF slot \in Mapped THEN Freed ELSE session[slot]
    BY DEF OnExit, Delete
  <1>2. Live' = Live \ Mapped /\ \A slot \in Live' : session'[slot] = session[slot]
    BY <1>1, FreedFacts DEF Live
  <1>3. TypeOK' /\ submits' \in [Requests -> Nat]
    <2>1. session' \in [Slots -> Session]
      BY FreedFacts DEF OnExit, Delete, Sessions, TypeOK
    <2> QED BY <2>1 DEF OnExit, Sessions, TypeOK
  <1>4. TimersExact' /\ ArraysLead'
    BY DEF OnExit, TimersExact, ArraysLead, running
  <1>5. OnlyRefusedUnmapped'
    <2>1. service' = "exited" /\ ~running' /\ timer' = Live'
      BY <1>2 DEF OnExit, running, Sessions, TimersExact
    <2>2. \A slot \in Live' : slot \notin map'[session'[slot].kind]
      BY <1>2, LiveFacts DEF OnExit, Mapped
    <2>3. Refused' = Live'
      BY <2>2 DEF Refused
    <2> QED BY <2>1, <2>3 DEF OnlyRefusedUnmapped
  <1>6. SessionsOwned' /\ OneSession' /\ UnsentUntouched'
    BY <1>2 DEF OnExit, Sessions, SessionsOwned, OneSession, UnsentUntouched
  <1> QED BY <1>3, <1>4, <1>5, <1>6 DEF Sessions

LEMMA CountingSessions ==
  ASSUME Sessions, Counting
  PROVE  Sessions'
  <1>1. PICK slot \in Slots, s \in Session :
          /\ running /\ slot \in Live /\ slot[2] = "request"
          /\ slot \in map[session[slot].kind]
          /\ s.kind = session[slot].kind /\ s.src = session[slot].src
          /\ s.wait = session[slot].wait
          /\ session' = [session EXCEPT ![slot] = s]
          /\ ArraysLose({}, {})
          /\ Carried /\ SubmitsOf(slot)
          /\ UNCHANGED <<conn, map, timer, m_nSessionID, service, req, ret, rsp, ntf, accepted>>
    BY DEF Counting
  <1>2. \A i \in Slots : session'[i] = IF i = slot THEN s ELSE session[i]
    BY <1>1 DEF Sessions, TypeOK
  <1>3. Live' = Live /\ \A i \in Live : Kin(session'[i], session[i])
    BY <1>1, <1>2, LiveFacts DEF Live, Kin
  <1>4. /\ submits' \in [Requests -> Nat]
        /\ \A r \in Requests : submits'[r] >= submits[r]
    BY <1>1, SubmitsGrow
  <1>5. ArraysLead' /\ arrSession' \in [Handlers -> SUBSET (Slots \cup {NULL})]
    <2>1. (Live \cup {}) \ {} \subseteq Live'
      BY <1>3
    <2> QED BY <1>1, <2>1, ArraysStillLead
  <1>6. TypeOK'
    <2>1. session' \in [Slots -> Session]
      BY <1>1 DEF Sessions, TypeOK
    <2> QED BY <1>1, <1>5, <2>1 DEF Sessions, TypeOK, Carried
  <1>7. TimersExact'
    BY <1>1, <1>3 DEF Sessions, TimersExact, running
  <1>8. OnlyRefusedUnmapped'
    <2>1. running /\ service' = service /\ map' = map
      BY <1>1
    <2>2. Refused' = Refused
      BY <1>3, <2>1 DEF Refused, Kin
    <2>3. ASSUME NEW i \in Refused
          PROVE  i[2] = "request" /\ submits'[session'[i].src] > 0
      <3>1. i \in Live /\ i[2] = "request" /\ submits[session[i].src] > 0
        BY <2>1 DEF Sessions, OnlyRefusedUnmapped, Refused
      <3>2. session[i].src \in Requests /\ session'[i].src = session[i].src
        BY <1>3, <3>1, LiveFacts DEF Kin
      <3>3. submits[session[i].src] \in Nat /\ submits'[session[i].src] \in Nat
            /\ submits'[session[i].src] >= submits[session[i].src]
        BY <1>4, <3>2 DEF Sessions
      <3> QED BY <3>1, <3>2, <3>3
    <2> QED BY <1>3, <2>1, <2>2, <2>3 DEF Sessions, OnlyRefusedUnmapped, running, Kin
  <1>9. SessionsOwned' /\ OneSession'
    <2>1. ret' = ret /\ req' = req /\ rsp' = rsp
      BY <1>1
    <2>2. OneSession'
      BY <1>3 DEF Sessions, OneSession, Kin
    <2>3. ASSUME NEW i \in Live
          PROVE  LET t == session'[i]
                 IN  /\ t.src \in Requests
                     /\ ret[t.src] = "OK" /\ req[t.src] # NULL /\ req[t.src].kind = t.kind
                     /\ i[2] = "request" => rsp[t.src] = <<>> /\ t.wait = req[t.src].wait
      BY <1>3 DEF Sessions, SessionsOwned, Kin
    <2> QED BY <1>3, <2>1, <2>2, <2>3 DEF SessionsOwned
  <1>10. UnsentUntouched'
    BY <1>1 DEF Sessions, UnsentUntouched
  <1> QED BY <1>4, <1>5, <1>6, <1>7, <1>8, <1>9, <1>10 DEF Sessions

LEMMA UnmappingSessions ==
  ASSUME Sessions, Unmapping
  PROVE  Sessions'
  <1> USE DEF history, calls
  <1>1. PICK m \in net :
          /\ TransactionRefused(m)
          /\ Slot(m) \in Live /\ Slot(m)[2] = "request" /\ submits[session[Slot(m)].src] > 0
          /\ session[Slot(m)].kind = m.kind
    BY DEF Unmapping
  <1>2. /\ running /\ map' = [k \in Kinds |-> map[k] \ {Slot(m)}] /\ net' \subseteq net
        /\ UNCHANGED <<conn, arrSession, session, timer, m_nSessionID, service, req, ret,
                       rsp, ntf, submits, accepted>>
    BY <1>1 DEF TransactionRefused, Arrived, Erase
  <1>3. Live' = Live
    BY <1>2 DEF Live
  <1>4. TypeOK' /\ submits' \in [Requests -> Nat]
    BY <1>2 DEF Sessions, TypeOK
  <1>5. TimersExact' /\ ArraysLead'
    BY <1>2, <1>3 DEF Sessions, TimersExact, ArraysLead, running
  <1>6. OnlyRefusedUnmapped'
    <2>1. Refused' \subseteq Refused \cup {Slot(m)}
      BY <1>2, <1>3, LiveFacts DEF Refused
    <2> QED BY <1>1, <1>2, <1>3, <2>1 DEF Sessions, OnlyRefusedUnmapped, running
  <1>7. SessionsOwned' /\ OneSession' /\ UnsentUntouched'
    BY <1>2, <1>3 DEF Sessions, SessionsOwned, OneSession, UnsentUntouched
  <1> QED BY <1>4, <1>5, <1>6, <1>7 DEF Sessions

\* An accepted transaction: its session goes, and one for the notification may
\* come, with the same id and the same request.
LEMMA PromotingSteps ==
  ASSUME Sessions, running, NEW m \in net, TransactionAccepted(m),
         Slot(m) \in Live, Slot(m)[2] = "request", m.id \in SessionIDs,
         session[Slot(m)].kind = m.kind
  PROVE  LET slot == Slot(m)
             s == session[slot]
             n == <<m.id, "notify">>
             new == IF s.wait THEN {n} ELSE {}
         IN  /\ n \in Slots /\ n \notin Live /\ n # slot /\ n[1] = slot[1] /\ n[2] = "notify"
             /\ Live' = (Live \ {slot}) \cup new
             /\ \A i \in Live \ {slot} : session'[i] = session[i]
             /\ s.wait => session'[n] = NotifySession(s)
             /\ s.wait => session'[n].kind = s.kind /\ session'[n].src = s.src
             /\ session' \in [Slots -> Session]
             /\ timer' = (timer \ {slot}) \cup new
             /\ \A k \in Kinds : map'[k] = (map[k] \ {slot}) \cup (IF k = m.kind THEN new ELSE {})
             /\ map' \in [Kinds -> SUBSET Slots]
             /\ ArraysLose({slot}, new)
  <1> DEFINE slot == Slot(m)
             s == session[slot]
             n == <<m.id, "notify">>
             new == IF s.wait THEN {n} ELSE {}
  <1>1. /\ slot[1] = m.id /\ slot[2] = "request" /\ slot \in Live
        /\ s \in Session /\ s.kind = m.kind /\ s.kind \in Kinds /\ s.src \in Requests
        /\ s.submit \in Handlers \cup {NULL} /\ slot \in Slots
    BY LiveFacts DEF Slot
  <1>2. n \in Slots /\ n # slot /\ n[1] = slot[1] /\ n[2] = "notify"
    BY <1>1 DEF Slots
  <1>3. n \notin Live
    BY <1>1, <1>2 DEF Sessions, OneSession
  <1>4. /\ timer' = (timer \ {slot}) \cup new
        /\ map' = [Erase({slot}) EXCEPT ![m.kind] = @ \cup new]
        /\ arrSession' \in Unlinked([Cleared({slot}) EXCEPT ![s.submit] = @ \cup new],
                                    Astray({slot}), {slot})
        /\ session' = [Delete({slot}) EXCEPT ![n] = IF s.wait THEN NotifySession(s) ELSE @]
    BY DEF TransactionAccepted
  <1>5. /\ NotifySession(s) \in Session /\ NotifySession(s).kind = s.kind
        /\ NotifySession(s).src = s.src
    BY <1>1 DEF NotifySession, Freed, Session
  <1>6. /\ Delete({slot}) \in [Slots -> Session]
        /\ \A i \in Slots : Delete({slot})[i] = IF i = slot THEN Freed ELSE session[i]
    BY FreedFacts DEF Delete, Sessions, TypeOK
  <1>7. /\ session' \in [Slots -> Session]
        /\ \A i \in Slots : session'[i] = IF i = n /\ s.wait THEN NotifySession(s)
                                          ELSE IF i = slot THEN Freed ELSE session[i]
    <2> DEFINE d == Delete({slot})
               t == NotifySession(s)
    <2>1. session' = [d EXCEPT ![n] = IF s.wait THEN t ELSE d[n]]
      BY <1>4
    <2>2. t \in Session /\ d \in [Slots -> Session]
          /\ \A i \in Slots : d[i] = IF i = slot THEN Freed ELSE session[i]
      BY <1>5, <1>6
    <2> HIDE DEF d, t, n, slot
    <2>3. /\ session' \in [Slots -> Session]
          /\ \A i \in Slots : session'[i] = IF i = n /\ s.wait THEN t
                                            ELSE IF i = slot THEN Freed ELSE session[i]
      BY <1>2, <2>1, <2>2
    <2> QED BY <2>3 DEF t
  <1>8. /\ Live' = (Live \ {slot}) \cup new
        /\ \A i \in Live \ {slot} : session'[i] = session[i]
        /\ s.wait => session'[n] = NotifySession(s)
    <2> DEFINE t == NotifySession(s)
    <2>1. t.kind # "free"
      BY <1>1, <1>5, KindsFacts
    <2> HIDE DEF t, n, slot
    <2> QED BY <1>1, <1>2, <1>3, <1>7, <2>1, FreedFacts DEF Live, t
  <1>9. /\ map' \in [Kinds -> SUBSET Slots]
        /\ \A k \in Kinds : map'[k] = (map[k] \ {slot}) \cup (IF k = m.kind THEN new ELSE {})
    <2>1. new \subseteq Slots
      BY <1>2
    <2>2. /\ Erase({slot}) \in [Kinds -> SUBSET Slots]
          /\ \A k \in Kinds : Erase({slot})[k] = map[k] \ {slot}
      BY DEF Erase, Sessions, TypeOK
    <2> HIDE DEF new, slot
    <2> QED BY <1>1, <1>4, <2>1, <2>2
  <1>10. ArraysLose({slot}, new)
    <2> DEFINE t == Astray({slot})
               c == Cleared({slot})
               d == [c EXCEPT ![s.submit] = @ \cup new]
               gone == {slot}
    <2>1. new \subseteq Slots
      BY <1>2
    <2>2. c \in Arrays /\ \A h \in Handlers : c[h] \subseteq arrSession[h]
      BY Cleaned
    <2>3. arrSession' \in Unlinked(d, t, gone)
      BY <1>4
    <2> HIDE DEF new, slot, c, t, gone
    <2>4. d \in Arrays /\ \A h \in Handlers : d[h] \subseteq arrSession[h] \cup new
      BY <2>1, <2>2 DEF Arrays
    <2> HIDE DEF d
    <2>5. /\ arrSession' \in Arrays
          /\ \A h \in Handlers : arrSession'[h] \subseteq (d[h] \ gone) \cup {NULL}
      BY <2>3, <2>4, UnlinkedFacts
    <2>6. ArraysLose(gone, new)
      BY <2>4, <2>5 DEF ArraysLose
    <2> QED BY <2>6 DEF gone
  <1> HIDE DEF slot, n
  <1>11. s.wait => session'[n].kind = s.kind /\ session'[n].src = s.src
    BY <1>5, <1>8
  <1> QED BY <1>2, <1>3, <1>4, <1>7, <1>8, <1>9, <1>10, <1>11 DEF slot, n

LEMMA PromotingSessions ==
  ASSUME Sessions, Promoting
  PROVE  Sessions'
  <1> USE DEF history
  <1>1. PICK m \in net :
          /\ TransactionAccepted(m)
          /\ m \in Message /\ Slot(m) \in Live /\ Slot(m)[2] = "request" /\ m.id \in SessionIDs
          /\ m.kind \in TxKinds /\ session[Slot(m)].kind = m.kind
    BY DEF Promoting
  <1> DEFINE slot == Slot(m)
             s == session[slot]
             n == <<m.id, "notify">>
             new == IF s.wait THEN {n} ELSE {}
  <1>2. /\ running /\ OnResponse(s, "OK") /\ net' \subseteq net
        /\ service' \in {"running", "undefined"}
        /\ UNCHANGED <<conn, m_nSessionID, req, ret, ntf, submits, accepted>>
    BY <1>1 DEF TransactionAccepted, Arrived, running
  <1>3. /\ n \in Slots /\ n \notin Live /\ n # slot /\ n[1] = slot[1] /\ n[2] = "notify"
        /\ Live' = (Live \ {slot}) \cup new
        /\ \A i \in Live \ {slot} : session'[i] = session[i]
        /\ s.wait => session'[n].kind = s.kind /\ session'[n].src = s.src
        /\ session' \in [Slots -> Session]
        /\ timer' = (timer \ {slot}) \cup new
        /\ \A k \in Kinds : map'[k] = (map[k] \ {slot}) \cup (IF k = m.kind THEN new ELSE {})
        /\ map' \in [Kinds -> SUBSET Slots]
        /\ ArraysLose({slot}, new)
    BY <1>1, <1>2, PromotingSteps
  <1>4. /\ slot \in Live /\ s.src \in Requests
        /\ s.kind = m.kind /\ m.kind \in Kinds /\ "OK" \in Codes /\ slot[2] = "request"
    BY <1>1, LiveFacts DEF Codes
  <1> HIDE DEF slot, n
  <1>5. rsp' \in [Requests -> Seq(Codes)] /\ \A r \in Requests : r # s.src => rsp'[r] = rsp[r]
    <2>1. rsp \in [Requests -> Seq(Codes)] /\ rsp' = [rsp EXCEPT ![s.src] = Append(@, "OK")]
      BY <1>2 DEF OnResponse, Sessions, TypeOK
    <2> QED BY <1>4, <2>1, Appended
  <1>12. ArraysLead' /\ arrSession' \in [Handlers -> SUBSET (Slots \cup {NULL})]
    <2>1. (Live \cup new) \ {slot} \subseteq Live'
      BY <1>3
    <2> HIDE DEF new
    <2> QED BY <1>2, <1>3, <2>1, ArraysStillLead
  <1>6. TypeOK' /\ submits' \in [Requests -> Nat]
    BY <1>2, <1>3, <1>5, <1>12 DEF Sessions, TypeOK
  <1>7. TimersExact'
    <2>1. \A k \in Kinds : map'[k] \subseteq Live'
      BY <1>2, <1>3 DEF Sessions, TimersExact
    <2>2. timer' = Live'
      BY <1>2, <1>3 DEF Sessions, TimersExact
    <2> QED BY <2>1, <2>2 DEF TimersExact
  <1>8. OnlyRefusedUnmapped'
    <2>1. service' # "exited" /\ submits' = submits
      BY <1>2
    <2>2. \A k \in Kinds : map[k] \subseteq Live
      BY <1>2 DEF Sessions, TimersExact
    <2>3. \A i \in Live' : \A k \in Kinds : i \in map'[k] => k = session'[i].kind
      BY <1>2, <1>3, <1>4, <2>2 DEF Sessions, OnlyRefusedUnmapped
    <2>4. Refused' \subseteq Refused \ {slot}
      BY <1>3, <1>4, LiveFacts DEF Refused
    <2>5. \A i \in Refused' : i[2] = "request" /\ submits'[session'[i].src] > 0
      BY <1>2, <1>3, <2>1, <2>4 DEF Sessions, OnlyRefusedUnmapped, Refused
    <2> QED BY <2>1, <2>3, <2>5 DEF OnlyRefusedUnmapped
  <1>9. OneSession'
    BY <1>3, <1>4 DEF Sessions, OneSession
  <1>10. SessionsOwned'
    <2>1. \A i \in Live \ {slot} : session[i].src # s.src
      BY <1>4 DEF Sessions, OneSession
    <2>2. ret' = ret /\ req' = req
      BY <1>2
    <2>3. \A i \in Live \ {slot} : session'[i] = session[i] /\ rsp'[session[i].src] = rsp[session[i].src]
      BY <1>3, <1>5, <2>1, LiveFacts
    <2>4. /\ ret[s.src] = "OK" /\ req[s.src] # NULL /\ req[s.src].kind = s.kind
      BY <1>4 DEF Sessions, SessionsOwned
    <2> SUFFICES ASSUME NEW i \in Live'
                 PROVE  LET t == session'[i]
                        IN  /\ t.src \in Requests
                            /\ ret[t.src] = "OK" /\ req[t.src] # NULL /\ req[t.src].kind = t.kind
                            /\ i[2] = "request" => rsp'[t.src] = <<>> /\ t.wait = req[t.src].wait
      BY <2>2 DEF SessionsOwned
    <2>5. CASE i \in Live \ {slot}
      BY <2>3, <2>5 DEF Sessions, SessionsOwned
    <2>6. CASE i = n /\ s.wait
      BY <1>3, <1>4, <2>4, <2>6
    <2> QED BY <1>3, <2>5, <2>6
  <1>11. UnsentUntouched'
    <2>1. req[s.src] # NULL
      BY <1>4 DEF Sessions, SessionsOwned
    <2> QED BY <1>2, <1>5, <2>1 DEF Sessions, UnsentUntouched
  <1> QED BY <1>6, <1>7, <1>8, <1>9, <1>10, <1>11, <1>12 DEF Sessions

-----------------------------------------------------------------------------
(* The shapes keep what is known of the messages and the ids. *)

Messages == MessagesFit /\ IdsFresh /\ OwnMessages

\* Every session was there before, in its slot or, for a notification, in the
\* slot of the request.
Descent ==
  \A i \in Live' : \E o \in Live : o[1] = i[1] /\ session[o].src = session'[i].src

LEMMA CarriedMessages ==
  ASSUME Sessions, Messages, Carried, Descent,
         m_nSessionID' = m_nSessionID, ret' = ret, submits' \in [Requests -> Nat],
         \A r \in Requests : submits'[r] >= submits[r]
  PROVE  Messages'
  <1>1. ASSUME NEW m \in net', FromMessage(m)
        PROVE  /\ m.type \in Late => ret'[m.src] = "OK" /\ submits'[m.src] > 0
               /\ m.type = "query" => m.kind \in QueryKinds
    <2>1. PICK k \in net : /\ k.id = m.id /\ k.src = m.src
                           /\ m.type \in Late => k.type \in Late
                           /\ m.type = "query" => k.type = "query" /\ k.kind = m.kind
      BY <1>1 DEF FromMessage
    <2>2. k.src \in Requests
      BY DEF Sessions, TypeOK, Message
    <2>3. submits'[k.src] >= submits[k.src] /\ submits'[k.src] \in Nat /\ submits[k.src] \in Nat
      BY <2>2 DEF Sessions
    <2>4. /\ k.type \in Late => ret[k.src] = "OK" /\ submits[k.src] > 0
          /\ k.type = "query" => k.kind \in QueryKinds
      BY DEF Messages, MessagesFit
    <2> QED BY <2>1, <2>3, <2>4
  <1>2. ASSUME NEW m \in net', FromSession(m)
        PROVE  /\ m.type \in Late => ret'[m.src] = "OK" /\ submits'[m.src] > 0
               /\ m.type # "query"
    BY <1>2 DEF FromSession, Sessions, SessionsOwned, Late
  <1>3. MessagesFit'
    BY <1>1, <1>2 DEF MessagesFit, Carried
  <1>4. OwnMessages'
    <2> SUFFICES ASSUME NEW m \in net', NEW i \in Live', i[1] = m.id
                 PROVE  session'[i].src = m.src \/ Stale(m.src)
      BY DEF OwnMessages, Stale
    <2>1. PICK o \in Live : o[1] = m.id /\ session[o].src = session'[i].src
      BY DEF Descent
    <2>2. CASE FromMessage(m)
      BY <2>1, <2>2 DEF FromMessage, Messages, OwnMessages
    <2>3. CASE FromSession(m)
      BY <2>1, <2>3 DEF FromSession, Sessions, OneSession
    <2> QED BY <2>2, <2>3 DEF Carried
  <1>5. IdsFresh'
    <2>1. ASSUME NEW id \in SessionIDs, InUse(id)'
          PROVE  InUse(id)
      <3>1. CASE \E i \in Live' : i[1] = id
        BY <3>1 DEF Descent, InUse
      <3>2. CASE \E m \in net' : m.id = id /\ ~Stale(m.src)
        BY <3>2 DEF Carried, FromMessage, FromSession, InUse, Stale
      <3> QED BY <2>1, <3>1, <3>2 DEF InUse, Stale
    <2>2. Taken' = Taken
      BY DEF Taken
    <2>3. \A id \in SessionIDs : Age(id)' = Age(id)
      BY DEF Age
    <2> QED BY <2>1, <2>2, <2>3 DEF Messages, IdsFresh
  <1> QED BY <1>3, <1>4, <1>5 DEF Messages

\* No session and no message of an accepted call has the id that comes next.
LEMMA NextIsFree ==
  ASSUME Sessions, Messages
  PROVE  /\ \A slot \in Live : slot[1] # m_nSessionID
         /\ \A m \in net : m.id = m_nSessionID => Stale(m.src)
  <1>1. m_nSessionID \in SessionIDs /\ Age(m_nSessionID) = 0
    BY AdapterAssumption DEF Sessions, TypeOK, SessionIDs, Age
  <1>2. ~InUse(m_nSessionID)
    BY <1>1 DEF Messages, IdsFresh
  <1> QED BY <1>2 DEF InUse

LEMMA RefusingMessages ==
  ASSUME Sessions, Messages, Refusing
  PROVE  Messages'
  <1>1. PICK r \in Requests, c \in Calls, code \in {"NETWORK", "DECODE"} :
          /\ Called(r, c, code)
          /\ \A m \in net' : m \in net \/ (IsNew(m, r) /\ code = "NETWORK")
          /\ UNCHANGED <<session, m_nSessionID>>
    BY DEF Refusing
  <1>2. ret[r] = NULL /\ \A slot \in Live : session[slot].src # r
    BY <1>1, CalledIsNew DEF Called
  <1>3. /\ \A q \in Requests : ret'[q] = IF q = r THEN code ELSE ret[q]
        /\ submits' = submits /\ m_nSessionID' = m_nSessionID
    BY <1>1 DEF Called, Sessions, TypeOK
  <1>4. Live' = Live /\ session' = session
    BY <1>1 DEF Live
  <1>5. ret[r] \notin {"OK", "NETWORK"}
    BY <1>2, AdapterAssumption
  <1>6. \A m \in net : m.src \in Requests
    BY DEF Sessions, TypeOK, Message
  <1>7. MessagesFit'
    BY <1>1, <1>3, <1>5, <1>6 DEF Messages, MessagesFit, IsNew, Late
  <1>8. OwnMessages'
    BY <1>1, <1>2, <1>3, <1>4, <1>5, <1>6 DEF Messages, OwnMessages, IsNew, Stale
  <1>9. IdsFresh'
    <2>1. ASSUME NEW id \in SessionIDs, InUse(id)'
          PROVE  InUse(id)
      BY <1>1, <1>3, <1>4, <1>5, <1>6, <2>1 DEF InUse, IsNew, Stale
    <2>2. Taken' = Taken
      BY <1>3, <1>5 DEF Taken
    <2>3. \A id \in SessionIDs : Age(id)' = Age(id)
      BY <1>3 DEF Age
    <2> QED BY <2>1, <2>2, <2>3 DEF Messages, IdsFresh
  <1> QED BY <1>7, <1>8, <1>9 DEF Messages

\* A call that is accepted is one more, and there are still fewer than ids.
LEMMA OneMoreTaken ==
  ASSUME NEW r \in Requests, ret[r] # "OK", DOMAIN ret = Requests,
         ret' = [ret EXCEPT ![r] = "OK"]
  PROVE  /\ Cardinality(Taken) \in Nat /\ Cardinality(Taken') = Cardinality(Taken) + 1
         /\ Cardinality(Taken) < MaxSessionID
  <1>1. Taken' = Taken \cup {r} /\ r \notin Taken /\ Taken' \subseteq Requests
        /\ Taken \subseteq Requests
    BY DEF Taken
  <1>2. IsFiniteSet(Taken) /\ IsFiniteSet(Taken')
    BY <1>1, AdapterIdBound, FS_Subset
  <1>3. Cardinality(Taken) \in Nat /\ Cardinality(Taken') \in Nat /\ Cardinality(Requests) \in Nat
    BY <1>2, AdapterIdBound, FS_CardinalityType
  <1>4. Cardinality(Taken') = Cardinality(Taken) + 1
    BY <1>1, <1>2, FS_AddElement
  <1>5. Cardinality(Taken') <= Cardinality(Requests)
    BY <1>1, AdapterIdBound, FS_Subset
  <1> QED BY <1>3, <1>4, <1>5, AdapterIdBound, AdapterAssumption

LEMMA OpeningMessages ==
  ASSUME Sessions, Messages, Opening
  PROVE  Messages'
  <1>1. PICK r \in Requests, c \in Calls, S \in SUBSET Handlers, h \in Handlers,
            es \in EsSessions \cup {NULL} :
          /\ Called(r, c, "OK")
          /\ Open(NewSession(c, r, S, h, es))
          /\ \A m \in net' : m \in net \/ IsNew(m, r)
    BY DEF Opening
  <1> DEFINE new == <<m_nSessionID, "request">>
  <1>2. ret[r] = NULL /\ \A slot \in Live : session[slot].src # r
    BY <1>1, CalledIsNew DEF Called
  <1>3. ret[r] \notin {"OK", "NETWORK"}
    BY <1>2, AdapterAssumption
  <1>4. /\ \A q \in Requests : ret'[q] = IF q = r THEN "OK" ELSE ret[q]
        /\ ret' = [ret EXCEPT ![r] = "OK"] /\ DOMAIN ret = Requests
        /\ submits' = submits
    BY <1>1 DEF Called, Sessions, TypeOK
  <1>5. /\ m_nSessionID' = NextID /\ m_nSessionID \in SessionIDs
        /\ \A i \in Live' : /\ i \in Live \/ i = new
                            /\ i \in Live /\ i # new => session'[i] = session[i]
        /\ session'[new].src = r /\ new[1] = m_nSessionID
    BY <1>1 DEF Open, NewSession, Sessions, TypeOK, Live, Slots
  <1>6. \A m \in net : m.src \in Requests /\ m.id \in SessionIDs
    BY DEF Sessions, TypeOK, Message
  <1>7. /\ \A slot \in Live : slot[1] # m_nSessionID
        /\ \A m \in net : m.id = m_nSessionID => Stale(m.src)
    BY NextIsFree
  <1>8. MessagesFit'
    BY <1>1, <1>3, <1>4, <1>6 DEF Messages, MessagesFit, IsNew, Late
  <1>9. OwnMessages'
    <2> SUFFICES ASSUME NEW m \in net', NEW i \in Live', i[1] = m.id
                 PROVE  session'[i].src = m.src \/ ret'[m.src] = "NETWORK"
      BY DEF OwnMessages, Stale
    <2>1. CASE i \in Live
      <3>1. m \in net /\ session'[i] = session[i]
        BY <1>1, <1>5, <1>7, <2>1 DEF IsNew
      <3> QED BY <1>3, <1>4, <1>6, <2>1, <3>1 DEF Messages, OwnMessages, Stale
    <2>2. CASE i = new /\ m \in net
      <3>1. ret[m.src] = "NETWORK" /\ m.src \in Requests
        BY <1>5, <1>6, <1>7, <2>2 DEF Stale
      <3> QED BY <1>3, <1>4, <3>1
    <2>3. CASE i = new /\ m \notin net
      BY <1>1, <1>5, <2>3 DEF IsNew
    <2> QED BY <1>5, <2>1, <2>2, <2>3
  <1>10. IdsFresh'
    <2>1. /\ Cardinality(Taken) \in Nat /\ Cardinality(Taken') = Cardinality(Taken) + 1
          /\ Cardinality(Taken) < MaxSessionID
      BY <1>3, <1>4, OneMoreTaken
    <2>2. NextID \in SessionIDs
          /\ NextID = IF m_nSessionID = MaxSessionID THEN 0 ELSE m_nSessionID + 1
      BY <1>5, NextIDType
    <2>3. ASSUME NEW id \in SessionIDs, InUse(id)', id # m_nSessionID
          PROVE  InUse(id)
      <3>1. CASE \E i \in Live' : i[1] = id
        BY <1>5, <2>3, <3>1 DEF InUse
      <3>2. CASE \E m \in net' : m.id = id /\ ~Stale(m.src)'
        <4>1. PICK m \in net' : m.id = id /\ ret'[m.src] # "NETWORK"
          BY <3>2 DEF Stale
        <4>2. m \in net
          BY <1>1, <2>3, <4>1 DEF IsNew
        <4>3. ~Stale(m.src)
          BY <1>3, <1>4, <1>6, <4>1, <4>2 DEF Stale
        <4> QED BY <4>1, <4>2, <4>3 DEF InUse
      <3> QED BY <2>3, <3>1, <3>2 DEF InUse
    <2>4. ASSUME NEW id \in SessionIDs, InUse(id)'
          PROVE  Age(id)' \in 1 .. Cardinality(Taken')
      <3>1. MaxSessionID \in Nat /\ m_nSessionID \in 0 .. MaxSessionID /\ id \in 0 .. MaxSessionID
        BY <1>5, AdapterAssumption DEF SessionIDs
      <3>2. CASE id = m_nSessionID
        <4>1. Age(id)' = 1
          BY <1>5, <2>1, <2>2, <3>1, <3>2 DEF Age
        <4> QED BY <2>1, <4>1
      <3>3. CASE id # m_nSessionID
        <4>1. Age(id) \in 1 .. Cardinality(Taken)
          BY <2>3, <2>4, <3>3 DEF Messages, IdsFresh
        <4>2. Age(id)' = Age(id) + 1
          BY <1>5, <2>1, <2>2, <3>1, <3>3, <4>1 DEF Age
        <4> QED BY <2>1, <4>1, <4>2
      <3> QED BY <3>2, <3>3
    <2> QED BY <2>4 DEF IdsFresh
  <1> QED BY <1>8, <1>9, <1>10 DEF Messages

LEMMA IInvParts == IInv <=> Sessions /\ Messages
  BY DEF IInv, Sessions, Messages

\* Sessions that go, and messages that only become fewer.
LEMMA FewerMessages ==
  ASSUME IInv, net' \subseteq net
  PROVE  Carried
  BY OldIsCarried DEF Carried

LEMMA ShapeMessages ==
  ASSUME IInv, Shape
  PROVE  Messages'
  <1> USE DEF history, calls
  <1>1. Sessions /\ Messages
    BY IInvParts
  <1>2. ASSUME Live' \subseteq Live, \A i \in Live' : session'[i].src = session[i].src
        PROVE  Descent
    BY <1>2 DEF Descent
  <1>3. submits \in [Requests -> Nat]
    BY <1>1 DEF Sessions
  <1>4. CASE Crashing \/ Undefining
    <2>1. UNCHANGED <<session, m_nSessionID, net, ret, submits>>
      BY <1>4 DEF Crashing, Undefining, serviceVars
    <2>2. Descent
      BY <1>2, <2>1 DEF Live
    <2> QED BY <1>1, <1>3, <2>1, <2>2, FewerMessages, CarriedMessages
  <1>5. CASE Releasing
    <2>1. PICK slot \in Live : SubmitsOf(slot) /\ Release(slot)
      BY <1>5 DEF Releasing
    <2>2. Carried /\ m_nSessionID' = m_nSessionID /\ ret' = ret
      BY <1>5 DEF Releasing
    <2>3. Descent
      <3>1. \A i \in Slots : session'[i] = IF i \in {slot} THEN Freed ELSE session[i]
        BY <2>1 DEF Release, Delete
      <3> QED BY <1>2, <3>1, FreedFacts DEF Live
    <2> QED BY <1>1, <2>1, <2>2, <2>3, SubmitsGrow, CarriedMessages
  <1>6. CASE Counting
    <2>1. PICK slot \in Live, s \in Session :
            /\ SubmitsOf(slot) /\ session' = [session EXCEPT ![slot] = s]
            /\ s.src = session[slot].src /\ s.kind = session[slot].kind
      BY <1>6 DEF Counting
    <2>2. Carried /\ m_nSessionID' = m_nSessionID /\ ret' = ret
      BY <1>6 DEF Counting
    <2>3. Descent
      <3>1. \A i \in Slots : session'[i] = IF i = slot THEN s ELSE session[i]
        BY <1>1, <2>1 DEF Sessions, TypeOK
      <3> QED BY <1>2, <2>1, <3>1 DEF Live
    <2> QED BY <1>1, <2>1, <2>2, <2>3, SubmitsGrow, CarriedMessages
  <1>7. CASE Promoting
    <2>1. PICK m \in net :
            /\ TransactionAccepted(m)
            /\ Slot(m) \in Live /\ Slot(m)[2] = "request" /\ m.id \in SessionIDs
            /\ session[Slot(m)].kind = m.kind
      BY <1>7 DEF Promoting
    <2>2. running /\ net' \subseteq net /\ UNCHANGED <<m_nSessionID, ret, submits>>
      BY <2>1 DEF TransactionAccepted, Arrived
    <2> DEFINE slot == Slot(m)
               n == <<m.id, "notify">>
    <2>3. Descent
      <3>1. /\ Live' = (Live \ {slot}) \cup (IF session[slot].wait THEN {n} ELSE {})
            /\ \A i \in Live \ {slot} : session'[i] = session[i]
            /\ session[slot].wait => session'[n].src = session[slot].src
            /\ n[1] = slot[1] /\ slot \in Live
        BY <1>1, <2>1, <2>2, PromotingSteps
      <3> HIDE DEF slot, n
      <3> QED BY <3>1 DEF Descent
    <2> QED BY <1>1, <1>3, <2>2, <2>3, FewerMessages, CarriedMessages
  <1>8. CASE Unmapping
    <2>1. net' \subseteq net /\ UNCHANGED <<session, m_nSessionID, ret, submits>>
      BY <1>8 DEF Unmapping, TransactionRefused
    <2>2. Descent
      BY <1>2, <2>1 DEF Live
    <2> QED BY <1>1, <1>3, <2>1, <2>2, FewerMessages, CarriedMessages
  <1>9. ASSUME NEW S \in SUBSET Slots, \A i \in S : session'[i] = Freed,
               \A i \in Slots \ S : Kin(session'[i], session[i]), net' \subseteq net,
               UNCHANGED <<m_nSessionID, ret, submits>>
        PROVE  Messages'
    <2>2. Descent
      BY <1>2, <1>9, FreedFacts DEF Live, Kin
    <2> QED BY <1>1, <1>3, <1>9, <2>2, FewerMessages, CarriedMessages
  <1>10. CASE Losing
    <2>1. PICK h \in Handlers : NULL \notin arrSession[h] /\ OnNetworkError(h)
      BY <1>10 DEF Losing
    <2>2. /\ arrSession[h] \in SUBSET Slots
          /\ \A i \in arrSession[h] : session'[i] = Freed
          /\ \A i \in Slots \ arrSession[h] : Kin(session'[i], session[i])
          /\ net' \subseteq net /\ UNCHANGED <<m_nSessionID, ret, submits>>
      BY <1>1, <2>1, LosingSteps DEF Live, Sever
    <2> QED BY <1>9, <2>2
  <1>11. CASE OnExit
    <2>1. /\ session' = Delete(Mapped) /\ net' \subseteq net
          /\ UNCHANGED <<m_nSessionID, ret, submits>>
      BY <1>11 DEF OnExit
    <2>2. /\ \A i \in Mapped \cap Slots : session'[i] = Freed
          /\ \A i \in Slots \ Mapped : Kin(session'[i], session[i])
      BY <2>1 DEF Delete, Kin
    <2> DEFINE S == Mapped \cap Slots
    <2>3. S \in SUBSET Slots /\ Slots \ S = Slots \ Mapped
      OBVIOUS
    <2> HIDE DEF S
    <2>4. (\A i \in S : session'[i] = Freed) /\ \A i \in Slots \ S : Kin(session'[i], session[i])
      BY <2>2, <2>3 DEF S
    <2> QED BY <1>9, <2>1, <2>3, <2>4
  <1>12. CASE Quiet
    <2>1. Carried /\ UNCHANGED <<session, m_nSessionID, ret, submits>>
      BY <1>12 DEF Quiet
    <2>2. Descent
      BY <1>2, <2>1 DEF Live
    <2> QED BY <1>1, <1>3, <2>1, <2>2, CarriedMessages
  <1> QED BY <1>1, <1>4, <1>5, <1>6, <1>7, <1>8, <1>10, <1>11, <1>12, RefusingMessages,
             OpeningMessages DEF Shape

LEMMA ShapeSessions ==
  ASSUME IInv, Shape
  PROVE  Sessions'
  <1>1. Sessions /\ Messages
    BY IInvParts
  <1>2. \A slot \in Live : slot[1] # m_nSessionID
    BY <1>1, NextIsFree
  <1> QED BY <1>1, <1>2, RefusingSessions, CrashingSessions, UndefiningSessions, OpeningSessions,
             ReleasingSessions, CountingSessions, PromotingSessions, UnmappingSessions, LosingSessions,
             QuietSessions, OnExitSessions DEF Shape
-----------------------------------------------------------------------------
LEMMA InitIInv == Init => IInv
  <1> SUFFICES ASSUME Init PROVE IInv
    OBVIOUS
  <1>1. Live = {}
    BY FreedFacts DEF Init, Live
  <1>2. TypeOK /\ submits \in [Requests -> Nat]
    BY FreedFacts, AdapterAssumption DEF Init, TypeOK, SessionIDs
  <1>3. TimersExact /\ ArraysLead /\ OnlyRefusedUnmapped
    BY <1>1 DEF Init, TimersExact, ArraysLead, OnlyRefusedUnmapped, Refused, running
  <1>4. SessionsOwned /\ OneSession /\ MessagesFit /\ UnsentUntouched /\ OwnMessages
    BY <1>1 DEF Init, SessionsOwned, OneSession, MessagesFit, UnsentUntouched, OwnMessages
  <1>5. IdsFresh
    BY <1>1 DEF Init, IdsFresh, InUse
  <1> QED BY <1>2, <1>3, <1>4, <1>5 DEF IInv

LEMMA NextIInv == IInv /\ [Next]_vars => IInv'
  <1> SUFFICES ASSUME IInv, [Next]_vars PROVE IInv'
    OBVIOUS
  <1>1. CASE Next
    BY <1>1, NextShape, ShapeSessions, ShapeMessages, IInvParts DEF IInv, Sessions, Messages
  <1>2. CASE UNCHANGED vars
    <2> USE <1>2 DEF vars, Live
    <2>1. TypeOK' /\ (submits \in [Requests -> Nat])'
      BY DEF IInv, TypeOK
    <2>2. TimersExact' /\ ArraysLead' /\ OnlyRefusedUnmapped'
      BY DEF IInv, TimersExact, ArraysLead, OnlyRefusedUnmapped, Refused, running
    <2>3. SessionsOwned' /\ OneSession' /\ UnsentUntouched'
      BY DEF IInv, SessionsOwned, OneSession, UnsentUntouched
    <2>4. MessagesFit' /\ OwnMessages'
      BY DEF IInv, MessagesFit, OwnMessages, Stale
    <2>5. IdsFresh'
      BY DEF IInv, IdsFresh, InUse, Taken, Age, Stale
    <2> QED BY <2>1, <2>2, <2>3, <2>4, <2>5 DEF IInv
  <1> QED BY <1>1, <1>2

\* IInv holds at all times.
THEOREM Invariance == Spec => []IInv
  BY InitIInv, NextIInv, PTL DEF Spec

\* The variables have their types.
THEOREM TypeCorrect == Spec => []TypeOK
  <1>1. IInv => TypeOK
    BY DEF IInv
  <1> QED BY <1>1, Invariance, PTL

\* The timer of every session is armed, and neither a timer nor a map names a
\* deleted one, through every way a session can come and go.
THEOREM TimersAlwaysExact == Spec => []TimersExact
  <1>1. IInv => TimersExact
    BY DEF IInv
  <1> QED BY <1>1, Invariance, PTL

\* The only sessions no map knows are those whose submission was refused.
THEOREM OthersMapped == Spec => []OnlyRefusedUnmapped
  <1>1. IInv => OnlyRefusedUnmapped
    BY DEF IInv
  <1> QED BY <1>1, Invariance, PTL

\* A message is taken for no other call's, unless its own call was half sent.
THEOREM MessagesMeetOwnCall == Spec => []NoCrossTalk
  <1>1. IInv => NoCrossTalk
    <2> SUFFICES ASSUME IInv, NEW m \in net, running, Found(m)
                 PROVE  session[Slot(m)].src = m.src \/ Stale(m.src)
      BY DEF NoCrossTalk
    <2>1. Slot(m) \in Live /\ Slot(m)[1] = m.id
      BY FoundIsLive
    <2> QED BY <2>1 DEF IInv, OwnMessages
  <1> QED BY <1>1, Invariance, PTL

\* Nothing is submitted for a call that has its response.
THEOREM SubmitsPrecedeResponses == Spec => NoSubmitAfterResponse
  <1>1. IInv /\ [Next]_vars =>
          [\A r \in Requests : submits'[r] # submits[r] => rsp[r] = <<>>]_vars
    <2> SUFFICES ASSUME IInv, Next, NEW r \in Requests, submits'[r] # submits[r]
                 PROVE  rsp[r] = <<>>
      OBVIOUS
    <2>1. Shape
      BY NextShape
    <2>2. ~UNCHANGED submits
      OBVIOUS
    <2>3. PICK slot \in Live : SubmitsOf(slot)
      BY <2>1, <2>2 DEF Shape, Refusing, Crashing, Undefining, Opening, Called, Releasing, Counting,
            Promoting, TransactionAccepted, Unmapping, TransactionRefused, Losing,
            OnNetworkError, Quiet, OnExit, history
    <2>4. slot[2] = "request" /\ session[slot].src = r
      BY <2>3, IInvParts, SubmitsGrow
    <2> QED BY <2>4 DEF IInv, SessionsOwned
  <1> QED BY <1>1, Invariance, PTL DEF Spec, NoSubmitAfterResponse

-----------------------------------------------------------------------------
(* The calls move as NotifyLifecycle says. *)

StageFacts ==
  /\ \A r \in Requests :
       /\ req[r] = NULL => stage[r] = "idle"
       /\ (req[r] # NULL /\ \A i \in Live : session[i].src # r) => stage[r] = "closed"
  /\ \A i \in Live : stage[session[i].src] = IF i[2] = "request" THEN "open" ELSE "waiting"
  /\ \A r \in Requests : stage[r] # "idle" => req[r] # NULL

LEMMA StageIs == IInv => StageFacts
  <1> SUFFICES ASSUME IInv PROVE StageFacts
    OBVIOUS
  <1>1. ASSUME NEW r \in Requests
        PROVE  /\ req[r] = NULL => stage[r] = "idle"
               /\ (req[r] # NULL /\ \A i \in Live : session[i].src # r) => stage[r] = "closed"
               /\ stage[r] # "idle" => req[r] # NULL
    BY DEF stage, RequestSessions, NotifySessions
  <1>2. ASSUME NEW i \in Live
        PROVE  stage[session[i].src] = IF i[2] = "request" THEN "open" ELSE "waiting"
    <2>1. session[i].src \in Requests /\ req[session[i].src] # NULL /\ i[2] \in {"request", "notify"}
      BY IInvParts, LiveFacts DEF IInv, SessionsOwned
    <2>2. \A j \in Live : session[j].src = session[i].src => j = i
      BY DEF IInv, OneSession
    <2>3. CASE i[2] = "request"
      <3>1. i \in RequestSessions(session[i].src)
        BY <2>3 DEF RequestSessions
      <3> QED BY <2>1, <2>3, <3>1 DEF stage
    <2>4. CASE i[2] = "notify"
      <3>1. i \in NotifySessions(session[i].src)
        BY <2>4 DEF NotifySessions
      <3>2. RequestSessions(session[i].src) = {}
        BY <2>2, <2>4 DEF RequestSessions
      <3> QED BY <2>1, <2>4, <3>1, <3>2 DEF stage
    <2> QED BY <2>1, <2>3, <2>4
  <1> QED BY <1>1, <1>2 DEF StageFacts

LEMMA StageIsNext == IInv' => StageFacts'
  BY StageIs, PTL

\* A call of which nothing changes stays where it is.
Same(r) ==
  /\ req'[r] = req[r] /\ ret'[r] = ret[r] /\ rsp'[r] = rsp[r] /\ ntf'[r] = ntf[r]
  /\ \A i \in Slots : (i \in Live' /\ session'[i].src = r) <=> (i \in Live /\ session[i].src = r)

Moves(r) ==
  /\ \/ Lifecycle!Accepts(r) \/ Lifecycle!Refuses(r) \/ Lifecycle!Responds(r)
     \/ Lifecycle!Notifies(r) \/ Lifecycle!Drops(r) \/ Lifecycle!Vanishes(r)
     \/ Lifecycle!Stays(r)
  /\ stage[r] # "idle" => ret'[r] = ret[r] /\ wants'[r] = wants[r]

LEMMA SameStays ==
  ASSUME NEW r \in Requests, Same(r)
  PROVE  Moves(r) /\ stage'[r] = stage[r] /\ wants'[r] = wants[r]
  <1>1. RequestSessions(r)' = RequestSessions(r) /\ NotifySessions(r)' = NotifySessions(r)
    BY DEF Same, RequestSessions, NotifySessions, Live
  <1>2. stage'[r] = stage[r]
    BY <1>1 DEF stage, Same
  <1>3. wants'[r] = wants[r]
    BY DEF wants, Same
  <1> QED BY <1>2, <1>3 DEF Moves, Same, Lifecycle!Stays, Lifecycle!Silent

\* The request of a live session is told: once for the response, once for the
\* notification.
LEMMA EndMoves ==
  ASSUME IInv, IInv', NEW i \in Live, NEW code \in Codes, LET r == session[i].src IN
           /\ req'[r] = req[r] /\ ret'[r] = ret[r]
           /\ i[2] = "request" => rsp'[r] = Append(rsp[r], code) /\ ntf'[r] = ntf[r]
           /\ i[2] = "notify" => ntf'[r] = Append(ntf[r], code) /\ rsp'[r] = rsp[r],
         stage'[session[i].src] =
           IF i[2] = "request" /\ wants[session[i].src] /\ code = "OK" THEN "waiting" ELSE "closed"
  PROVE  Moves(session[i].src)
  <1> DEFINE r == session[i].src
  <1>1. r \in Requests /\ i[2] \in {"request", "notify"}
    BY IInvParts, LiveFacts
  <1>2. stage[r] = IF i[2] = "request" THEN "open" ELSE "waiting"
    BY StageIs DEF StageFacts
  <1>3. wants'[r] = wants[r]
    BY <1>1 DEF wants
  <1>4. CASE i[2] = "request"
    <2>1. rsp[r] = <<>>
      BY <1>4 DEF IInv, SessionsOwned
    <2>2. rsp'[r] = <<code>>
      BY <1>4, <2>1
    <2>3. Len(rsp'[r]) = 1 /\ rsp'[r][1] = code
      BY <2>2
    <2>4. Lifecycle!Told(rsp, rsp', r)
      BY <1>4 DEF Lifecycle!Told
    <2>5. Lifecycle!Responds(r)
      BY <1>2, <1>4, <2>3, <2>4 DEF Lifecycle!Responds
    <2> QED BY <1>3, <2>5 DEF Moves
  <1>5. CASE i[2] = "notify"
    <2>1. Lifecycle!Told(ntf, ntf', r)
      BY <1>5 DEF Lifecycle!Told
    <2>2. Lifecycle!Notifies(r)
      BY <1>2, <1>5, <2>1 DEF Lifecycle!Notifies, Lifecycle!From
    <2> QED BY <1>3, <2>2 DEF Moves
  <1> QED BY <1>1, <1>4, <1>5

LEMMA RefusingMoves ==
  ASSUME IInv, IInv', Refusing
  PROVE  \A q \in Requests : Moves(q)
  <1>1. PICK r \in Requests, c \in Calls, code \in {"NETWORK", "DECODE"} :
          Called(r, c, code) /\ session' = session
    BY DEF Refusing
  <1>2. ret[r] = NULL /\ rsp[r] = <<>> /\ \A slot \in Live : session[slot].src # r
    BY <1>1, CalledIsNew, IInvParts DEF Called
  <1>3. /\ \A q \in Requests : /\ req'[q] = IF q = r THEN c ELSE req[q]
                               /\ ret'[q] = IF q = r THEN code ELSE ret[q]
        /\ rsp' = rsp /\ ntf' = ntf /\ session' = session /\ Live' = Live /\ req[r] = NULL
    BY <1>1 DEF Called, IInv, TypeOK, Live
  <1>4. ASSUME NEW q \in Requests, q # r
        PROVE  Moves(q)
    BY <1>3, <1>4, SameStays DEF Same
  <1>5. Moves(r)
    <2>1. stage[r] = "idle"
      BY <1>3, StageIs DEF StageFacts
    <2>2. stage'[r] = "closed"
      BY <1>2, <1>3, CallFacts, StageIsNext DEF StageFacts
    <2>3. Lifecycle!Refuses(r)
      BY <1>3, <2>1, <2>2, AdapterAssumption
         DEF Lifecycle!Refuses, Lifecycle!From, Lifecycle!Silent
    <2> QED BY <2>1, <2>3 DEF Moves
  <1> QED BY <1>4, <1>5

LEMMA CrashingMoves ==
  ASSUME IInv, IInv', Crashing
  PROVE  \A q \in Requests : Moves(q)
  <1>1. PICK r \in Requests, c \in Calls :
          /\ running /\ req[r] = NULL
          /\ req' = [req EXCEPT ![r] = c] /\ service' \in {"crashed", "undefined"}
          /\ UNCHANGED <<serviceVars, net, ret, rsp, ntf, submits, accepted>>
    BY DEF Crashing
  <1>2. ret[r] = NULL /\ rsp[r] = <<>> /\ \A slot \in Live : session[slot].src # r
    BY <1>1, CalledIsNew, IInvParts
  <1>3. /\ \A q \in Requests : req'[q] = IF q = r THEN c ELSE req[q]
        /\ ret' = ret /\ rsp' = rsp /\ ntf' = ntf /\ session' = session /\ Live' = Live
    BY <1>1 DEF serviceVars, IInv, TypeOK, Live
  <1>4. ASSUME NEW q \in Requests, q # r
        PROVE  Moves(q)
    BY <1>3, <1>4, SameStays DEF Same
  <1>5. Moves(r)
    <2>1. stage[r] = "idle"
      BY <1>1, StageIs DEF StageFacts
    <2>2. stage'[r] = "closed"
      BY <1>2, <1>3, CallFacts, StageIsNext DEF StageFacts
    <2>3. ~running'
      BY <1>1 DEF running
    <2>4. Lifecycle!Vanishes(r)
      BY <1>2, <1>3, <2>1, <2>2, <2>3
         DEF Lifecycle!Vanishes, Lifecycle!From, Lifecycle!Silent
    <2> QED BY <2>1, <2>4 DEF Moves
  <1> QED BY <1>4, <1>5

LEMMA UndefiningMoves ==
  ASSUME Undefining
  PROVE  \A q \in Requests : Moves(q)
  <1>1. UNCHANGED <<session, req, ret, rsp, ntf>>
    BY DEF Undefining, serviceVars
  <1>2. \A q \in Requests : Same(q)
    BY <1>1 DEF Same, Live
  <1> QED BY <1>2, SameStays

LEMMA OpeningMoves ==
  ASSUME IInv, IInv', Opening
  PROVE  \A q \in Requests : Moves(q)
  <1>1. PICK r \in Requests, c \in Calls, S \in SUBSET Handlers, h \in Handlers,
            es \in EsSessions \cup {NULL} :
          /\ Called(r, c, "OK")
          /\ Open(NewSession(c, r, S, h, es))
    BY DEF Opening
  <1> DEFINE new == <<m_nSessionID, "request">>
             s == NewSession(c, r, S, h, es)
  <1>2. ret[r] = NULL /\ rsp[r] = <<>> /\ \A slot \in Live : session[slot].src # r
    BY <1>1, CalledIsNew, IInvParts DEF Called
  <1>3. /\ \A q \in Requests : /\ req'[q] = IF q = r THEN c ELSE req[q]
                               /\ ret'[q] = IF q = r THEN "OK" ELSE ret[q]
        /\ rsp' = rsp /\ ntf' = ntf /\ req[r] = NULL
    BY <1>1 DEF Called, IInv, TypeOK
  <1>4. new \in Slots /\ new \notin Live /\ new[2] = "request"
    BY IInvParts, NextIsFree DEF IInv, TypeOK, Slots
  <1>5. s.src = r /\ s.kind # "free"
    BY CallFacts DEF NewSession
  <1>6. /\ \A i \in Slots : session'[i] = IF i = new THEN s ELSE session[i]
    BY <1>1 DEF Open, IInv, TypeOK
  <1> HIDE DEF new, s
  <1>7. Live' = Live \cup {new} /\ \A i \in Live : session'[i] = session[i] /\ i # new
    BY <1>4, <1>5, <1>6 DEF Live
  <1>8. ASSUME NEW q \in Requests, q # r
        PROVE  Moves(q)
    BY <1>3, <1>4, <1>5, <1>6, <1>7, <1>8, SameStays DEF Same
  <1>9. Moves(r)
    <2>1. stage[r] = "idle"
      BY <1>3, StageIs DEF StageFacts
    <2>2. new \in Live' /\ session'[new].src = r
      BY <1>4, <1>5, <1>6, <1>7
    <2>3. stage'[r] = "open"
      BY <1>4, <2>2, StageIsNext DEF StageFacts
    <2>4. Lifecycle!Accepts(r)
      BY <1>3, <2>1, <2>3 DEF Lifecycle!Accepts, Lifecycle!From, Lifecycle!Silent
    <2> QED BY <2>1, <2>4 DEF Moves
  <1> QED BY <1>8, <1>9

LEMMA ReleasingMoves ==
  ASSUME IInv, IInv', Releasing
  PROVE  \A q \in Requests : Moves(q)
  <1>1. PICK slot \in Slots, code \in Codes :
          /\ running /\ slot \in Live
          /\ Tell(slot, code)
          /\ slot[2] = "request" /\ code = "OK" => session[slot].kind \in QueryKinds
          /\ session' = Delete({slot})
          /\ req' = req /\ ret' = ret
    BY DEF Releasing, Release
  <1> DEFINE r == session[slot].src
  <1>2. /\ r \in Requests /\ slot[2] \in {"request", "notify"}
        /\ req[r] # NULL /\ req[r].kind = session[slot].kind
        /\ \A i \in Live : session[i].src = r => i = slot
    BY <1>1, IInvParts, LiveFacts DEF IInv, SessionsOwned, OneSession
  <1>3. /\ \A q \in Requests : q # r => rsp'[q] = rsp[q] /\ ntf'[q] = ntf[q]
        /\ slot[2] = "request" => rsp'[r] = Append(rsp[r], code) /\ ntf' = ntf
        /\ slot[2] = "notify" => ntf'[r] = Append(ntf[r], code) /\ rsp' = rsp
    BY <1>1, IInvParts, ToldType
  <1>4. /\ Live' = Live \ {slot} /\ \A i \in Live' : session'[i] = session[i]
    <2>1. \A i \in Slots : session'[i] = IF i = slot THEN Freed ELSE session[i]
      BY <1>1 DEF Delete
    <2> QED BY <2>1, FreedFacts DEF Live
  <1>5. ASSUME NEW q \in Requests, q # r
        PROVE  Moves(q)
    <2>1. \A i \in Slots : (i \in Live' /\ session'[i].src = q) <=> (i \in Live /\ session[i].src = q)
      BY <1>4, <1>5
    <2> QED BY <1>1, <1>3, <1>5, <2>1, SameStays DEF Same
  <1>6. Moves(r)
    <2>0. r \in Requests /\ req'[r] # NULL /\ \A i \in Live' : session'[i].src # r
      BY <1>1, <1>2, <1>4
    <2>1. stage'[r] = "closed"
      BY <2>0, StageIsNext DEF StageFacts
    <2>2. ~(slot[2] = "request" /\ wants[r] /\ code = "OK")
      <3>1. req[r] \in Calls
        BY <1>2 DEF IInv, TypeOK
      <3>2. req[r].kind \in QueryKinds => ~req[r].wait
        BY <3>1, CallFacts
      <3> QED BY <1>1, <1>2, <3>2 DEF wants
    <2> QED BY <1>1, <1>2, <1>3, <2>1, <2>2, EndMoves
  <1> QED BY <1>5, <1>6

LEMMA CountingMoves ==
  ASSUME IInv, Counting
  PROVE  \A q \in Requests : Moves(q)
  <1>1. PICK slot \in Slots, s \in Session :
          /\ slot \in Live /\ s.kind = session[slot].kind /\ s.src = session[slot].src
          /\ session' = [session EXCEPT ![slot] = s]
          /\ UNCHANGED <<req, ret, rsp, ntf>>
    BY DEF Counting
  <1>2. \A i \in Slots : session'[i] = IF i = slot THEN s ELSE session[i]
    BY <1>1 DEF IInv, TypeOK
  <1>3. \A i \in Slots : session'[i].kind = session[i].kind /\ session'[i].src = session[i].src
    BY <1>1, <1>2
  <1>4. \A q \in Requests : Same(q)
    BY <1>1, <1>3 DEF Same, Live
  <1> QED BY <1>4, SameStays

LEMMA PromotingMoves ==
  ASSUME IInv, IInv', Promoting
  PROVE  \A q \in Requests : Moves(q)
  <1>1. PICK m \in net :
          /\ TransactionAccepted(m)
          /\ Slot(m) \in Live /\ Slot(m)[2] = "request" /\ m.id \in SessionIDs
          /\ session[Slot(m)].kind = m.kind
    BY DEF Promoting
  <1>2. running /\ OnResponse(session[Slot(m)], "OK") /\ req' = req /\ ret' = ret /\ ntf' = ntf
    BY <1>1 DEF TransactionAccepted, Arrived
  <1> DEFINE slot == Slot(m)
             s == session[slot]
             r == s.src
             n == <<m.id, "notify">>
  <1>3. /\ n \in Slots /\ n \notin Live /\ n[2] = "notify"
        /\ Live' = (Live \ {slot}) \cup (IF s.wait THEN {n} ELSE {})
        /\ \A i \in Live \ {slot} : session'[i] = session[i]
        /\ s.wait => session'[n].src = r
    BY <1>1, <1>2, IInvParts, PromotingSteps
  <1>4. /\ slot \in Slots /\ r \in Requests /\ req[r] # NULL /\ s.wait = req[r].wait
        /\ \A i \in Live : session[i].src = r => i = slot
    BY <1>1, IInvParts, LiveFacts DEF IInv, SessionsOwned, OneSession
  <1>5. \A q \in Requests : rsp'[q] = IF q = r THEN Append(rsp[r], "OK") ELSE rsp[q]
    BY <1>2, <1>4 DEF OnResponse, IInv, TypeOK
  <1>6. slot \in Live /\ slot[2] = "request"
    BY <1>1
  <1> HIDE DEF slot, n
  <1>7. ASSUME NEW q \in Requests, q # r
        PROVE  Moves(q)
    <2>1. \A i \in Slots : (i \in Live' /\ session'[i].src = q) <=> (i \in Live /\ session[i].src = q)
      BY <1>3, <1>4, <1>7
    <2> QED BY <1>2, <1>5, <1>7, <2>1, SameStays DEF Same
  <1>8. Moves(r)
    <2>1. wants[r] <=> s.wait
      BY <1>4 DEF wants
    <2>2. CASE s.wait
      <3>1. n \in Live' /\ session'[n].src = r /\ n[2] # "request"
        BY <1>3, <2>2
      <3>2. stage'[r] = "waiting"
        BY <3>1, StageIsNext DEF StageFacts
      <3>3. stage'[r] = IF slot[2] = "request" /\ wants[r] /\ "OK" = "OK"
                        THEN "waiting" ELSE "closed"
        BY <1>6, <2>1, <2>2, <3>2
      <3> QED BY <1>2, <1>4, <1>5, <1>6, <3>3, EndMoves DEF Codes
    <2>3. CASE ~s.wait
      <3>1. req'[r] # NULL /\ \A i \in Live' : session'[i].src # r
        BY <1>2, <1>3, <1>4, <2>3
      <3>2. stage'[r] = "closed"
        BY <1>4, <3>1, StageIsNext DEF StageFacts
      <3>3. stage'[r] = IF slot[2] = "request" /\ wants[r] /\ "OK" = "OK"
                        THEN "waiting" ELSE "closed"
        BY <2>1, <2>3, <3>2
      <3> QED BY <1>2, <1>4, <1>5, <1>6, <3>3, EndMoves DEF Codes
    <2> QED BY <2>2, <2>3
  <1> QED BY <1>7, <1>8

LEMMA UnmappingMoves ==
  ASSUME Unmapping
  PROVE  \A q \in Requests : Moves(q)
  <1>1. UNCHANGED <<session, req, ret, rsp, ntf>>
    BY DEF Unmapping, TransactionRefused, calls
  <1>2. \A q \in Requests : Same(q)
    BY <1>1 DEF Same, Live
  <1> QED BY <1>2, SameStays

LEMMA LosingMoves ==
  ASSUME IInv, IInv', Losing
  PROVE  \A q \in Requests : Moves(q)
  <1>1. PICK h \in Handlers : NULL \notin arrSession[h] /\ OnNetworkError(h)
    BY DEF Losing
  <1> DEFINE S == arrSession[h]
  <1>2. /\ running /\ S \in SUBSET Live
        /\ \A i \in S : session'[i] = Freed
        /\ \A i \in Slots \ S : Kin(session'[i], session[i])
        /\ rsp' = LostRsp(S) /\ ntf' = LostNtf(S)
        /\ req' = req /\ ret' = ret
    BY <1>1, IInvParts, LosingSteps
  <1> HIDE DEF S
  <1>4. Live' = Live \ S /\ \A i \in Live' : session'[i].src = session[i].src
    <2>1. S \subseteq Slots
      BY <1>2 DEF Live
    <2> QED BY <1>2, <2>1, FreedFacts DEF Live, Kin
  <1>5. \A i, j \in Live : session[i].src = session[j].src => i = j
    BY DEF IInv, OneSession
  <1>6. ASSUME NEW q \in Requests
        PROVE  /\ rsp'[q] = IF \E i \in S : i[2] = "request" /\ session[i].src = q
                            THEN Append(rsp[q], "NETWORK") ELSE rsp[q]
               /\ ntf'[q] = IF \E i \in S : i[2] = "notify" /\ session[i].src = q
                            THEN Append(ntf[q], "NETWORK") ELSE ntf[q]
    BY <1>2 DEF LostRsp, LostNtf
  <1>7. ASSUME NEW q \in Requests, \A i \in S : session[i].src # q
        PROVE  Moves(q)
    <2>1. \A i \in Slots : (i \in Live' /\ session'[i].src = q) <=> (i \in Live /\ session[i].src = q)
      BY <1>2, <1>4, <1>7
    <2>2. rsp'[q] = rsp[q] /\ ntf'[q] = ntf[q]
      BY <1>6, <1>7
    <2> QED BY <1>2, <2>1, <2>2, SameStays DEF Same
  <1>8. ASSUME NEW i \in S
        PROVE  Moves(session[i].src)
    <2> DEFINE r == session[i].src
    <2>1. i \in Live /\ r \in Requests /\ req[r] # NULL
      BY <1>2, IInvParts, LiveFacts DEF IInv, SessionsOwned
    <2>2. \A j \in S : session[j].src = r => j = i
      BY <1>2, <1>5, <2>1
    <2>3. \A j \in Live' : session'[j].src # r
      BY <1>4, <1>5, <2>1
    <2>4. stage'[r] = "closed"
      BY <1>2, <2>1, <2>3, StageIsNext DEF StageFacts
    <2>5. /\ i[2] = "request" => rsp'[r] = Append(rsp[r], "NETWORK") /\ ntf'[r] = ntf[r]
          /\ i[2] = "notify" => ntf'[r] = Append(ntf[r], "NETWORK") /\ rsp'[r] = rsp[r]
      BY <1>6, <2>1, <2>2
    <2> QED BY <1>2, <2>1, <2>4, <2>5, EndMoves DEF Codes
  <1> QED BY <1>7, <1>8

LEMMA OnExitMoves ==
  ASSUME IInv, IInv', OnExit
  PROVE  \A q \in Requests : Moves(q)
  <1>1. session' = Delete(Mapped) /\ service' = "exited" /\ UNCHANGED <<req, ret, rsp, ntf>>
    BY DEF OnExit, calls
  <1>2. Live' = Live \ Mapped /\ \A i \in Live' : session'[i] = session[i]
    <2>1. \A i \in Slots : session'[i] = IF i \in Mapped THEN Freed ELSE session[i]
      BY <1>1 DEF Delete
    <2> QED BY <2>1, FreedFacts DEF Live
  <1>3. ASSUME NEW q \in Requests, \A i \in Live \cap Mapped : session[i].src # q
        PROVE  Moves(q)
    <2>1. \A i \in Slots : (i \in Live' /\ session'[i].src = q) <=> (i \in Live /\ session[i].src = q)
      BY <1>2, <1>3
    <2> QED BY <1>1, <2>1, SameStays DEF Same
  <1>4. ASSUME NEW i \in Live \cap Mapped
        PROVE  Moves(session[i].src)
    <2> DEFINE r == session[i].src
    <2>1. r \in Requests /\ req[r] # NULL /\ i[2] \in {"request", "notify"}
      BY IInvParts, LiveFacts DEF IInv, SessionsOwned
    <2>2. \A j \in Live' : session'[j].src # r
      BY <1>2 DEF IInv, OneSession
    <2>3. stage'[r] = "closed"
      BY <1>1, <2>1, <2>2, StageIsNext DEF StageFacts
    <2>4. stage[r] \in {"open", "waiting"}
      BY <2>1, StageIs DEF StageFacts
    <2>5. ~running' /\ wants'[r] = wants[r] /\ ret'[r] = ret[r]
      BY <1>1, <2>1 DEF running, wants
    <2>6. Lifecycle!Drops(r)
      BY <1>1, <2>3, <2>4, <2>5 DEF Lifecycle!Drops, Lifecycle!Silent
    <2> QED BY <2>5, <2>6 DEF Moves
  <1> QED BY <1>3, <1>4

\* A step that leaves every call the same changes nothing of NotifyLifecycle.
LEMMA QuietStutters ==
  ASSUME UNCHANGED <<session, service, req, ret, rsp, ntf>>
  PROVE  UNCHANGED Lifecycle!vars
  <1>1. \A r \in Requests : RequestSessions(r)' = RequestSessions(r)
                            /\ NotifySessions(r)' = NotifySessions(r)
    BY DEF RequestSessions, NotifySessions, Live
  <1>2. stage' = stage
    BY <1>1 DEF stage
  <1>3. wants' = wants /\ running' = running
    BY DEF wants, running
  <1> QED BY <1>2, <1>3 DEF Lifecycle!vars

LEMMA LifecycleStep == IInv /\ IInv' /\ [Next]_vars => [Lifecycle!Move]_(Lifecycle!vars)
  <1> SUFFICES ASSUME IInv, IInv', [Next]_vars
               PROVE  [Lifecycle!Move]_(Lifecycle!vars)
    OBVIOUS
  <1>1. CASE UNCHANGED vars
    BY <1>1, QuietStutters DEF vars
  <1>2. CASE Next
    <2>1. Shape
      BY <1>2, NextShape
    <2>2. CASE Quiet
      BY <2>2, QuietStutters DEF Quiet
    <2>3. CASE ~Quiet
      <3>1. running
        BY <2>1, <2>3 DEF Shape, Refusing, Crashing, Undefining, Opening, Called, Releasing, Counting,
              Promoting, TransactionAccepted, Arrived, Unmapping, TransactionRefused,
              Losing, OnNetworkError, OnExit
      <3>2. \A q \in Requests : Moves(q)
        BY <2>1, <2>3, RefusingMoves, CrashingMoves, UndefiningMoves, OpeningMoves,
           ReleasingMoves, CountingMoves, PromotingMoves, UnmappingMoves, LosingMoves, OnExitMoves DEF Shape
      <3> QED BY <3>1, <3>2 DEF Lifecycle!Move, Moves
    <2> QED BY <2>2, <2>3
  <1> QED BY <1>1, <1>2

\* The service keeps the promise of NotifyLifecycle: a call is refused, or
\* told of its outcome once, and of its notification once if it asked for it
\* and the outcome was OK, unless the service ends.
THEOREM AdapterImplementsLifecycle == Spec => ImplementsLifecycle
  <1>1. Init => Lifecycle!Init
    <2> SUFFICES ASSUME Init PROVE Lifecycle!Init
      OBVIOUS
    <2>1. stage = [r \in Requests |-> "idle"]
      BY DEF Init, stage
    <2>2. running = TRUE
      BY DEF Init, running
    <2> QED BY <2>1, <2>2 DEF Init, Lifecycle!Init
  <1> QED BY <1>1, Invariance, LifecycleStep, PTL DEF Spec, ImplementsLifecycle, Lifecycle!Spec
=============================================================================
