------------------------- MODULE AdapterEndorseProofs -------------------------
(***************************************************************************)
(* Proofs about the endorsements AdapterBase counts, what it submits and   *)
(* what it tells the application of a transaction: EndorseInv, which adds  *)
(* the tally of every call to IInv, is an inductive invariant.             *)
(*                                                                         *)
(* Calls do not share what is counted: a step either starts one call's     *)
(* endorsement, or counts an answer for one call, or leaves every tally as *)
(* it is. A call that was given another call's answer (Mixed) has no tally *)
(* from then on.                                                           *)
(***************************************************************************)
EXTENDS AdapterBaseProofs

(* What every step does to the calls and to the messages. *)

ReqKept == \A q \in Requests : req[q] # NULL => req'[q] = req[q]

\* Every message descends from one that was there, is sent for a session, or
\* is of a call that starts.
NetCarried ==
  \A m \in net' : /\ m \in Message
                  /\ \/ FromMessage(m) \/ FromSession(m)
                     \/ \E r \in Requests : IsNew(m, r) /\ req[r] = NULL /\ req'[r] # NULL

LEMMA ShapeCarries ==
  ASSUME IInv, Shape
  PROVE  ReqKept /\ NetCarried /\ accepted \subseteq accepted'
  <1> USE DEF history, calls
  <1>1. ASSUME Carried
        PROVE  NetCarried
    BY <1>1 DEF Carried, NetCarried
  <1>2. ASSUME net' \subseteq net
        PROVE  NetCarried
    BY <1>1, <1>2, FewerMessages
  <1>3. ASSUME req' = req
        PROVE  ReqKept
    BY <1>3 DEF ReqKept
  <1>4. ASSUME NEW r \in Requests, NEW c \in Calls, req[r] = NULL,
               req' = [req EXCEPT ![r] = c]
        PROVE  ReqKept /\ req'[r] # NULL
    BY <1>4, CallFacts DEF ReqKept, IInv, TypeOK
  <1>5. ASSUME NEW r \in Requests, req[r] = NULL, req'[r] # NULL,
               \A m \in net' : m \in net \/ IsNew(m, r)
        PROVE  NetCarried
    <2>1. \A m \in net' : IsNew(m, r) => m \in Message
      BY DEF IsNew
    <2> QED BY <1>5, <2>1, OldIsCarried DEF NetCarried
  <1>6. CASE Refusing
    <2>1. PICK r \in Requests, c \in Calls, code \in {"NETWORK", "DECODE"} :
            /\ Called(r, c, code)
            /\ \A m \in net' : m \in net \/ IsNew(m, r)
      BY <1>6 DEF Refusing
    <2> QED BY <1>4, <1>5, <2>1 DEF Called
  <1>7. CASE Crashing \/ Undefining
    BY <1>2, <1>3, <1>4, <1>7 DEF Crashing, Undefining
  <1>8. CASE Opening
    <2>1. PICK r \in Requests, c \in Calls :
            /\ Called(r, c, "OK")
            /\ \A m \in net' : m \in net \/ IsNew(m, r)
      BY <1>8 DEF Opening
    <2> QED BY <1>4, <1>5, <2>1 DEF Called
  <1>9. CASE Releasing \/ Counting \/ Quiet
    BY <1>1, <1>3, <1>9 DEF Releasing, Counting, Quiet
  <1>10. CASE Promoting \/ Unmapping \/ OnExit
    BY <1>2, <1>3, <1>10 DEF Promoting, TransactionAccepted, Unmapping, TransactionRefused,
          OnExit
  <1>11. CASE Losing
    <2>1. net' \subseteq net /\ UNCHANGED <<req, accepted>>
      BY <1>11, LosingSteps, IInvParts DEF Losing, Sever
    <2> QED BY <1>2, <1>3, <2>1
  <1> QED BY <1>6, <1>7, <1>8, <1>9, <1>10, <1>11 DEF Shape
-----------------------------------------------------------------------------
(* The steps that touch a tally, and the others. *)

\* An endorser's accepting answer is looked at.
CountingAnswer(m, c) ==
  \/ EndorseWaits(m, c) \/ Submit(m, c) \/ SubmitSendFails(m, c)
  \/ EndorseMismatch(m, c) \/ MismatchSubmits(m, c)

\* No message asks for an endorsement but those that did before.
NoMoreEndorses == \A m \in net' : m.type = "endorse" => m \in net

\* What a session has counted, which it also knows after the connection to the
\* chosen endorser is deleted.
SameCount(t, s) ==
  /\ t.kind = s.kind /\ t.src = s.src /\ t.succ = s.succ /\ t.es = s.es /\ t.info = s.info
  /\ t.submit \in {s.submit, NULL}

LEMMA WithoutCount ==
  ASSUME NEW s \in Session, NEW h
  PROVE  SameCount(Without(s, h), s)
  <1> DEFINE hs == {IF g = h THEN NULL ELSE g : g \in s.hs}
             submit == IF s.submit = h THEN NULL ELSE s.submit
             d == [s EXCEPT !.hs = hs]
             e == [d EXCEPT !.submit = submit]
  <1>1. hs \in SUBSET (Handlers \cup {NULL}) /\ submit \in {s.submit, NULL}
        /\ submit \in Handlers \cup {NULL}
    BY DEF Session
  <1>2. Without(s, h) = e
    BY DEF Without
  <1> HIDE DEF hs, submit
  <1>3. d \in Session /\ SameCount(d, s) /\ d.submit = s.submit
    BY <1>1 DEF Session, SameCount
  <1> HIDE DEF d
  <1>4. e.submit = submit /\ e.kind = d.kind /\ e.src = d.src /\ e.succ = d.succ
        /\ e.es = d.es /\ e.info = d.info
    BY <1>1, <1>3 DEF Session
  <1> HIDE DEF e
  <1> QED BY <1>1, <1>2, <1>3, <1>4 DEF SameCount

\* Nothing is asked, counted or submitted, and no session of a transaction
\* changes its count or comes.
Calm ==
  /\ UNCHANGED <<picked, votes, submits>> /\ NoMoreEndorses
  /\ \A slot \in Live' : \/ slot \in Live /\ SameCount(session'[slot], session[slot])
                         \/ slot[2] = "notify" \/ session'[slot].kind \in QueryKinds

LEMMA CalmCases ==
  ASSUME IInv, UNCHANGED <<picked, votes, submits>>,
         session' = session \/ \E S : session' = Delete(S), NoMoreEndorses
  PROVE  Calm
  <1>1. \A slot \in Live' : slot \in Live /\ session'[slot] = session[slot]
    BY FreedFacts DEF Live, Delete
  <1> QED BY <1>1 DEF Calm, SameCount

\* The call does not come back, or the handler of a message or of a broken
\* connection uses freed memory.
LEMMA EndCalm ==
  ASSUME IInv, Undefined \/ \E r, c, how : CallEnds(r, c, how)
  PROVE  Calm
  <1>1. UNCHANGED <<session, picked, votes, submits, net>>
    BY DEF Undefined, CallEnds, history
  <1> QED BY <1>1, CalmCases DEF NoMoreEndorses

LEMMA StartTallies ==
  ASSUME IInv, NEW r \in Requests, NEW c \in Calls, Start(r, c)
  PROVE  StartEndorse(r, c) \/ StartEndorseFails(r, c) \/ Calm
  <1> USE DEF history, calls
  <1>1. CASE Reject(r, c)
    BY <1>1, CalmCases DEF Reject, NoMoreEndorses
  <1>2. ASSUME NEW h \in Handlers, StartQuery(r, c, h)
        PROVE  Calm
    <2>1. PICK s : s = NewSession(c, r, {h}, h, NULL)
      OBVIOUS
    <2>2. Open(s) /\ s.kind \in QueryKinds /\ UNCHANGED <<picked, votes, submits>>
      BY <1>2, <2>1 DEF StartQuery, NewSession
    <2>3. PICK slot : session' = [session EXCEPT ![slot] = s]
      BY <2>2 DEF Open
    <2>4. \A i \in Live' : session'[i].kind \in QueryKinds
                           \/ (i \in Live /\ session'[i] = session[i])
      BY <2>2, <2>3 DEF Live, IInv, TypeOK
    <2>5. NoMoreEndorses
      BY <1>2 DEF StartQuery, Msg, NoMoreEndorses
    <2> QED BY <2>2, <2>4, <2>5 DEF Calm, SameCount
  <1>3. ASSUME NEW h \in Handlers, QuerySendFails(r, c, h)
        PROVE  Calm
    BY <1>3, CalmCases DEF QuerySendFails, NoMoreEndorses
  <1>4. CASE QueryWithoutPeers(r, c) \/ CallSendBreaks(r, c)
    BY <1>4, EndCalm DEF QueryWithoutPeers, CallSendBreaks
  <1> QED BY <1>1, <1>2, <1>3, <1>4
          DEF Start, RegistUser, CreateInformation, Propose, StartTx, QueryUserInfo,
              QueryTransactionInfo, Query

LEMMA OnHtsMsgTallies ==
  ASSUME IInv, NEW m \in net, OnHtsMsg(m)
  PROVE  Calm \/ \E c \in Contents : CountingAnswer(m, c)
  <1> USE DEF history, calls
  <1>1. CASE NoSession(m)
    BY <1>1, CalmCases DEF NoSession, NoMoreEndorses
  <1>2. CASE EndorseRsp(m)
    <2>1. CASE EndorseFails(m)
      <3>1. session' = Delete({Slot(m)}) /\ UNCHANGED <<picked, votes, submits>>
        BY <2>1 DEF EndorseFails, FailEndorse, Release
      <3>2. NoMoreEndorses
        <4>1. PICK code : FailEndorse(m, session[Slot(m)], code, net \ {m})
          BY <2>1 DEF EndorseFails
        <4> QED BY <4>1 DEF FailEndorse, Cancels, Msg, NoMoreEndorses
      <3> QED BY <3>1, <3>2, CalmCases
    <2>2. CASE EndorseSendBreaks(m)
      BY <2>2, EndCalm DEF EndorseSendBreaks
    <2> QED BY <1>2, <2>1, <2>2 DEF EndorseRsp, CountingAnswer
  <1>3. CASE TransactionAccepted(m)
    <2>1. PICK n, s : /\ n = <<m.id, "notify">>
                      /\ session' = [Delete({Slot(m)}) EXCEPT
                                       ![n] = IF s.wait THEN NotifySession(s) ELSE @]
                      /\ UNCHANGED <<picked, votes, submits>>
      BY <1>3 DEF TransactionAccepted
    <2>2. \A i \in Slots : i # n =>
            session'[i] = IF i \in {Slot(m)} THEN Freed ELSE session[i]
      BY <2>1 DEF Delete
    <2>3. n[2] = "notify"
      BY <2>1
    <2>4. \A i \in Live' : i[2] = "notify" \/ (i \in Live /\ session'[i] = session[i])
      BY <2>2, <2>3, FreedFacts DEF Live
    <2>5. NoMoreEndorses
      BY <1>3 DEF TransactionAccepted, NoMoreEndorses
    <2> QED BY <2>1, <2>4, <2>5 DEF Calm, SameCount
  <1>4. CASE TransactionRefused(m)
    BY <1>4, CalmCases DEF TransactionRefused, NoMoreEndorses
  <1>5. CASE Finish(m)
    <2>1. session' = Delete({Slot(m)}) /\ UNCHANGED <<picked, votes, submits>>
      BY <1>5 DEF Finish, Release
    <2>2. NoMoreEndorses
      BY <1>5 DEF Finish, NoMoreEndorses
    <2> QED BY <2>1, <2>2, CalmCases
  <1> QED BY <1>1, <1>2, <1>3, <1>4, <1>5
          DEF OnHtsMsg, RegistUserEsCltRsp, SubmitRegistUserEsCltRsp,
              CreateInformationEsCltRsp, SubmitCreateInformationEsCltRsp, ProposeEsCltRsp,
              SubmitProposalEsCltRsp, SubmitRsp, SubscribeNotify, QueryUserInfoEsCltRsp,
              QueryTransInfoEsCltRsp

LEMMA NextTallies ==
  ASSUME IInv, Next
  PROVE  \/ Calm
         \/ \E r \in Requests, c \in Calls : StartEndorse(r, c) \/ StartEndorseFails(r, c)
         \/ \E m \in net, c \in Contents : CountingAnswer(m, c)
  <1> USE DEF history, calls
  <1>1. ASSUME NEW m \in net, EsAccept(m) \/ EsRefuse(m) \/ EsCancel(m)
        PROVE  Calm
    <2>1. m \in Message
      BY DEF IInv, TypeOK
    <2>2. NoMoreEndorses
      BY <1>1, <2>1 DEF EsAccept, EsRefuse, EsCancel, NoMoreEndorses, Message
    <2> QED BY <1>1, <2>2, CalmCases DEF EsAccept, EsRefuse, EsCancel
  <1>2. ASSUME NEW slot \in Slots, OnTimeOut(slot)
        PROVE  Calm
    <2>1. session' = Delete({slot}) /\ UNCHANGED <<picked, votes, submits>>
      BY <1>2 DEF OnTimeOut, Release
    <2>2. NoMoreEndorses
      BY <1>2 DEF OnTimeOut, NoMoreEndorses
    <2> QED BY <2>1, <2>2, CalmCases
  <1>3. ASSUME NEW h \in Handlers, OnConnectedNodify(h) \/ OnNetworkError(h)
        PROVE  Calm
    <2>1. CASE OnConnectedNodify(h)
      BY <2>1, CalmCases DEF OnConnectedNodify, NoMoreEndorses
    <2>2. CASE NULL \in arrSession[h] /\ OnNetworkError(h)
      BY <2>2, EndCalm DEF OnNetworkError
    <2>3. CASE NULL \notin arrSession[h] /\ OnNetworkError(h)
      <3>1. /\ session' \in [Slots -> Session]
            /\ \A i \in arrSession[h] : session'[i] = Freed
            /\ \A i \in Slots \ arrSession[h] : session'[i] = Without(session[i], h)
            /\ net' = Sever(h, net) /\ UNCHANGED <<picked, votes, submits>>
        BY <2>3, LosingSteps, IInvParts
      <3>2. ASSUME NEW i \in Live'
            PROVE  i \in Live /\ SameCount(session'[i], session[i])
        <4>1. i \in Slots \ arrSession[h] /\ session'[i].kind # "free"
          BY <3>1, FreedFacts DEF Live
        <4>2. SameCount(session'[i], session[i])
          BY <3>1, <4>1, WithoutCount DEF IInv, TypeOK
        <4> QED BY <4>1, <4>2 DEF SameCount, Live
      <3>3. NoMoreEndorses
        BY <3>1 DEF Sever, NoMoreEndorses
      <3> QED BY <3>1, <3>2, <3>3 DEF Calm
    <2> QED BY <1>3, <2>1, <2>2, <2>3
  <1>4. CASE OnExit
    <2>1. session' = Delete(Mapped) /\ UNCHANGED <<picked, votes, submits>>
      BY <1>4 DEF OnExit
    <2>2. NoMoreEndorses
      BY <1>4 DEF OnExit, NoMoreEndorses
    <2> QED BY <2>1, <2>2, CalmCases
  <1>5. ASSUME NEW r \in Requests, NEW c \in Calls, Start(r, c)
        PROVE  StartEndorse(r, c) \/ StartEndorseFails(r, c) \/ Calm
    BY <1>5, StartTallies
  <1>6. ASSUME NEW m \in net, OnHtsMsg(m)
        PROVE  Calm \/ \E c \in Contents : CountingAnswer(m, c)
    BY <1>6, OnHtsMsgTallies
  <1> QED BY <1>1, <1>2, <1>3, <1>4, <1>5, <1>6, Zenon DEF Next
-----------------------------------------------------------------------------
(* Tallies that a step leaves as they are. *)

\* The endorsers asked and those that have accepted are finite sets.
LEMMA FiniteVoters ==
  ASSUME HistoryTypeOK, NEW r \in Requests
  PROVE  /\ picked[r] \in SUBSET Handlers /\ Voters(r) \in SUBSET Handlers
         /\ votes[r] \in SUBSET (Handlers \X Contents \X Requests)
         /\ IsFiniteSet(picked[r]) /\ IsFiniteSet(Voters(r))
         /\ Cardinality(picked[r]) \in Nat /\ Cardinality(Voters(r)) \in Nat
  <1>1. /\ picked[r] \in SUBSET Handlers
        /\ votes[r] \in SUBSET (Handlers \X Contents \X Requests)
    BY DEF HistoryTypeOK
  <1>2. Voters(r) \in SUBSET Handlers
    BY <1>1 DEF Voters
  <1>3. IsFiniteSet(picked[r]) /\ IsFiniteSet(Voters(r))
    BY <1>1, <1>2, AdapterAssumption, FS_Subset
  <1> QED BY <1>1, <1>2, <1>3, FS_CardinalityType

\* Nothing of r is submitted, and no session will.
Unsubmitted(r) ==
  /\ submits[r] = 0 /\ TxSessions(r) = {}
  /\ \A m \in net : m.type \in Late => m.src # r

LEMMA UnsubmittedTallies ==
  ASSUME NEW r, Unsubmitted(r)
  PROVE  Tally(r)
  BY DEF Unsubmitted, Tally

\* The step does nothing to what Tally(r) is about but take some of it away.
Undisturbed(r) ==
  /\ votes'[r] = votes[r] /\ picked'[r] = picked[r] /\ submits'[r] = submits[r]
  /\ \A slot \in TxSessions(r)' :
       slot \in TxSessions(r) /\ SameCount(session'[slot], session[slot])
  /\ Endorses(r)' \subseteq Endorses(r)
  /\ \A m \in net' : (m.type \in Late /\ m.src = r) =>
       \E n \in net : n.type \in Late /\ n.src = r /\ n.h = m.h /\ n.es = m.es

LEMMA UndisturbedTallies ==
  ASSUME HistoryTypeOK, NEW r \in Requests, Tally(r), Undisturbed(r)
  PROVE  Tally(r)'
  <1>1. Voters(r)' = Voters(r)
    BY DEF Voters, Undisturbed
  <1>2. ASSUME NEW slot \in TxSessions(r)'
        PROVE  CountsVotes(slot)'
    <2>1. slot \in TxSessions(r) /\ SameCount(session'[slot], session[slot])
      BY <1>2 DEF Undisturbed
    <2>2. session[slot].src = r
      BY <2>1 DEF TxSessions, RequestSessions
    <2>3. CountsVotes(slot)
      BY <2>1 DEF Tally
    <2>4. NULL \notin Voters(r)
      BY FiniteVoters, AdapterAssumption
    <2>5. PICK s, t : s = session[slot] /\ t = session'[slot]
      OBVIOUS
    <2>6. /\ t.kind = s.kind /\ t.src = r /\ t.succ = s.succ /\ t.es = s.es
          /\ t.info = s.info /\ t.submit \in {s.submit, NULL} /\ s.src = r
      BY <2>1, <2>2, <2>5 DEF SameCount
    <2>7. /\ t.submit \in picked[r] \cup {NULL}
          /\ t.submit \in Voters(r) => t.es = [h |-> t.submit, src |-> r]
      BY <2>3, <2>4, <2>5, <2>6 DEF CountsVotes
    <2> QED BY <1>1, <2>3, <2>5, <2>6, <2>7 DEF CountsVotes, Undisturbed
  <1>3. submits'[r] \in {0, 1} /\ (submits'[r] = 1 => FullyEndorsed(r)')
    BY <1>1 DEF Tally, Undisturbed, FullyEndorsed
  <1>4. \A m \in net' : (m.type \in Late /\ m.src = r) =>
          m.es = [h |-> m.h, src |-> r] /\ m.h \in picked'[r]
    BY DEF Tally, Undisturbed
  <1> QED BY <1>2, <1>3, <1>4 DEF Tally

\* The late messages of a call that submits nothing.
LEMMA LateUndisturbed ==
  ASSUME NetCarried, NEW r \in Requests, submits[r] \in Nat, submits'[r] = submits[r],
         NEW m \in net', m.src = r, m.type \in Late
  PROVE  \E n \in net : n.type \in Late /\ n.src = r /\ n.h = m.h /\ n.es = m.es
  <1>1. ~FromSession(m)
    BY DEF FromSession, Late
  <1>2. \A q \in Requests : ~IsNew(m, q)
    BY DEF IsNew, Late
  <1>3. FromMessage(m)
    BY <1>1, <1>2 DEF NetCarried
  <1> QED BY <1>3 DEF FromMessage

LEMMA CalmUndisturbs ==
  ASSUME IInv, NetCarried, Calm, NEW r \in Requests
  PROVE  Undisturbed(r)
  <1>1. submits[r] \in Nat /\ UNCHANGED <<picked, votes, submits>>
    BY DEF IInv, Calm
  <1>2. ASSUME NEW slot \in TxSessions(r)'
        PROVE  slot \in TxSessions(r) /\ SameCount(session'[slot], session[slot])
    <2>1. /\ slot \in Live' /\ slot[2] = "request" /\ session'[slot].src = r
          /\ session'[slot].kind \in TxKinds
      BY <1>2 DEF TxSessions, RequestSessions
    <2>2. slot \in Live /\ SameCount(session'[slot], session[slot])
      BY <2>1, KindsFacts DEF Calm
    <2> QED BY <2>1, <2>2 DEF TxSessions, RequestSessions, SameCount
  <1>3. Endorses(r)' \subseteq Endorses(r)
    BY DEF Calm, NoMoreEndorses, Endorses
  <1>4. \A m \in net' : (m.type \in Late /\ m.src = r) =>
          \E n \in net : n.type \in Late /\ n.src = r /\ n.h = m.h /\ n.es = m.es
    BY <1>1, LateUndisturbed
  <1> QED BY <1>1, <1>2, <1>3, <1>4 DEF Undisturbed
-----------------------------------------------------------------------------
(* A call starts its endorsement. *)

\* Nothing stands for a call that is not made yet.
LEMMA NothingYet ==
  ASSUME IInv, KindsFit, NoHistory, NEW r \in Requests, req[r] = NULL
  PROVE  /\ \A m \in net : m.src # r
         /\ \A slot \in Live : session[slot].src # r
         /\ picked[r] = {} /\ votes[r] = {} /\ submits[r] = 0
  <1>1. \A m \in net : m.src # r
    BY DEF KindsFit
  <1>2. \A slot \in Live : session[slot].src # r
    BY DEF IInv, SessionsOwned
  <1> QED BY <1>1, <1>2 DEF NoHistory

\* The message that asks g to endorse r.
Asks(c, r, g) ==
  [type |-> "endorse", kind |-> c.kind, h |-> g, id |-> m_nSessionID, src |-> r, es |-> NULL]

\* What a call that starts its endorsement does: its session, its messages.
LEMMA StartEndorseOpens ==
  ASSUME IInv, NEW r \in Requests, NEW c \in Calls, StartEndorse(r, c)
  PROVE  /\ c.kind \in TxKinds /\ req[r] = NULL
         /\ UNCHANGED <<votes, submits>>
         /\ \E S \in Selections : \E h \in S : \E s \in Session :
              /\ s.kind = c.kind /\ s.src = r /\ s.submit = h /\ s.succ = 0 /\ s.info = Empty
              /\ session' = [session EXCEPT ![<<m_nSessionID, "request">>] = s]
              /\ net' = net \cup {Asks(c, r, g) : g \in S}
              /\ picked' = [picked EXCEPT ![r] = S]
  <1>1. c.kind \in TxKinds /\ req[r] = NULL /\ UNCHANGED <<votes, submits>>
    BY DEF StartEndorse, Call
  <1> DEFINE Opens(S, h, es) ==
               LET s == NewSession(c, r, S, h, es)
               IN  /\ Open(s)
                   /\ net' = net \cup {[Msg("endorse", s, g, m_nSessionID) EXCEPT !.es = NULL] :
                                          g \in S}
                   /\ picked' = [picked EXCEPT ![r] = S]
  <1>2. PICK S \in Selections : \E h \in S : \E es \in InitialEs(r, h) : Opens(S, h, es)
    BY DEF StartEndorse
  <1>3. PICK h \in S : \E es \in InitialEs(r, h) : Opens(S, h, es)
    BY <1>2
  <1>4. PICK es \in InitialEs(r, h) : Opens(S, h, es)
    BY <1>3
  <1>5. S \in SUBSET Handlers /\ h \in Handlers /\ es \in EsSessions \cup {NULL}
    BY DEF Selections, InitialEs, EsSessions, IInv, TypeOK
  <1>6. PICK s : s = NewSession(c, r, S, h, es)
    OBVIOUS
  <1>7. s \in Session
    BY <1>5, <1>6, CallFacts DEF NewSession, Session
  <1>8. s.kind = c.kind /\ s.src = r /\ s.submit = h /\ s.succ = 0 /\ s.info = Empty
    BY <1>6 DEF NewSession
  <1>9. session' = [session EXCEPT ![<<m_nSessionID, "request">>] = s]
    BY <1>4, <1>6, Zenon DEF Open
  <1>10. \A g \in S : [Msg("endorse", s, g, m_nSessionID) EXCEPT !.es = NULL] = Asks(c, r, g)
    BY <1>8 DEF Msg, Asks
  <1>11. net' = net \cup {Asks(c, r, g) : g \in S} /\ picked' = [picked EXCEPT ![r] = S]
    BY <1>4, <1>6, <1>10
  <1> QED BY <1>1, <1>7, <1>8, <1>9, <1>11

LEMMA StartEndorseTallies ==
  ASSUME IInv, HistoryTypeOK, KindsFit, NoHistory, NetCarried,
         NEW r \in Requests, NEW c \in Calls, StartEndorse(r, c), NEW q \in Requests
  PROVE  Tally(q)' \/ Undisturbed(q)
  <1>1. c.kind \in TxKinds /\ req[r] = NULL /\ UNCHANGED <<votes, submits>>
    BY StartEndorseOpens
  <1>2. PICK S \in Selections : \E h \in S : \E s \in Session :
              /\ s.kind = c.kind /\ s.src = r /\ s.submit = h /\ s.succ = 0 /\ s.info = Empty
              /\ session' = [session EXCEPT ![<<m_nSessionID, "request">>] = s]
              /\ net' = net \cup {Asks(c, r, g) : g \in S}
              /\ picked' = [picked EXCEPT ![r] = S]
    BY StartEndorseOpens
  <1>3. PICK h \in S, s \in Session :
              /\ s.kind = c.kind /\ s.src = r /\ s.submit = h /\ s.succ = 0 /\ s.info = Empty
              /\ session' = [session EXCEPT ![<<m_nSessionID, "request">>] = s]
              /\ net' = net \cup {Asks(c, r, g) : g \in S}
              /\ picked' = [picked EXCEPT ![r] = S]
    BY <1>2
  <1>4. PICK new : new = <<m_nSessionID, "request">>
    OBVIOUS
  <1>5. /\ \A m \in net : m.src # r
        /\ \A slot \in Live : session[slot].src # r
        /\ picked[r] = {} /\ votes[r] = {} /\ submits[r] = 0
    BY <1>1, NothingYet
  <1>6. new \in Slots /\ DOMAIN session = Slots
    BY <1>4 DEF IInv, TypeOK, Slots
  <1>7. session'[new] = s /\ \A slot \in Slots \ {new} : session'[slot] = session[slot]
    BY <1>3, <1>4, <1>6
  <1>8. \A g \in S : /\ Asks(c, r, g).src = r /\ Asks(c, r, g).h = g
                     /\ Asks(c, r, g).type = "endorse"
    BY DEF Asks
  <1>9. CASE q # r
    <2>1. votes'[q] = votes[q] /\ picked'[q] = picked[q] /\ submits'[q] = submits[q]
      BY <1>1, <1>3, <1>9 DEF HistoryTypeOK
    <2>2. ASSUME NEW slot \in TxSessions(q)'
          PROVE  slot \in TxSessions(q) /\ session'[slot] = session[slot]
      <3>1. slot \in Slots /\ session'[slot].src = q
        BY <2>2 DEF TxSessions, RequestSessions, Live
      <3>2. session'[slot] = session[slot]
        BY <1>3, <1>7, <1>9, <3>1
      <3> QED BY <2>2, <3>2 DEF TxSessions, RequestSessions, Live
    <2>3. Endorses(q)' \subseteq Endorses(q)
      BY <1>3, <1>8, <1>9 DEF Endorses
    <2>4. \A m \in net' : (m.type \in Late /\ m.src = q) =>
            \E n \in net : n.type \in Late /\ n.src = q /\ n.h = m.h /\ n.es = m.es
      BY <2>1, LateUndisturbed DEF IInv
    <2> QED BY <2>1, <2>2, <2>3, <2>4 DEF Undisturbed, SameCount
  <1>10. CASE q = r
    <2>1. picked'[r] = S /\ votes'[r] = {} /\ submits'[r] = 0
      BY <1>1, <1>3, <1>5 DEF HistoryTypeOK
    <2>2. Voters(r)' = {} /\ Cardinality({}) = 0
      BY <2>1, FS_EmptySet DEF Voters
    <2>3. ASSUME NEW m \in Endorses(r)'
          PROVE  m = Asks(c, r, m.h) /\ m.h \in S
      <3>1. PICK g \in S : m = Asks(c, r, g)
        BY <1>3, <1>5, <2>3 DEF Endorses
      <3> QED BY <1>8, <3>1
    <2>4. Cardinality(S) = EndorseCount /\ 0 < EndorseCount
      BY AdapterAssumption DEF Selections
    <2>5. CountsVotes(new)'
      <3>1. \A m \in Endorses(r)' :
              /\ m = [type |-> "endorse", kind |-> s.kind, h |-> m.h, id |-> new[1],
                      src |-> r, es |-> NULL]
              /\ m.h \in S \ Voters(r)'
        BY <1>3, <1>4, <2>2, <2>3 DEF Asks
      <3> QED BY <1>3, <1>7, <2>1, <2>2, <2>4, <3>1, ZenonT(40) DEF CountsVotes
    <2>6. ASSUME NEW slot \in TxSessions(r)'
          PROVE  slot = new
      <3>1. slot \in Slots /\ session'[slot].src = r /\ session'[slot].kind # "free"
        BY <2>6 DEF TxSessions, RequestSessions, Live
      <3> QED BY <1>5, <1>7, <3>1 DEF Live
    <2>7. \A m \in net' : m.type \in Late => m.src # r
      BY <1>3, <1>5, <1>8 DEF Late
    <2>8. \A slot \in TxSessions(r)' : CountsVotes(slot)'
      BY <2>5, <2>6
    <2> QED BY <1>10, <2>1, <2>7, <2>8 DEF Tally
  <1> QED BY <1>9, <1>10

\* A call whose messages were not all sent has no session.
LEMMA StartEndorseFailsTallies ==
  ASSUME IInv, HistoryTypeOK, KindsFit, NoHistory, NetCarried,
         NEW r \in Requests, NEW c \in Calls, StartEndorseFails(r, c), NEW q \in Requests
  PROVE  Tally(q)' \/ Undisturbed(q)
  <1>1. /\ req[r] = NULL /\ session' = session /\ UNCHANGED <<votes, submits>>
        /\ \E X : picked' = [picked EXCEPT ![r] = X]
    BY Zenon DEF StartEndorseFails, Call
  <1>2. \A m \in net' : m \in net \/ (m.src = r /\ m.type = "endorse")
    <2> DEFINE Sent(S, f, sent) ==
                 net' = net \cup
                   {Msg("endorse", NewSession(c, r, S, f, NULL), g, m_nSessionID) : g \in sent}
    <2>1. PICK S, f, sent : Sent(S, f, sent)
      BY DEF StartEndorseFails
    <2> QED BY <2>1 DEF Msg, NewSession
  <1>3. /\ \A m \in net : m.src # r
        /\ \A slot \in Live : session[slot].src # r
        /\ submits[r] = 0
    BY <1>1, NothingYet
  <1>4. CASE q # r
    <2>1. votes'[q] = votes[q] /\ picked'[q] = picked[q] /\ submits'[q] = submits[q]
      BY <1>1, <1>4 DEF HistoryTypeOK
    <2>2. \A slot \in TxSessions(q)' : slot \in TxSessions(q) /\ session'[slot] = session[slot]
      BY <1>1 DEF TxSessions, RequestSessions, Live
    <2>3. Endorses(q)' \subseteq Endorses(q)
      BY <1>2, <1>4 DEF Endorses
    <2>4. \A m \in net' : (m.type \in Late /\ m.src = q) =>
            \E n \in net : n.type \in Late /\ n.src = q /\ n.h = m.h /\ n.es = m.es
      BY <2>1, LateUndisturbed DEF IInv
    <2> QED BY <2>1, <2>2, <2>3, <2>4 DEF Undisturbed, SameCount
  <1>5. CASE q = r
    <2>1. TxSessions(r)' = {} /\ submits'[r] = 0
      BY <1>1, <1>3 DEF TxSessions, RequestSessions, Live
    <2>2. \A m \in net' : m.type \in Late => m.src # r
      BY <1>2, <1>3 DEF Late
    <2>3. Tally(r)'
      BY <2>1, <2>2 DEF Tally
    <2> QED BY <1>5, <2>3
  <1> QED BY <1>4, <1>5
-----------------------------------------------------------------------------
(* An accepting answer is looked at. *)

\* What the session of an answer becomes: it is deleted, or has counted.
LEMMA KeepFields ==
  ASSUME IInv, NEW m \in net, Found(m), running, NEW s \in Session, s.kind # "free",
         Keep(m, s), m.type = "endorse"
  PROVE  LET t == session'[Slot(m)]
         IN  /\ t.kind = s.kind /\ t.src = s.src /\ t.submit = s.submit /\ t.succ = s.succ
             /\ t.info = s.info /\ t.es = s.es
             /\ \A slot \in Slots \ {Slot(m)} : session'[slot] = session[slot]
             /\ Live' = Live
  <1>1. Slot(m) \in Slots /\ Slot(m) \in Live /\ DOMAIN session = Slots
    BY FoundIsLive DEF IInv, TypeOK
  <1>0. PICK t : /\ t = s \/ \E hs : t = [s EXCEPT !.hs = hs]
                 /\ session' = [session EXCEPT ![Slot(m)] = t]
    BY DEF Keep
  <1>2. /\ t.kind = s.kind /\ t.src = s.src /\ t.submit = s.submit /\ t.succ = s.succ
        /\ t.info = s.info /\ t.es = s.es
    BY <1>0 DEF Session
  <1>3. session' = [session EXCEPT ![Slot(m)] = t]
    BY <1>0
  <1>4. session'[Slot(m)] = t /\ \A slot \in Slots \ {Slot(m)} : session'[slot] = session[slot]
    BY <1>1, <1>3
  <1>5. Live' = Live
    BY <1>1, <1>2, <1>4 DEF Live
  <1> QED BY <1>2, <1>4, <1>5

LEMMA CountedFields ==
  ASSUME NEW s \in Session, NEW m \in Message, NEW c
  PROVE  LET t == Counted(s, m, c)
         IN  /\ t.kind = s.kind /\ t.src = s.src /\ t.submit = s.submit
             /\ t.succ = s.succ + 1
             /\ t.info = IF s.info = Empty THEN c ELSE s.info
             /\ t.es = IF m.h = s.submit THEN [h |-> m.h, src |-> m.src] ELSE s.es
  <1> DEFINE i == IF s.info = Empty THEN c ELSE s.info
             e == IF m.h = s.submit THEN [h |-> m.h, src |-> m.src] ELSE s.es
             t == [s EXCEPT !.info = i, !.succ = s.succ + 1, !.es = e]
  <1>1. Counted(s, m, c) = t
    BY Zenon DEF Counted
  <1> HIDE DEF i, e
  <1>2. /\ t.kind = s.kind /\ t.src = s.src /\ t.submit = s.submit
        /\ t.succ = s.succ + 1 /\ t.info = i /\ t.es = e
    BY DEF Session
  <1> QED BY <1>1, <1>2, Zenon DEF i, e

\* What the answer meets.
LEMMA ReachesSession ==
  ASSUME IInv, NEW m \in net, NEW c \in Contents, Reaches(m, c)
  PROVE  LET a == Slot(m)
             s == session[a]
         IN  /\ running /\ Found(m) /\ m.type = "endorse" /\ m \in Message
             /\ a \in Slots /\ a \in Live /\ a[1] = m.id /\ a[2] = "request"
             /\ s \in Session /\ s.kind = m.kind /\ s.src \in Requests /\ s.kind # "free"
             /\ m.kind \in Kinds /\ m.src \in Requests /\ m.h \in Handlers
             /\ req[s.src] # NULL
             /\ \A slot \in Live : session[slot].src = s.src => slot = a
             /\ votes' = [votes EXCEPT ![s.src] = @ \cup {<<m.h, c, m.src>>}]
  <1>1. /\ running /\ Found(m) /\ m.type = "endorse"
        /\ votes' = [votes EXCEPT ![session[Slot(m)].src] = @ \cup {<<m.h, c, m.src>>}]
    BY DEF Reaches, Arrived
  <1>2. /\ m \in Message /\ Slot(m) \in Slots /\ Slot(m) \in Live /\ Slot(m)[1] = m.id
        /\ Slot(m)[2] = "request" /\ session[Slot(m)] \in Session
        /\ session[Slot(m)].kind = m.kind /\ session[Slot(m)].src \in Requests
        /\ m.kind \in Kinds /\ m.src \in Requests /\ m.h \in Handlers
    BY <1>1, FoundIsLive
  <1>3. req[session[Slot(m)].src] # NULL
    BY <1>2 DEF IInv, SessionsOwned
  <1>4. \A slot \in Live : session[slot].src = session[Slot(m)].src => slot = Slot(m)
    BY <1>2 DEF IInv, OneSession
  <1> QED BY <1>1, <1>2, <1>3, <1>4, KindsFacts

\* Whatever becomes of the answer, only its session changes and only the
\* submissions of that session's call.
LEMMA CountingFrame ==
  ASSUME IInv, NEW m \in net, NEW c \in Contents, CountingAnswer(m, c)
  PROVE  /\ Reaches(m, c) /\ picked' = picked /\ NoMoreEndorses
         /\ \/ submits' = submits
            \/ submits' = [submits EXCEPT ![session[Slot(m)].src] = @ + 1]
         /\ \A slot \in Live' :
              /\ slot \in Live /\ session'[slot].src = session[slot].src
              /\ slot # Slot(m) => session'[slot] = session[slot]
  <1> DEFINE a == Slot(m)
             s == session[a]
             t == Counted(s, m, c)
             Kept == \A slot \in Live' :
                       /\ slot \in Live /\ session'[slot].src = session[slot].src
                       /\ slot # Slot(m) => session'[slot] = session[slot]
  <1>1. Reaches(m, c)
    BY DEF CountingAnswer, EndorseWaits, Submit, SubmitSendFails, EndorseMismatch,
           MismatchSubmits, Accepting
  <1>2. /\ running /\ Found(m) /\ m.type = "endorse" /\ m \in Message /\ a \in Slots
        /\ s \in Session /\ s.kind # "free" /\ a \in Live
    BY <1>1, ReachesSession
  <1>3. t \in Session /\ t.kind = s.kind /\ t.src = s.src
    BY <1>2, CountedKeeps DEF Alike
  <1>4. (Submission(m, t)).type = "submit" /\ (Submission(m, s)).type = "submit"
    BY DEF Submission, Msg
  <1>5. ASSUME Keep(m, t)
        PROVE  Kept
    <2>1. /\ session'[a].src = t.src /\ Live' = Live
          /\ \A slot \in Slots \ {a} : session'[slot] = session[slot]
      <3> HIDE DEF t, a
      <3> QED BY <1>2, <1>3, <1>5, KeepFields DEF a
    <2> HIDE DEF t
    <2> QED BY <1>2, <1>3, <2>1 DEF Live
  <1>6. ASSUME NEW u, NEW code, NEW left, FailEndorse(m, u, code, left),
               \A n \in left : n \in net \/ n.type = "submit"
        PROVE  Kept /\ NoMoreEndorses
    <2>1. session' = Delete({a})
      BY <1>6 DEF FailEndorse, Release
    <2>2. \A n \in net' : n \in left \/ n.type = "cancel"
      BY <1>6 DEF FailEndorse, Cancels, Msg
    <2> QED BY <1>6, <2>1, <2>2, FreedFacts DEF Delete, Live, NoMoreEndorses
  <1>7. \A n \in net \ {m} : n \in net \/ n.type = "submit"
    OBVIOUS
  <1>8. CASE EndorseWaits(m, c)
    <2>1. Keep(m, t) /\ UNCHANGED <<picked, submits>> /\ NoMoreEndorses
      BY <1>8 DEF EndorseWaits, NoMoreEndorses
    <2> HIDE DEF t, Kept
    <2> QED BY <1>1, <1>5, <2>1 DEF Kept
  <1>9. CASE Submit(m, c)
    <2>1. Keep(m, t) /\ picked' = picked /\ NoMoreEndorses
          /\ submits' = [submits EXCEPT ![t.src] = @ + 1]
      BY <1>4, <1>9 DEF Submit, NoMoreEndorses
    <2> HIDE DEF t, Kept
    <2> QED BY <1>1, <1>3, <1>5, <2>1 DEF Kept
  <1>10. CASE SubmitSendFails(m, c)
    <2>1. FailEndorse(m, t, "NETWORK", net \ {m}) /\ UNCHANGED <<picked, submits>>
      BY <1>10 DEF SubmitSendFails
    <2> HIDE DEF t, Kept
    <2> QED BY <1>1, <1>6, <1>7, <2>1 DEF Kept
  <1>11. CASE EndorseMismatch(m, c)
    <2>1. FailEndorse(m, s, "SYSTEM", net \ {m}) /\ UNCHANGED <<picked, submits>>
      BY <1>11 DEF EndorseMismatch
    <2> HIDE DEF s, Kept
    <2> QED BY <1>1, <1>6, <1>7, <2>1 DEF Kept
  <1>12. CASE MismatchSubmits(m, c)
    <2>1. \A n \in (net \ {m}) \cup {Submission(m, s)} : n \in net \/ n.type = "submit"
      BY <1>4
    <2>2. /\ picked' = picked
          /\ \/ /\ FailEndorse(m, s, "SYSTEM", (net \ {m}) \cup {Submission(m, s)})
                /\ submits' = [submits EXCEPT ![s.src] = @ + 1]
             \/ /\ FailEndorse(m, s, "NETWORK", net \ {m})
                /\ submits' = submits
      BY <1>12 DEF MismatchSubmits
    <2> HIDE DEF Kept
    <2> QED BY <1>1, <1>6, <1>7, <2>1, <2>2 DEF Kept
  <1> QED BY <1>8, <1>9, <1>10, <1>11, <1>12 DEF CountingAnswer

\* The tallies of the other calls.
LEMMA CountingUndisturbs ==
  ASSUME IInv, HistoryTypeOK, NetCarried, NEW m \in net, NEW c \in Contents,
         CountingAnswer(m, c), NEW q \in Requests, q # session[Slot(m)].src
  PROVE  Undisturbed(q)
  <1>1. Reaches(m, c)
    BY CountingFrame
  <1>2. session[Slot(m)].src \in Requests
        /\ votes' = [votes EXCEPT ![session[Slot(m)].src] = @ \cup {<<m.h, c, m.src>>}]
    BY <1>1, ReachesSession
  <1>3. votes'[q] = votes[q] /\ picked'[q] = picked[q]
    BY <1>2, CountingFrame DEF HistoryTypeOK
  <1>4. submits'[q] = submits[q] /\ submits[q] \in Nat
    BY <1>2, CountingFrame DEF IInv
  <1>5. ASSUME NEW slot \in TxSessions(q)'
        PROVE  slot \in TxSessions(q) /\ session'[slot] = session[slot]
    <2>1. slot \in Live' /\ session'[slot].src = q
      BY <1>5 DEF TxSessions, RequestSessions
    <2>2. slot \in Live /\ session[slot].src = q /\ session'[slot] = session[slot]
      BY <2>1, CountingFrame
    <2> QED BY <1>5, <2>2 DEF TxSessions, RequestSessions
  <1>6. Endorses(q)' \subseteq Endorses(q)
    BY CountingFrame DEF NoMoreEndorses, Endorses
  <1>7. \A n \in net' : (n.type \in Late /\ n.src = q) =>
          \E k \in net : k.type \in Late /\ k.src = q /\ k.h = n.h /\ k.es = n.es
    BY <1>4, LateUndisturbed
  <1> QED BY <1>3, <1>4, <1>5, <1>6, <1>7 DEF Undisturbed, SameCount
-----------------------------------------------------------------------------
(* The tally of the call whose session was given its own answer. *)

\* An accepting answer adds one voter to one call.
LEMMA VoteAdded ==
  ASSUME HistoryTypeOK, NEW r \in Requests, NEW h \in Handlers, NEW c \in Contents,
         NEW q \in Requests, votes' = [votes EXCEPT ![r] = @ \cup {<<h, c, q>>}]
  PROVE  /\ votes'[r] = votes[r] \cup {<<h, c, q>>}
         /\ Voters(r)' = Voters(r) \cup {h}
         /\ h \notin Voters(r) => Cardinality(Voters(r)') = Cardinality(Voters(r)) + 1
  <1>1. votes'[r] = votes[r] \cup {<<h, c, q>>}
    BY DEF HistoryTypeOK
  <1>2. Voters(r)' = Voters(r) \cup {h}
    <2>1. Voters(r)' = {v[1] : v \in votes[r] \cup {<<h, c, q>>}}
      BY <1>1, Zenon DEF Voters
    <2>2. <<h, c, q>>[1] = h
      OBVIOUS
    <2> QED BY <2>1, <2>2 DEF Voters
  <1> QED BY <1>1, <1>2, FiniteVoters, FS_AddElement

\* An endorsement that is still out is missing in the tally: nothing has been
\* submitted yet.
LEMMA EndorsementMissing ==
  ASSUME IInv, HistoryTypeOK, KindsFit, NEW m \in net, NEW c \in Contents, Reaches(m, c),
         session[Slot(m)].src = m.src, Tally(m.src)
  PROVE  /\ m.kind \in TxKinds /\ CountsVotes(Slot(m)) /\ m \in Endorses(m.src)
         /\ m.h \in picked[m.src] /\ m.h \notin Voters(m.src)
         /\ session[Slot(m)].succ < EndorseCount /\ submits[m.src] = 0
  <1>1. /\ m.type = "endorse" /\ m.src \in Requests /\ session[Slot(m)].kind = m.kind
        /\ Slot(m) \in Live /\ Slot(m)[2] = "request"
    BY ReachesSession
  <1>2. m.kind \in TxKinds
    BY <1>1 DEF KindsFit
  <1>3. CountsVotes(Slot(m)) /\ m \in Endorses(m.src)
    BY <1>1, <1>2 DEF Tally, TxSessions, RequestSessions, Endorses
  <1>4. /\ m.h \in picked[m.src] /\ m.h \notin Voters(m.src)
        /\ Voters(m.src) \subseteq picked[m.src]
        /\ Cardinality(picked[m.src]) = EndorseCount
        /\ session[Slot(m)].succ = Cardinality(Voters(m.src))
        /\ submits[m.src] = IF session[Slot(m)].succ < EndorseCount THEN 0 ELSE 1
    BY <1>3 DEF CountsVotes
  <1>5. Cardinality(Voters(m.src)) < EndorseCount
    <2>1. IsFiniteSet(picked[m.src]) /\ Cardinality(picked[m.src]) \in Nat
          /\ Cardinality(Voters(m.src)) \in Nat
      BY <1>1, FiniteVoters
    <2>2. Voters(m.src) # picked[m.src]
      BY <1>4
    <2> QED BY <1>4, <2>1, <2>2, FS_Subset
  <1> QED BY <1>2, <1>3, <1>4, <1>5

\* As long as nothing is submitted, no late message of the call comes.
LEMMA NothingLate ==
  ASSUME IInv, NetCarried, NEW r \in Requests, submits[r] = 0, submits'[r] = 0
  PROVE  \A m \in net' : m.type \in Late => m.src # r
  <1>1. ASSUME NEW m \in net', m.type \in Late, m.src = r
        PROVE  FALSE
    <2>1. PICK n \in net : n.type \in Late /\ n.src = r
      BY <1>1, LateUndisturbed
    <2> QED BY <2>1 DEF IInv, MessagesFit
  <1> QED BY <1>1

\* A session that ends in an answer has not submitted.
LEMMA EndingTally ==
  ASSUME IInv, HistoryTypeOK, KindsFit, NetCarried, NEW m \in net, NEW c \in Contents,
         SubmitSendFails(m, c) \/ EndorseMismatch(m, c) \/ MismatchSubmits(m, c),
         session[Slot(m)].src = m.src, Tally(m.src)
  PROVE  Tally(m.src)'
  <1>1. CountingAnswer(m, c) /\ Reaches(m, c)
    BY CountingFrame DEF CountingAnswer
  <1>2. submits[m.src] = 0 /\ session[Slot(m)].succ < EndorseCount
    BY <1>1, EndorsementMissing
  <1>3. m.src \in Requests /\ session[Slot(m)] \in Session
    BY <1>1, ReachesSession
  <1>4. ~MismatchSubmits(m, c)
    BY <1>2, <1>3, AdapterAssumption DEF MismatchSubmits, Endorsed, Session
  <1>5. submits' = submits /\ session' = Delete({Slot(m)})
    BY <1>4 DEF SubmitSendFails, EndorseMismatch, FailEndorse, Release
  <1>6. TxSessions(m.src)' = {}
    <2>1. ASSUME NEW slot \in TxSessions(m.src)'
          PROVE  FALSE
      <3>1. slot \in Live' /\ session'[slot].src = m.src
        BY <2>1 DEF TxSessions, RequestSessions
      <3>2. slot \in Live /\ session[slot].src = m.src
        BY <1>1, <3>1, CountingFrame
      <3>3. slot = Slot(m)
        BY <1>1, <3>2, ReachesSession
      <3> QED BY <1>5, <3>1, <3>3, FreedFacts DEF Delete, Live
    <2> QED BY <2>1
  <1>7. \A n \in net' : n.type \in Late => n.src # m.src
    BY <1>2, <1>3, <1>5, NothingLate
  <1> QED BY <1>2, <1>5, <1>6, <1>7 DEF Tally

\* A session that goes on has one more voter.
LEMMA CountedSession ==
  ASSUME IInv, HistoryTypeOK, KindsFit, NEW m \in net, NEW c \in Contents,
         EndorseWaits(m, c) \/ Submit(m, c),
         session[Slot(m)].src = m.src, Tally(m.src)
  PROVE  LET a == Slot(m)
             r == m.src
             t == session'[a]
         IN  /\ TxSessions(r)' = {a} /\ CountsVotes(a)' /\ t.succ \in Nat /\ t.src = r
             /\ t.info \in Contents \cup {Empty}
  <1>1. PICK a, s, t, r : a = Slot(m) /\ s = session[a] /\ t = Counted(s, m, c) /\ r = m.src
    OBVIOUS
  <1>2. CountingAnswer(m, c) /\ Reaches(m, c) /\ Agrees(s, c) /\ Keep(m, t)
    BY <1>1 DEF CountingAnswer, EndorseWaits, Submit, Accepting
  <1>3. /\ running /\ Found(m) /\ m.type = "endorse" /\ m \in Message
        /\ a \in Slots /\ a \in Live /\ a[1] = m.id /\ a[2] = "request"
        /\ s \in Session /\ s.kind = m.kind /\ r \in Requests /\ s.kind # "free" /\ s.src = r
        /\ m.h \in Handlers /\ \A slot \in Live : session[slot].src = r => slot = a
        /\ votes' = [votes EXCEPT ![r] = @ \cup {<<m.h, c, r>>}]
    BY <1>1, <1>2, ReachesSession
  <1>4. /\ m.kind \in TxKinds /\ CountsVotes(a) /\ m \in Endorses(r)
        /\ m.h \in picked[r] /\ m.h \notin Voters(r) /\ s.succ < EndorseCount
        /\ submits[r] = 0
    BY <1>1, <1>2, EndorsementMissing
  <1>5. /\ t \in Session /\ t.kind = s.kind /\ t.src = s.src /\ t.submit = s.submit
        /\ t.succ = s.succ + 1
        /\ t.info = IF s.info = Empty THEN c ELSE s.info
        /\ t.es = IF m.h = s.submit THEN [h |-> m.h, src |-> r] ELSE s.es
    BY <1>1, <1>3, CountedFields, CountedKeeps
  <1>6. PICK u : u = session'[a]
    OBVIOUS
  <1>7. /\ u.kind = s.kind /\ u.src = r /\ u.submit = s.submit /\ u.succ = s.succ + 1
        /\ u.info = t.info /\ u.es = t.es /\ Live' = Live
        /\ \A slot \in Slots \ {a} : session'[slot] = session[slot]
    BY <1>1, <1>2, <1>3, <1>5, <1>6, KeepFields
  <1>8. TxSessions(r)' = {a}
    <2>1. a \in TxSessions(r)'
      BY <1>3, <1>4, <1>6, <1>7 DEF TxSessions, RequestSessions
    <2>2. ASSUME NEW slot \in TxSessions(r)'
          PROVE  slot = a
      BY <1>2, <1>3, <2>2, CountingFrame DEF TxSessions, RequestSessions
    <2> QED BY <2>1, <2>2
  <1>9. /\ votes'[r] = votes[r] \cup {<<m.h, c, r>>}
        /\ Voters(r)' = Voters(r) \cup {m.h}
        /\ Cardinality(Voters(r)') = Cardinality(Voters(r)) + 1
    <2>1. /\ r \in Requests /\ m.h \in Handlers /\ m.h \notin Voters(r)
          /\ votes' = [votes EXCEPT ![r] = @ \cup {<<m.h, c, r>>}]
      BY <1>3, <1>4
    <2>2. votes'[r] = votes[r] \cup {<<m.h, c, r>>}
      BY <2>1, HistoryTypeOK DEF HistoryTypeOK
    <2>3. Voters(r)' = Voters(r) \cup {m.h}
      BY <2>1, VoteAdded
    <2>4. Cardinality(Voters(r)') = Cardinality(Voters(r)) + 1
      BY <2>1, VoteAdded
    <2> QED BY <2>2, <2>3, <2>4
  <1>10. /\ s.submit \in picked[r] \cup {NULL} /\ NULL \notin picked[r]
         /\ Cardinality(picked[r]) = EndorseCount
         /\ Voters(r) \subseteq picked[r]
         /\ s.succ = Cardinality(Voters(r))
         /\ s.submit \in Voters(r) => s.es = [h |-> s.submit, src |-> r]
         /\ \A v \in votes[r] : v[2] \in {s.info, Empty}
         /\ \A n \in Endorses(r) :
              /\ n = [type |-> "endorse", kind |-> s.kind, h |-> n.h, id |-> a[1],
                      src |-> r, es |-> NULL]
              /\ n.h \in picked[r] \ Voters(r)
    <2>1. NULL \notin picked[r]
      BY <1>3, FiniteVoters, AdapterAssumption
    <2> QED BY <1>1, <1>3, <1>4, <2>1 DEF CountsVotes
  <1>11. picked' = picked
    BY <1>2, CountingFrame
  <1>12. \A v \in votes'[r] : v[2] \in {u.info, Empty}
    BY <1>2, <1>5, <1>7, <1>9, <1>10 DEF Agrees
  <1>13. u.submit \in Voters(r)' => u.es = [h |-> u.submit, src |-> r]
    BY <1>4, <1>5, <1>7, <1>9, <1>10
  <1>14. ASSUME NEW n \in Endorses(r)'
         PROVE  /\ n = [type |-> "endorse", kind |-> u.kind, h |-> n.h, id |-> a[1],
                        src |-> r, es |-> NULL]
                /\ n.h \in picked'[r] \ Voters(r)'
    <2>1. n \in Endorses(r)
      BY <1>2, <1>14, CountingFrame DEF NoMoreEndorses, Endorses
    <2>2. n # m
      <3>1. (Submission(m, t)).type = "submit"
        BY DEF Submission, Msg
      <3> QED BY <1>1, <1>3, <1>14, <3>1 DEF EndorseWaits, Submit, Endorses
    <2>3. n.h # m.h
      BY <1>4, <1>10, <2>1, <2>2
    <2> QED BY <1>7, <1>9, <1>10, <1>11, <2>1, <2>3
  <1>15. submits'[r] = IF u.succ < EndorseCount THEN 0 ELSE 1
    <2>1. s.succ + 1 \in Nat /\ s.succ \in Nat /\ EndorseCount \in Nat
      BY <1>3, AdapterAssumption DEF Session
    <2>2. CASE EndorseWaits(m, c)
      BY <1>1, <1>4, <1>5, <1>7, <2>1, <2>2 DEF EndorseWaits, Endorsed
    <2>3. CASE Submit(m, c)
      <3>1. submits' = [submits EXCEPT ![r] = @ + 1] /\ Endorsed(t)
        BY <1>1, <1>3, <1>5, <2>3 DEF Submit
      <3>2. submits'[r] = 1
        BY <1>3, <1>4, <3>1 DEF IInv
      <3> QED BY <1>5, <1>7, <2>1, <3>1, <3>2 DEF Endorsed
    <2> QED BY <2>2, <2>3
  <1>16. CountsVotes(a)'
    <2>1. u.succ = Cardinality(Voters(r)')
      BY <1>7, <1>9, <1>10
    <2>2. u.submit \in picked'[r] \cup {NULL} /\ Cardinality(picked'[r]) = EndorseCount
          /\ Voters(r)' \subseteq picked'[r]
      BY <1>4, <1>7, <1>9, <1>10, <1>11
    <2> QED BY <1>6, <1>7, <1>12, <1>13, <1>14, <1>15, <2>1, <2>2 DEF CountsVotes
  <1>17. u.succ \in Nat /\ u.info \in Contents \cup {Empty}
    BY <1>3, <1>5, <1>7 DEF Session
  <1> QED BY <1>1, <1>6, <1>7, <1>8, <1>16, <1>17

\* What is submitted is endorsed.
LEMMA CountedTally ==
  ASSUME IInv, HistoryTypeOK, HistoryTypeOK', KindsFit, NetCarried,
         NEW m \in net, NEW c \in Contents, EndorseWaits(m, c) \/ Submit(m, c),
         session[Slot(m)].src = m.src, Tally(m.src)
  PROVE  Tally(m.src)'
  <1>1. PICK a, r, u : a = Slot(m) /\ r = m.src /\ u = session'[a]
    OBVIOUS
  <1>2. CountingAnswer(m, c) /\ Reaches(m, c)
    BY CountingFrame DEF CountingAnswer
  <1>3. /\ TxSessions(r)' = {a} /\ CountsVotes(a)' /\ u.succ \in Nat /\ u.src = r
        /\ u.info \in Contents \cup {Empty}
    BY <1>1, CountedSession
  <1>4. /\ u.submit \in picked'[r] \cup {NULL}
        /\ Cardinality(picked'[r]) = EndorseCount
        /\ Voters(r)' \subseteq picked'[r]
        /\ u.succ = Cardinality(Voters(r)')
        /\ u.submit \in Voters(r)' => u.es = [h |-> u.submit, src |-> r]
        /\ \A v \in votes'[r] : v[2] \in {u.info, Empty}
        /\ submits'[r] = IF u.succ < EndorseCount THEN 0 ELSE 1
    BY <1>1, <1>3 DEF CountsVotes
  <1>5. r \in Requests /\ submits[r] = 0
    BY <1>1, <1>2, ReachesSession, EndorsementMissing
  <1>6. ASSUME submits'[r] = 1
        PROVE  Voters(r)' = picked'[r] /\ FullyEndorsed(r)'
    <2>1. /\ picked'[r] \in SUBSET Handlers /\ IsFiniteSet(picked'[r])
          /\ Cardinality(picked'[r]) \in Nat
      <3>1. picked'[r] \in SUBSET Handlers
        BY <1>5 DEF HistoryTypeOK
      <3> QED BY <3>1, AdapterAssumption, FS_Subset, FS_CardinalityType
    <2>2. ~(u.succ < EndorseCount) /\ EndorseCount \in Nat
      BY <1>4, <1>6, AdapterAssumption
    <2>3. Cardinality(Voters(r)') <= Cardinality(picked'[r])
      BY <1>4, <2>1, FS_Subset
    <2>4. Cardinality(Voters(r)') = Cardinality(picked'[r])
      BY <1>3, <1>4, <2>1, <2>2, <2>3
    <2>5. Voters(r)' = picked'[r]
      BY <1>4, <2>1, <2>4, FS_Subset
    <2> QED BY <1>3, <1>4, <2>5 DEF FullyEndorsed
  <1>7. ASSUME NEW n \in net', n.type \in Late, n.src = r
        PROVE  n.es = [h |-> n.h, src |-> r] /\ n.h \in picked'[r]
    <2>1. n \notin net
      BY <1>5, <1>7 DEF IInv, MessagesFit
    <2> DEFINE t == Counted(session[a], m, c)
    <2>2. Submit(m, c) /\ n = Submission(m, t)
      BY <1>1, <2>1 DEF EndorseWaits, Submit
    <2>3. running /\ Found(m) /\ m.type = "endorse" /\ t \in Session /\ t.kind # "free"
          /\ Keep(m, t)
      <3>1. /\ running /\ Found(m) /\ m.type = "endorse" /\ m \in Message
            /\ session[a] \in Session /\ session[a].kind # "free"
        BY <1>1, <1>2, ReachesSession
      <3> QED BY <1>1, <2>2, <3>1, CountedKeeps DEF Alike, Submit
    <2>4. u.submit = t.submit /\ u.es = t.es /\ u.submit # NULL
      <3>1. t.submit # NULL
        BY <1>1, <2>2 DEF Submit
      <3> HIDE DEF t
      <3> QED BY <1>1, <2>3, <3>1, KeepFields
    <2>5. n.h = u.submit /\ n.es = u.es
      <3> HIDE DEF t
      <3> QED BY <2>2, <2>4 DEF Submission, Msg
    <2>6. submits'[r] = 1
      <3>1. submits' = [submits EXCEPT ![t.src] = @ + 1] /\ t.src = r
        BY <1>1, <1>2, <2>2, ReachesSession, CountedKeeps DEF Submit, Alike
      <3> HIDE DEF t
      <3> QED BY <1>5, <3>1 DEF IInv
    <2> QED BY <1>4, <1>6, <2>4, <2>5, <2>6
  <1>8. submits'[r] \in {0, 1}
    BY <1>4
  <1> QED BY <1>1, <1>3, <1>6, <1>7, <1>8 DEF Tally

\* Of every call, a looked-at answer mixes the votes, or the tally is right.
LEMMA CountingTallies ==
  ASSUME IInv, HistoryTypeOK, HistoryTypeOK', KindsFit, NetCarried,
         NEW m \in net, NEW c \in Contents, CountingAnswer(m, c),
         NEW q \in Requests, ~Mixed(q)', Tally(q)
  PROVE  Tally(q)'
  <1>1. CASE q # session[Slot(m)].src
    BY <1>1, CountingUndisturbs, UndisturbedTallies
  <1>2. CASE q = session[Slot(m)].src
    <2>1. Reaches(m, c)
      BY CountingFrame
    <2>2. votes'[q] = votes[q] \cup {<<m.h, c, m.src>>}
      BY <1>2, <2>1, ReachesSession DEF HistoryTypeOK
    <2>3. m.src = q
      <3>1. <<m.h, c, m.src>>[3] = m.src
        OBVIOUS
      <3> QED BY <2>2, <3>1 DEF Mixed
    <2> QED BY <1>2, <2>3, CountedTally, EndingTally DEF CountingAnswer
  <1> QED BY <1>1, <1>2
-----------------------------------------------------------------------------
(* The parts of EndorseInv. *)

LEMMA TypesKept ==
  ASSUME IInv, HistoryTypeOK, Next
  PROVE  HistoryTypeOK'
  <1>1. CASE Calm
    BY <1>1 DEF Calm, HistoryTypeOK
  <1>2. ASSUME NEW r \in Requests, NEW c \in Calls,
               StartEndorse(r, c) \/ StartEndorseFails(r, c)
        PROVE  HistoryTypeOK'
    <2>1. votes' = votes
      BY <1>2 DEF StartEndorse, StartEndorseFails
    <2>2. \E X \in SUBSET Handlers : picked' = [picked EXCEPT ![r] = X]
      <3>1. \A S \in Selections : S \in SUBSET Handlers
        BY DEF Selections, IInv, TypeOK
      <3>2. \E S \in Selections : \E X \in SUBSET S : picked' = [picked EXCEPT ![r] = X]
        BY <1>2 DEF StartEndorse, StartEndorseFails
      <3> QED BY <3>1, <3>2
    <2> QED BY <2>1, <2>2 DEF HistoryTypeOK
  <1>3. ASSUME NEW m \in net, NEW c \in Contents, CountingAnswer(m, c)
        PROVE  HistoryTypeOK'
    <2>1. Reaches(m, c) /\ picked' = picked
      BY <1>3, CountingFrame
    <2>2. /\ session[Slot(m)].src \in Requests /\ m.src \in Requests /\ m.h \in Handlers
          /\ votes' = [votes EXCEPT ![session[Slot(m)].src] = @ \cup {<<m.h, c, m.src>>}]
      BY <2>1, ReachesSession
    <2>3. <<m.h, c, m.src>> \in Handlers \X Contents \X Requests
      BY <2>2
    <2> QED BY <2>1, <2>2, <2>3 DEF HistoryTypeOK
  <1> QED BY <1>1, <1>2, <1>3, NextTallies

LEMMA KindsKept ==
  ASSUME IInv, KindsFit, ReqKept, NetCarried
  PROVE  KindsFit'
  <1> SUFFICES ASSUME NEW m \in net'
               PROVE  req'[m.src] # NULL /\ (m.type = "endorse" => m.kind \in TxKinds)
    BY DEF KindsFit
  <1>1. m.src \in Requests
    BY DEF NetCarried, Message
  <1>2. CASE FromMessage(m)
    BY <1>1, <1>2 DEF FromMessage, KindsFit, ReqKept
  <1>3. CASE FromSession(m)
    <2>1. req[m.src] # NULL
      BY <1>3 DEF FromSession, IInv, SessionsOwned
    <2> QED BY <1>1, <1>3, <2>1 DEF FromSession, ReqKept
  <1>4. ASSUME NEW r \in Requests, IsNew(m, r), req'[r] # NULL
        PROVE  req'[m.src] # NULL /\ (m.type = "endorse" => m.kind \in TxKinds)
    BY <1>4 DEF IsNew
  <1> QED BY <1>2, <1>3, <1>4 DEF NetCarried

LEMMA HistoryKept ==
  ASSUME IInv, HistoryTypeOK, NoHistory, ReqKept, Next
  PROVE  NoHistory'
  <1> SUFFICES ASSUME NEW q \in Requests, req'[q] = NULL
               PROVE  picked'[q] = {} /\ votes'[q] = {} /\ submits'[q] = 0
    BY DEF NoHistory
  <1>1. req[q] = NULL /\ picked[q] = {} /\ votes[q] = {} /\ submits[q] = 0
    BY DEF NoHistory, ReqKept
  <1>2. CASE Calm
    BY <1>1, <1>2 DEF Calm
  <1>3. ASSUME NEW r \in Requests, NEW c \in Calls,
               StartEndorse(r, c) \/ StartEndorseFails(r, c)
        PROVE  picked'[q] = {} /\ votes'[q] = {} /\ submits'[q] = 0
    <2>1. req' = [req EXCEPT ![r] = c] /\ UNCHANGED <<votes, submits>>
          /\ \E X : picked' = [picked EXCEPT ![r] = X]
      BY <1>3 DEF StartEndorse, StartEndorseFails, Call
    <2>2. q # r
      BY <2>1, CallFacts DEF IInv, TypeOK
    <2> QED BY <1>1, <2>1, <2>2 DEF HistoryTypeOK
  <1>4. ASSUME NEW m \in net, NEW c \in Contents, CountingAnswer(m, c)
        PROVE  picked'[q] = {} /\ votes'[q] = {} /\ submits'[q] = 0
    <2>1. Reaches(m, c) /\ picked' = picked
          /\ (submits' = submits \/ submits' = [submits EXCEPT ![session[Slot(m)].src] = @ + 1])
      BY <1>4, CountingFrame
    <2>2. q # session[Slot(m)].src
          /\ votes' = [votes EXCEPT ![session[Slot(m)].src] = @ \cup {<<m.h, c, m.src>>}]
      BY <1>1, <2>1, ReachesSession
    <2> QED BY <1>1, <2>1, <2>2 DEF HistoryTypeOK, IInv
  <1> QED BY <1>2, <1>3, <1>4, NextTallies

\* Answers are added to what a call was given, and none taken away.
LEMMA VotesGrow ==
  ASSUME IInv, HistoryTypeOK, Next, NEW q \in Requests
  PROVE  votes[q] \subseteq votes'[q]
  <1>1. CASE votes' = votes
    BY <1>1
  <1>2. ASSUME NEW m \in net, NEW c \in Contents, CountingAnswer(m, c)
        PROVE  votes[q] \subseteq votes'[q]
    <2>1. Reaches(m, c)
      BY <1>2, CountingFrame
    <2>2. votes' = [votes EXCEPT ![session[Slot(m)].src] = @ \cup {<<m.h, c, m.src>>}]
      BY <2>1, ReachesSession
    <2> QED BY <2>2 DEF HistoryTypeOK
  <1> QED BY <1>1, <1>2, NextTallies DEF Calm, StartEndorse, StartEndorseFails

LEMMA TalliesKept ==
  ASSUME IInv, HistoryTypeOK, HistoryTypeOK', KindsFit, NoHistory, Tallied, NetCarried, Next
  PROVE  Tallied'
  <1> SUFFICES ASSUME NEW q \in Requests, ~Mixed(q)'
               PROVE  Tally(q)'
    BY DEF Tallied
  <1>1. Tally(q)
    BY VotesGrow DEF Mixed, Tallied
  <1>2. CASE Calm
    BY <1>1, <1>2, CalmUndisturbs, UndisturbedTallies
  <1>3. ASSUME NEW r \in Requests, NEW c \in Calls,
               StartEndorse(r, c) \/ StartEndorseFails(r, c)
        PROVE  Tally(q)'
    <2>1. Tally(q)' \/ Undisturbed(q)
      BY <1>3, StartEndorseTallies, StartEndorseFailsTallies
    <2> QED BY <1>1, <2>1, UndisturbedTallies
  <1>4. ASSUME NEW m \in net, NEW c \in Contents, CountingAnswer(m, c)
        PROVE  Tally(q)'
    BY <1>1, <1>4, CountingTallies
  <1> QED BY <1>2, <1>3, <1>4, NextTallies

LEMMA NamesKept ==
  ASSUME AcceptedNamed, NetCarried, accepted \subseteq accepted'
  PROVE  AcceptedNamed'
  <1> SUFFICES ASSUME NEW m \in net', m.type \in {"accepted", "notify"}
               PROVE  m.es # NULL /\ m.es.src \in accepted'
    BY DEF AcceptedNamed
  <1>1. ~FromSession(m) /\ \A r \in Requests : ~IsNew(m, r)
    BY DEF FromSession, IsNew
  <1>2. FromMessage(m)
    BY <1>1 DEF NetCarried
  <1>3. PICK n \in net : /\ m.type \in Late => n.es = m.es
                         /\ n.type = m.type \/ (m.es # NULL /\ m.es.src \in accepted')
    BY <1>2 DEF FromMessage
  <1> QED BY <1>3 DEF AcceptedNamed, Late
-----------------------------------------------------------------------------
(* OK is said of what was accepted. *)

\* The answer to a submission that is taken for a call's session is its own,
\* and names the call's transaction.
LEMMA AcceptedIsOwn ==
  ASSUME IInv, Tallied, AcceptedNamed, running, NEW m \in net, m.type = "accepted", Found(m),
         ~Mixed(session[Slot(m)].src)
  PROVE  session[Slot(m)].src \in accepted
  <1>1. /\ Slot(m) \in Live /\ Slot(m)[1] = m.id /\ m.src \in Requests
        /\ session[Slot(m)].src \in Requests
    BY FoundIsLive
  <1>2. ~Stale(m.src)
    BY DEF IInv, MessagesFit, Late, Stale
  <1>3. session[Slot(m)].src = m.src
    BY <1>1, <1>2 DEF IInv, OwnMessages
  <1>4. m.es = [h |-> m.h, src |-> m.src]
    BY <1>1, <1>3 DEF Tallied, Tally, Late
  <1>5. m.es.src \in accepted
    BY DEF AcceptedNamed
  <1>6. m.es.src = m.src
    BY <1>4
  <1> QED BY <1>3, <1>5, <1>6

LEMMA OkKept ==
  ASSUME IInv, HistoryTypeOK, Tallied, AcceptedNamed, OkTruthful, ReqKept,
         accepted \subseteq accepted', Next
  PROVE  OkTruthful'
  <1> SUFFICES ASSUME NEW r \in Requests, rsp'[r] = <<"OK">>, req'[r].kind \in TxKinds,
                      ~Mixed(r)'
               PROVE  r \in accepted'
    BY DEF OkTruthful
  <1> USE DEF history, calls
  <1>1. ~Mixed(r)
    BY VotesGrow DEF Mixed
  <1>2. CASE rsp'[r] = rsp[r]
    <2>1. rsp[r] # <<>>
      BY <1>2
    <2>2. req'[r] = req[r]
      BY <2>1 DEF IInv, UnsentUntouched, ReqKept
    <2> QED BY <1>1, <1>2, <2>2 DEF OkTruthful
  <1>3. CASE rsp'[r] # rsp[r]
    <2>1. Shape
      BY NextShape
    <2>2. rsp[r] \in Seq(Codes)
      BY DEF IInv, TypeOK
    <2>3. ASSUME NEW code, rsp'[r] = Append(rsp[r], code)
          PROVE  code = "OK"
      BY <2>2, <2>3
    <2>4. ASSUME NEW slot \in Live, NEW code,
                 rsp' = [rsp EXCEPT ![session[slot].src] = Append(@, code)]
          PROVE  session[slot].src = r /\ code = "OK"
      <3>1. session[slot].src = r
        BY <1>3, <2>4 DEF IInv, TypeOK
      <3>2. rsp'[r] = Append(rsp[r], code)
        BY <2>4, <3>1 DEF IInv, TypeOK
      <3> QED BY <2>3, <3>1, <3>2
    <2>5. CASE Releasing
      <3>1. PICK slot \in Live, code \in Codes :
              /\ Tell(slot, code)
              /\ slot[2] = "request" /\ code = "OK" => session[slot].kind \in QueryKinds
        BY <2>5 DEF Releasing
      <3>2. slot[2] = "request" /\ rsp' = [rsp EXCEPT ![session[slot].src] = Append(@, code)]
        BY <1>3, <3>1 DEF Tell, OnResponse
      <3>3. session[slot].src = r /\ session[slot].kind \in QueryKinds
        BY <2>4, <3>1, <3>2
      <3>4. req[r] # NULL /\ req[r].kind \in QueryKinds
        BY <3>3 DEF IInv, SessionsOwned
      <3> QED BY <3>4, KindsFacts DEF ReqKept
    <2>6. CASE Promoting
      <3>1. PICK m \in net : TransactionAccepted(m) /\ Slot(m) \in Live
        BY <2>6 DEF Promoting
      <3>2. /\ running /\ m.type = "accepted" /\ Found(m)
            /\ rsp' = [rsp EXCEPT ![session[Slot(m)].src] = Append(@, "OK")]
        BY <3>1 DEF TransactionAccepted, Arrived, OnResponse
      <3>3. session[Slot(m)].src = r
        BY <2>4, <3>1, <3>2
      <3> QED BY <1>1, <3>2, <3>3, AcceptedIsOwn
    <2>7. CASE Losing
      <3>1. PICK h \in Handlers : rsp' = LostRsp(arrSession[h])
        BY <2>7, LosingSteps, IInvParts DEF Losing
      <3>2. rsp'[r] = Append(rsp[r], "NETWORK")
        BY <1>3, <3>1 DEF LostRsp
      <3> QED BY <2>3, <3>2
    <2>8. CASE Refusing \/ Crashing \/ Undefining \/ Opening \/ Counting \/ Unmapping \/ Quiet \/ OnExit
      BY <1>3, <2>8 DEF Refusing, Crashing, Undefining, Opening, Called, Counting, Unmapping,
            TransactionRefused, Quiet, OnExit
    <2> QED BY <2>1, <2>5, <2>6, <2>7, <2>8 DEF Shape
  <1> QED BY <1>2, <1>3
-----------------------------------------------------------------------------
LEMMA InitEndorseInv == Init => EndorseInv
  <1> SUFFICES ASSUME Init PROVE EndorseInv
    OBVIOUS
  <1>1. IInv /\ Live = {} /\ net = {}
    BY InitIInv, FreedFacts DEF Init, Live
  <1>2. HistoryTypeOK /\ NoHistory /\ KindsFit /\ AcceptedNamed
    BY <1>1 DEF Init, HistoryTypeOK, NoHistory, KindsFit, AcceptedNamed
  <1>3. Tallied
    <2>1. \A r \in Requests : Unsubmitted(r)
      BY <1>1 DEF Init, Unsubmitted, TxSessions, RequestSessions
    <2> QED BY <2>1, UnsubmittedTallies DEF Tallied
  <1>4. OkTruthful
    BY DEF Init, OkTruthful
  <1> QED BY <1>1, <1>2, <1>3, <1>4 DEF EndorseInv

LEMMA NextEndorseInv == EndorseInv /\ [Next]_vars => EndorseInv'
  <1> SUFFICES ASSUME EndorseInv, [Next]_vars PROVE EndorseInv'
    OBVIOUS
  <1>1. IInv'
    BY NextIInv DEF EndorseInv
  <1>2. CASE UNCHANGED vars
    <2> USE <1>2 DEF vars, Live
    <2>1. HistoryTypeOK' /\ KindsFit' /\ NoHistory' /\ AcceptedNamed'
      BY DEF EndorseInv, HistoryTypeOK, KindsFit, NoHistory, AcceptedNamed
    <2>2. OkTruthful'
      BY DEF EndorseInv, OkTruthful, Mixed
    <2>3. ASSUME NEW r \in Requests, ~Mixed(r)'
          PROVE  Tally(r)'
      <3>1. Tally(r)
        BY <2>3 DEF EndorseInv, Tallied, Mixed
      <3>2. Undisturbed(r)
        BY DEF Undisturbed, SameCount, TxSessions, RequestSessions, Endorses
      <3> QED BY <2>3, <3>1, <3>2, UndisturbedTallies DEF EndorseInv
    <2> QED BY <1>1, <2>1, <2>2, <2>3 DEF EndorseInv, Tallied
  <1>3. CASE Next
    <2>1. ReqKept /\ NetCarried /\ accepted \subseteq accepted'
      BY <1>3, NextShape, ShapeCarries DEF EndorseInv
    <2>2. HistoryTypeOK' /\ KindsFit' /\ NoHistory'
      BY <1>3, <2>1, TypesKept, KindsKept, HistoryKept DEF EndorseInv
    <2>3. Tallied' /\ AcceptedNamed' /\ OkTruthful'
      BY <1>3, <2>1, <2>2, TalliesKept, NamesKept, OkKept DEF EndorseInv
    <2> QED BY <1>1, <2>2, <2>3 DEF EndorseInv
  <1> QED BY <1>2, <1>3

\* EndorseInv holds at all times: the session of a call that was given no
\* other call's answer counts exactly the endorsers that have accepted.
THEOREM TalliesInvariant == Spec => []EndorseInv
  BY InitEndorseInv, NextEndorseInv, PTL DEF Spec

LEMMA EndorseInvSubmits ==
  ASSUME EndorseInv
  PROVE  SubmitFullyEndorsed
  <1> SUFFICES ASSUME NEW r \in Requests, ~Mixed(r)
               PROVE  /\ submits[r] <= 1
                      /\ submits[r] = 1 => /\ Voters(r) = picked[r]
                                           /\ Cardinality(picked[r]) = EndorseCount
                                           /\ Cardinality({v[2] : v \in votes[r]} \ {Empty}) <= 1
                      /\ \A m \in net : (m.type = "submit" /\ m.src = r) =>
                                           m.es = [h |-> m.h, src |-> r] /\ m.h \in picked[r]
    BY DEF SubmitFullyEndorsed, Voters
  <1>1. Tally(r)
    BY DEF EndorseInv, Tallied
  <1>2. submits[r] \in {0, 1}
    BY <1>1 DEF Tally
  <1>3. \A m \in net : (m.type = "submit" /\ m.src = r) =>
          m.es = [h |-> m.h, src |-> r] /\ m.h \in picked[r]
    BY <1>1 DEF Tally, Late
  <1>4. ASSUME submits[r] = 1
        PROVE  /\ Voters(r) = picked[r]
               /\ Cardinality(picked[r]) = EndorseCount
               /\ Cardinality({v[2] : v \in votes[r]} \ {Empty}) <= 1
    <2>1. FullyEndorsed(r)
      BY <1>1, <1>4 DEF Tally
    <2>2. PICK c : \A v \in votes[r] : v[2] \in {c, Empty}
      BY <2>1 DEF FullyEndorsed
    <2> DEFINE X == {v[2] : v \in votes[r]} \ {Empty}
    <2>3. X \subseteq {c}
      BY <2>2
    <2> HIDE DEF X
    <2>4. IsFiniteSet({c}) /\ Cardinality({c}) = 1
      BY FS_Singleton
    <2>5. Cardinality(X) <= Cardinality({c})
      BY <2>3, <2>4, FS_Subset
    <2> QED BY <2>1, <2>4, <2>5 DEF FullyEndorsed, X
  <1> QED BY <1>2, <1>3, <1>4

\* A transaction is submitted at most once, with the agreeing endorsements of
\* all EndorseCount endorsers asked, to one of them, naming the transaction
\* which that endorser opened, unless an answer meant for another call was
\* counted.
THEOREM SubmitsFullyEndorsed == Spec => []SubmitFullyEndorsed
  <1>1. EndorseInv => SubmitFullyEndorsed
    BY EndorseInvSubmits
  <1> QED BY <1>1, TalliesInvariant, PTL

\* OK is said only of a transaction that an endorser has accepted, with the
\* same exception.
THEOREM OksTruthful == Spec => []OkTruthful
  <1>1. EndorseInv => OkTruthful
    BY DEF EndorseInv
  <1> QED BY <1>1, TalliesInvariant, PTL
=============================================================================
