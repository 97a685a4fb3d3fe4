------------------------------ MODULE AdapterBase ------------------------------
(***************************************************************************)
(* CVbhAdapterBase: the service under the adapter plugin. Like             *)
(* CVbhCryptClientService it collects the endorsements of several peers    *)
(* and submits the transaction to one chosen endorser, but it is called    *)
(* directly (a call returns a code, an accepted call is answered by a      *)
(* callback), it keeps a second session for requests that wait for the     *)
(* result of their transaction, it hangs a session on every connection it  *)
(* was sent over, and it tells the chosen endorser to cancel a transaction *)
(* whose endorsement failed.                                               *)
(*                                                                         *)
(* The three transactions (register a user, create an information,         *)
(* propose) have the same handlers, and so have the two queries; where one *)
(* of them differs, the definition says so. A session is called by its     *)
(* slot: its m_nCltSessionID and whether it is the session of the request  *)
(* or the one that waits for the notification.                             *)
(*                                                                         *)
(* What is not in the repository is taken for as little as the code lets   *)
(* it be. A failing SendHtsMsg may have done nothing, which is how this    *)
(* class uses it, or it may have run OnNetworkError inside the call, which *)
(* is how the crypt client uses it (it drops its session pointer           *)
(* afterwards): then this class goes on with a session it has deleted.     *)
(* CDscTypeArray finds what it is to erase by the one m_nIndex a session   *)
(* has for all its arrays, so an array may lose another entry than the one *)
(* that was meant.                                                         *)
(*                                                                         *)
(* When the program uses memory it has freed, the service is "undefined":  *)
(* the model ends there, and nothing is said of what the program does      *)
(* then. NULL in an array stands for a pointer to a deleted session, and   *)
(* in a session for a pointer to a deleted connection.                     *)
(***************************************************************************)
EXTENDS Integers, FiniteSets, Sequences

CONSTANTS
  Peers, Handlers, PeerOf, EndorseCount,
  TxKinds,       \* the kinds of transactions
  QueryKinds,    \* the kinds of queries
  Calls,         \* what can be called for, and whether with bWaitNotify
  Requests,      \* the calls of the application, each made once
  Contents,      \* what an endorser's accepting answer may contain
  Empty,         \* the content of length zero
  MaxSessionID,  \* the largest value of the unsigned m_nSessionID
  StartID,       \* m_nSessionID when the first of Requests arrives
  NULL

SessionIDs == 0 .. MaxSessionID
Slots == SessionIDs \X {"request", "notify"}

Kinds == TxKinds \cup QueryKinds

ASSUME AdapterAssumption ==
  /\ TxKinds \subseteq {"regist", "info", "propose"}
  /\ QueryKinds \subseteq {"queryUser", "queryTrans"}
  /\ Calls \subseteq [kind : TxKinds, wait : BOOLEAN] \cup [kind : QueryKinds, wait : {FALSE}]
  /\ IsFiniteSet(Handlers)
  /\ PeerOf \in [Handlers -> Peers]
  /\ EndorseCount \in Nat \ {0}
  /\ MaxSessionID \in Nat
  /\ StartID \in 0 .. MaxSessionID
  /\ NULL \notin Requests \cup Handlers \cup Kinds \cup Calls \cup Slots
  /\ NULL \notin {"OK", "NETWORK", "DECODE"}

\* Bound: fewer requests than ids, so that no id comes round again while
\* something of its earlier use is still under way.
ASSUME AdapterIdBound == IsFiniteSet(Requests) /\ Cardinality(Requests) <= MaxSessionID

VARIABLES
  conn,          \* the handlers in m_vbhPeerConnSumInfo
  arrSession,    \* m_arrSession of each handler
  session,       \* the session objects
  map,           \* the eight session maps: for each kind, the slots in them
  timer,         \* the sessions whose DSC timer is armed
  m_nSessionID,  \* the next session id
  service,       \* running, exited (OnExit), crashed or undefined
  net,           \* messages between the service and the endorsers
  req,           \* the call made for each request
  ret,           \* what the call returned
  rsp,           \* the codes of the On...Response callbacks
  ntf,           \* the codes of the On...ResultNotify callbacks
  picked,        \* history: the endorsers the request reached
  votes,         \* history: the accepting answers its session was given, each
                 \* with its endorser, content and the request it was meant for
  submits,       \* history: how often it was submitted
  accepted       \* history: the transactions an endorser has accepted

vars == <<conn, arrSession, session, map, timer, m_nSessionID, service, net, req,
          ret, rsp, ntf, picked, votes, submits, accepted>>

history == <<picked, votes, submits, accepted>>
calls == <<req, ret, rsp, ntf>>
running == service = "running"
-----------------------------------------------------------------------------
(* Session objects and messages. *)

\* The transaction an endorser has opened for a request: what a value of
\* m_nEsSessionID stands for at that endorser.
EsSessions == [h : Handlers, src : Requests]

\* hs is m_arrHandler; submit is m_pSubmitEsHandler or the m_pHandler of the
\* sessions with one connection.
Session ==
  [kind : Kinds \cup {"free"}, src : Requests \cup {NULL}, wait : BOOLEAN,
   hs : SUBSET (Handlers \cup {NULL}), submit : Handlers \cup {NULL}, succ : Nat,
   es : EsSessions \cup {NULL}, info : Contents \cup {Empty}]

Message ==
  [type : {"endorse", "submit", "cancel", "accepted", "refused", "notify", "query"},
   kind : Kinds, h : Handlers, id : SessionIDs, src : Requests,
   es : EsSessions \cup {NULL}]

Freed == [kind |-> "free", src |-> NULL, wait |-> FALSE, hs |-> {}, submit |-> NULL,
          succ |-> 0, es |-> NULL, info |-> Empty]

NewSession(c, r, hs, submit, es) ==
  [kind |-> c.kind, src |-> r, wait |-> c.wait, hs |-> hs, submit |-> submit,
   succ |-> 0, es |-> es, info |-> Empty]

\* The session that waits for the notification: same ids, one connection.
NotifySession(s) ==
  [Freed EXCEPT !.kind = s.kind, !.src = s.src, !.hs = {s.submit}, !.submit = s.submit]

Live == {slot \in Slots : session[slot].kind # "free"}

\* m_nEsSessionID is not initialised: the memory may hold the id of another
\* transaction of that endorser.
InitialEs(r, h) ==
  {NULL} \cup {[h |-> h, src |-> q] : q \in {q \in Requests \ {r} : h \in picked[q]}}

Msg(type, s, h, id) ==
  [type |-> type, kind |-> s.kind, h |-> h, id |-> id, src |-> s.src, es |-> s.es]

PeerNum == Cardinality({PeerOf[h] : h \in conn})

\* What EndorseCount calls of GetMcpHandler() can return.
Selections ==
  {S \in SUBSET conn : /\ Cardinality(S) = EndorseCount
                       /\ \A g, h \in S : PeerOf[g] = PeerOf[h] => g = h}
-----------------------------------------------------------------------------
(* What the handlers do to sessions. *)

OnResponse(s, code) == rsp' = [rsp EXCEPT ![s.src] = Append(@, code)]
OnNotify(s, code) == ntf' = [ntf EXCEPT ![s.src] = Append(@, code)]

\* A session is told of its end through the callback of its stage.
Tell(slot, code) ==
  IF slot[2] = "request"
  THEN OnResponse(session[slot], code) /\ UNCHANGED ntf
  ELSE OnNotify(session[slot], code) /\ UNCHANGED rsp

Erase(S) == [k \in Kinds |-> map[k] \ S]

\* A session that is put into the array of one connection only: its index is
\* right as long as it is in that array, through all moves of others.
OneArray(slot) ==
  EndorseCount = 1 \/ slot[2] = "notify" \/ session[slot].kind \in QueryKinds

\* The arrays when the sessions of S that are sure to be found are erased, and
\* how often an array is asked to erase another one of them.
Cleared(S) == [h \in Handlers |-> arrSession[h] \ {slot \in S : OneArray(slot)}]

Astray(S) ==
  [h \in Handlers |->
     Cardinality({slot \in S : /\ h \in session[slot].hs
                               /\ ~OneArray(slot) \/ slot \notin arrSession[h]})]

\* What an array may be after n times Erase of an element whose index may be
\* that of another array: each takes out some entry or none.
Erasures(a, n) == {a \ t : t \in {t \in SUBSET a : Cardinality(t) <= n}}

\* What is left in an array of a deleted session points to freed memory.
Forget(a, S) == {IF slot \in S THEN NULL ELSE slot : slot \in a}

\* The arrays after n[h] such times Erase in the one of h; the sessions S are
\* deleted.
Unlinked(arrays, n, S) ==
  LET left(h) == {Forget(a, S) : a \in Erasures(arrays[h], n[h])}
  IN  {arr \in [Handlers -> UNION {left(h) : h \in Handlers}] :
         \A h \in Handlers : arr[h] \in left(h)}

Delete(S) == [slot \in Slots |-> IF slot \in S THEN Freed ELSE session[slot]]

\* The end of sessions whose connections are not all there any more writes
\* into the array of a deleted connection.
EndsUndefined(S) == \E slot \in S : NULL \in session[slot].hs

MutantRelease(slot) ==
  /\ timer' = timer \ {slot}
  /\ map' = Erase({slot})
  /\ arrSession' = [h \in Handlers |-> Forget(arrSession[h], {slot})]
  /\ session' = Delete({slot})
  /\ service' = IF EndsUndefined({slot}) THEN "undefined" ELSE service

\* OnReleaseMultiMcpHandler, OnReleaseSingleMcpHanler: the session leaves the
\* arrays of its connections and is deleted.
Release(slot) ==
  /\ timer' = timer \ {slot}
  /\ map' = Erase({slot})
  /\ arrSession' \in Unlinked(Cleared({slot}), Astray({slot}), {slot})
  /\ session' = Delete({slot})
  /\ service' = IF EndsUndefined({slot}) THEN "undefined" ELSE service

\* Memory is used that has been freed.
Undefined ==
  /\ service' = "undefined"
  /\ UNCHANGED <<conn, arrSession, session, map, timer, m_nSessionID, net, calls, history>>

LostRsp(S) ==
  [r \in Requests |-> IF \E slot \in S : slot[2] = "request" /\ session[slot].src = r
                      THEN Append(rsp[r], "NETWORK") ELSE rsp[r]]

LostNtf(S) ==
  [r \in Requests |-> IF \E slot \in S : slot[2] = "notify" /\ session[slot].src = r
                      THEN Append(ntf[r], "NETWORK") ELSE ntf[r]]

\* The sessions after the connection h is deleted with those in its array.
Without(s, h) ==
  [s EXCEPT !.hs = {IF g = h THEN NULL ELSE g : g \in @},
            !.submit = IF @ = h THEN NULL ELSE @]

Survivors(S, h) ==
  [slot \in Slots |-> IF slot \in S THEN Freed ELSE Without(session[slot], h)]

Sever(h, messages) == {m \in messages : m.h # h}
-----------------------------------------------------------------------------
Init ==
  /\ conn = {}
  /\ arrSession = [h \in Handlers |-> {}]
  /\ session = [slot \in Slots |-> Freed]
  /\ map = [k \in Kinds |-> {}]
  /\ timer = {}
  /\ m_nSessionID = StartID
  /\ service = "running"
  /\ net = {}
  /\ req = [r \in Requests |-> NULL]
  /\ ret = [r \in Requests |-> NULL]
  /\ rsp = [r \in Requests |-> <<>>]
  /\ ntf = [r \in Requests |-> <<>>]
  /\ picked = [r \in Requests |-> {}]
  /\ votes = [r \in Requests |-> {}]
  /\ submits = [r \in Requests |-> 0]
  /\ accepted = {}
-----------------------------------------------------------------------------
(* The calls of the application. *)

Call(r, c, code) ==
  /\ running
  /\ req[r] = NULL
  /\ req' = [req EXCEPT ![r] = c]
  /\ ret' = [ret EXCEPT ![r] = code]
  /\ UNCHANGED <<rsp, ntf>>

TooFewPeers(c) == c.kind \in TxKinds /\ PeerNum < EndorseCount

\* The key in the call cannot be decoded, or too few peers are connected.
Reject(r, c) ==
  /\ Call(r, c, IF TooFewPeers(c) THEN "NETWORK" ELSE "DECODE")
  /\ UNCHANGED <<conn, arrSession, session, map, timer, m_nSessionID, service, net,
                 history>>

\* A session that was sent is linked to its connections, its timer and its
\* map, and only now is its id used up.
MutantNextID == m_nSessionID + 1
MutantNextIDSame == m_nSessionID
NextID == (m_nSessionID + 1) % (MaxSessionID + 1)

Open(s) ==
  LET slot == <<m_nSessionID, "request">>
  IN  /\ session' = [session EXCEPT ![slot] = s]
      /\ arrSession' = [h \in Handlers |->
                          IF h \in s.hs THEN arrSession[h] \cup {slot} ELSE arrSession[h]]
      /\ timer' = timer \cup {slot}
      /\ map' = [map EXCEPT ![s.kind] = @ \cup {slot}]
      /\ m_nSessionID' = NextID

\* RegistUser, CreateInformation, Propose.
StartEndorse(r, c) ==
  /\ c.kind \in TxKinds
  /\ ~TooFewPeers(c)
  /\ Call(r, c, "OK")
  /\ \E S \in Selections : \E h \in S : \E es \in InitialEs(r, h) :
       LET s == NewSession(c, r, S, h, es)
       IN  /\ Open(s)
           /\ net' = net \cup {[Msg("endorse", s, g, m_nSessionID) EXCEPT !.es = NULL] :
                                  g \in S}
           /\ picked' = [picked EXCEPT ![r] = S]
  /\ UNCHANGED <<conn, service, votes, submits, accepted>>

\* A send fails and nothing else happens in it: the session is taken out of
\* the arrays it was put in and deleted, the error is returned. The endorsers
\* served before hold the request, and the next session gets the same id. A
\* session that was put into one array only is found there.
StartEndorseFails(r, c) ==
  /\ c.kind \in TxKinds
  /\ ~TooFewPeers(c)
  /\ Call(r, c, "NETWORK")
  /\ \E S \in Selections : \E f \in S : \E sent \in SUBSET (S \ {f}) :
       LET slot == <<m_nSessionID, "request">>
           linked(h) == sent # {} /\ h \in sent \cup {f}
       IN  /\ net' = net \cup
                {Msg("endorse", NewSession(c, r, S, f, NULL), g, m_nSessionID) : g \in sent}
           /\ picked' = [picked EXCEPT ![r] = sent]
           /\ arrSession' \in
                Unlinked([h \in Handlers |-> IF linked(h) THEN arrSession[h] \cup {slot}
                                             ELSE arrSession[h]],
                         [h \in Handlers |-> IF linked(h) THEN 1 ELSE 0], {slot})
  /\ UNCHANGED <<conn, session, map, timer, m_nSessionID, service, votes, submits,
                 accepted>>

\* QueryUserInfo, QueryTransactionInfo.
StartQuery(r, c, h) ==
  LET s == NewSession(c, r, {h}, h, NULL)
  IN  /\ c.kind \in QueryKinds
      /\ h \in conn
      /\ Call(r, c, "OK")
      /\ Open(s)
      /\ net' = net \cup {Msg("query", s, h, m_nSessionID)}
      /\ UNCHANGED <<conn, service, history>>

\* The session has just been put into one array, so its index is right.
QuerySendFails(r, c, h) ==
  /\ c.kind \in QueryKinds
  /\ h \in conn
  /\ Call(r, c, "NETWORK")
  /\ UNCHANGED <<conn, arrSession, session, map, timer, m_nSessionID, service, net,
                 history>>

\* The call does not come back.
CallEnds(r, c, how) ==
  /\ running
  /\ req[r] = NULL
  /\ req' = [req EXCEPT ![r] = c]
  /\ service' = how
  /\ UNCHANGED <<conn, arrSession, session, map, timer, m_nSessionID, net, ret, rsp,
                 ntf, history>>

\* GetMcpHandler() returns NULL and SendSingleEndoreMessage uses it.
QueryWithoutPeers(r, c) ==
  /\ c.kind \in QueryKinds
  /\ conn = {}
  /\ CallEnds(r, c, "crashed")

\* A send fails and has run OnNetworkError: the session is deleted already
\* when the call releases it.
CallSendBreaks(r, c) ==
  /\ conn # {}
  /\ ~TooFewPeers(c)
  /\ CallEnds(r, c, "undefined")
-----------------------------------------------------------------------------
(* OnHtsMsg: the endorsers' messages. *)

Slot(m) == <<m.id, IF m.type = "notify" THEN "notify" ELSE "request">>

\* The notification follows the answer to the submission on one connection.
Arrived(m, types) ==
  /\ running
  /\ m \in net
  /\ m.type \in types
  /\ m.type = "notify" => [m EXCEPT !.type = "accepted"] \notin net

Found(m) == Slot(m) \in map[m.kind]

NoSession(m) ==
  /\ Arrived(m, {"endorse", "accepted", "refused", "notify", "query"})
  /\ ~Found(m)
  /\ net' = net \ {m}
  /\ UNCHANGED <<conn, arrSession, session, map, timer, m_nSessionID, service, calls,
                 history>>

\* A message of the handler is sent to a deleted connection; or its send fails
\* and has run OnNetworkError, which has answered and deleted the session that
\* the handler goes on to answer. An answer that refuses leads to a message.
EndorseSendBreaks(m) == Arrived(m, {"endorse"}) /\ Found(m) /\ Undefined

\* The end of an endorsement that failed: a cancel message, whose own failure
\* nobody looks at, to the chosen endorser unless the network is at fault;
\* then OnResponse, CancelDscTimer, Erase and OnReleaseMultiMcpHandler.
Cancels(m, s, code) ==
  IF code = "NETWORK" THEN {{}} ELSE {{Msg("cancel", s, s.submit, m.id)}, {}}

FailEndorse(m, s, code, left) ==
  /\ code = "NETWORK" \/ s.submit # NULL
  /\ \E cancel \in Cancels(m, s, code) : net' = left \cup cancel
  /\ OnResponse(s, code)
  /\ UNCHANGED <<req, ret, ntf>>
  /\ Release(Slot(m))

\* The endorser's own code; "SERVER" stands for all but the network error.
EndorseFails(m) ==
  /\ Arrived(m, {"endorse"})
  /\ Found(m)
  /\ \E code \in {"SERVER", "NETWORK"} :
       FailEndorse(m, session[Slot(m)], code, net \ {m})
  /\ UNCHANGED <<conn, m_nSessionID, history>>

\* An empty stored content counts as "no answer yet".
Agrees(s, c) == s.info = Empty \/ s.info = c

MutantCounted(s, m, c) ==
  [s EXCEPT !.info = IF s.info = Empty THEN c ELSE s.info,
            !.succ = s.succ + 1, !.es = [h |-> m.h, src |-> m.src]]

\* The session after an accepting answer m with content c.
Counted(s, m, c) ==
  [s EXCEPT !.info = IF s.info = Empty THEN c ELSE s.info,
            !.succ = s.succ + 1,
            !.es = IF m.h = s.submit THEN [h |-> m.h, src |-> m.src] ELSE s.es]

Endorsed(s) == s.succ >= EndorseCount

Reaches(m, c) ==
  /\ Arrived(m, {"endorse"})
  /\ Found(m)
  /\ votes' = [votes EXCEPT ![session[Slot(m)].src] = @ \cup {<<m.h, c, m.src>>}]

Accepting(m, c) == Reaches(m, c) /\ Agrees(session[Slot(m)], c)

\* RemoveNonSubmitMcpHandler: the answer came, so a connection that is not
\* needed for the submission no longer matters to the session. The connection
\* has one m_nIndex too, for the m_arrHandler of all sessions.
Keep(m, s) ==
  IF m.h = s.submit
  THEN session' = [session EXCEPT ![Slot(m)] = s] /\ UNCHANGED arrSession
  ELSE /\ \E hs \in Erasures(s.hs, 1) :
            session' = [session EXCEPT ![Slot(m)] = [s EXCEPT !.hs = hs]]
       /\ \E a \in Erasures(arrSession[m.h], 1) :
            arrSession' = [arrSession EXCEPT ![m.h] = a]

EndorseWaits(m, c) ==
  LET s == Counted(session[Slot(m)], m, c)
  IN  /\ Accepting(m, c)
      /\ ~Endorsed(s)
      /\ Keep(m, s)
      /\ net' = net \ {m}
      /\ UNCHANGED <<conn, map, timer, m_nSessionID, service, calls, picked, submits,
                     accepted>>

Submission(m, s) == Msg("submit", s, s.submit, m.id)

\* Enough endorsements. The timer still runs from the beginning.
Submit(m, c) ==
  LET s == Counted(session[Slot(m)], m, c)
  IN  /\ Accepting(m, c)
      /\ Endorsed(s)
      /\ s.submit # NULL
      /\ Keep(m, s)
      /\ net' = (net \ {m}) \cup {Submission(m, s)}
      /\ submits' = [submits EXCEPT ![s.src] = @ + 1]
      /\ UNCHANGED <<conn, map, timer, m_nSessionID, service, calls, picked, accepted>>

SubmitSendFails(m, c) ==
  LET s == Counted(session[Slot(m)], m, c)
  IN  /\ Accepting(m, c)
      /\ Endorsed(s)
      /\ s.submit # NULL
      /\ FailEndorse(m, s, "NETWORK", net \ {m})
      /\ UNCHANGED <<conn, m_nSessionID, picked, submits, accepted>>

\* The contents differ. Propose looks at the count all the same.
EndorseMismatch(m, c) ==
  LET s == session[Slot(m)]
  IN  /\ Reaches(m, c)
      /\ ~Agrees(s, c)
      /\ ~(m.kind = "propose" /\ Endorsed(s))
      /\ FailEndorse(m, s, "SYSTEM", net \ {m})
      /\ UNCHANGED <<conn, m_nSessionID, picked, submits, accepted>>

MismatchSubmits(m, c) ==
  LET s == session[Slot(m)]
  IN  /\ Reaches(m, c)
      /\ ~Agrees(s, c)
      /\ m.kind = "propose" /\ Endorsed(s)
      /\ s.submit # NULL
      /\ \/ /\ FailEndorse(m, s, "SYSTEM", (net \ {m}) \cup {Submission(m, s)})
            /\ submits' = [submits EXCEPT ![s.src] = @ + 1]
         \/ /\ FailEndorse(m, s, "NETWORK", net \ {m})
            /\ UNCHANGED submits
      /\ UNCHANGED <<conn, m_nSessionID, picked, accepted>>

\* The transaction was accepted: the application is told, a session that
\* waits for the notification takes the place of the request's.
MutantTransactionAccepted(m) ==
  LET slot == Slot(m)
      s == session[slot]
  IN  /\ Arrived(m, {"accepted"})
      /\ Found(m)
      /\ OnResponse(s, "OK")
      /\ UNCHANGED <<req, ret, ntf>>
      /\ net' = net \ {m}
      /\ Release(slot)
      /\ UNCHANGED <<conn, m_nSessionID, history>>

MutantTransactionAcceptedAnyCode(m) ==
  LET slot == Slot(m)
      s == session[slot]
  IN  /\ Arrived(m, {"accepted", "refused"})
      /\ Found(m)
      /\ OnResponse(s, "OK")
      /\ UNCHANGED <<req, ret, ntf>>
      /\ net' = net \ {m}
      /\ Release(slot)
      /\ UNCHANGED <<conn, m_nSessionID, history>>

TransactionAccepted(m) ==
  LET slot == Slot(m)
      s == session[slot]
      n == <<m.id, "notify">>
      new == IF s.wait THEN {n} ELSE {}
  IN  /\ Arrived(m, {"accepted"})
      /\ Found(m)
      /\ OnResponse(s, "OK")
      /\ UNCHANGED <<req, ret, ntf>>
      /\ net' = net \ {m}
      /\ timer' = (timer \ {slot}) \cup new
      /\ map' = [Erase({slot}) EXCEPT ![m.kind] = @ \cup new]
      /\ arrSession' \in Unlinked([Cleared({slot}) EXCEPT ![s.submit] = @ \cup new],
                                  Astray({slot}), {slot})
      /\ session' = [Delete({slot}) EXCEPT ![n] = IF s.wait THEN NotifySession(s) ELSE @]
      /\ service' = IF EndsUndefined({slot}) \/ (s.wait /\ s.submit = NULL)
                    THEN "undefined" ELSE service
      /\ UNCHANGED <<conn, m_nSessionID, history>>

\* The transaction was refused: the session leaves its map, and that is all.
MutantTransactionRefused(m) ==
  /\ Arrived(m, {"refused"})
  /\ Found(m)
  /\ net' = net \ {m}
  /\ map' = Erase({Slot(m)})
  /\ timer' = timer \ {Slot(m)}
  /\ UNCHANGED <<conn, arrSession, session, m_nSessionID, service, calls, history>>

TransactionRefused(m) ==
  /\ Arrived(m, {"refused"})
  /\ Found(m)
  /\ net' = net \ {m}
  /\ map' = Erase({Slot(m)})
  /\ UNCHANGED <<conn, arrSession, session, timer, m_nSessionID, service, calls, history>>

\* A notification, or the answer to a query.
Finish(m) ==
  /\ Arrived(m, {"notify", "query"})
  /\ Found(m)
  /\ net' = net \ {m}
  /\ \E code \in {"OK", "SERVER"} : Tell(Slot(m), code)
  /\ Release(Slot(m))
  /\ UNCHANGED <<conn, m_nSessionID, req, ret, history>>
-----------------------------------------------------------------------------
(* Timers, connections and the end of the service. *)

MutantOnTimeOut(slot) ==
  /\ running
  /\ slot \in timer
  /\ Tell(slot, "TIMEOUT")
  /\ timer' = timer \ {slot}
  /\ UNCHANGED <<conn, arrSession, session, map, m_nSessionID, service, net, req, ret,
                 history>>

OnTimeOut(slot) ==
  /\ running
  /\ slot \in timer
  /\ Tell(slot, "TIMEOUT")
  /\ Release(slot)
  /\ UNCHANGED <<conn, m_nSessionID, net, req, ret, history>>

OnConnectedNodify(h) ==
  /\ running
  /\ h \notin conn
  /\ conn' = conn \cup {h}
  /\ UNCHANGED <<arrSession, session, map, timer, m_nSessionID, service, net, calls,
                 history>>

\* OnNetError of every session in the array, unless one of them is deleted
\* already: it is told, cancelled, erased, taken out of the arrays of its other
\* connections and deleted. Clear() empties the array. A session that is not
\* in the array but is still linked to the connection does not notice.
OnNetworkError(h) ==
  LET S == arrSession[h]
  IN  /\ running
      /\ h \in conn
      /\ \/ NULL \in S /\ Undefined
         \/ /\ NULL \notin S
            /\ conn' = conn \ {h}
            /\ rsp' = LostRsp(S)
            /\ ntf' = LostNtf(S)
            /\ timer' = timer \ S
            /\ map' = Erase(S)
            /\ session' = Survivors(S, h)
            /\ arrSession' \in Unlinked([Cleared(S) EXCEPT ![h] = {}], Astray(S), S)
            /\ service' = IF EndsUndefined(S) THEN "undefined" ELSE service
            /\ net' = Sever(h, net)
            /\ UNCHANGED <<m_nSessionID, req, ret, history>>

Mapped == UNION {map[k] : k \in Kinds}

\* Frees the sessions in the maps and stops their timers; nobody is told.
MutantOnExit ==
  /\ running
  /\ service' = "exited"
  /\ session' = Delete(Mapped)
  /\ conn' = {}
  /\ UNCHANGED <<arrSession, map, timer, m_nSessionID, net, calls, history>>

OnExit ==
  /\ running
  /\ service' = "exited"
  /\ timer' = timer \ Mapped
  /\ session' = Delete(Mapped)
  /\ conn' = {}
  /\ UNCHANGED <<arrSession, map, m_nSessionID, net, calls, history>>
-----------------------------------------------------------------------------
(* The endorser's side of a submission and of a cancellation. It knows the *)
(* transactions it has opened by their ids.                                *)

EsAccept(m) ==
  /\ m \in net
  /\ m.type = "submit"
  /\ m.es # NULL /\ m.es.h = m.h /\ m.h \in picked[m.es.src]
  /\ accepted' = accepted \cup {m.es.src}
  /\ net' = (net \ {m}) \cup {[m EXCEPT !.type = "accepted"]}
              \cup (IF req[m.es.src].wait THEN {[m EXCEPT !.type = "notify"]} ELSE {})
  /\ UNCHANGED <<conn, arrSession, session, map, timer, m_nSessionID, service, calls,
                 picked, votes, submits>>

EsRefuse(m) ==
  /\ m \in net
  /\ m.type = "submit"
  /\ net' = (net \ {m}) \cup {[m EXCEPT !.type = "refused"]}
  /\ UNCHANGED <<conn, arrSession, session, map, timer, m_nSessionID, service, calls,
                 history>>

EsCancel(m) ==
  /\ m \in net
  /\ m.type = "cancel"
  /\ net' = net \ {m}
  /\ UNCHANGED <<conn, arrSession, session, map, timer, m_nSessionID, service, calls,
                 history>>
-----------------------------------------------------------------------------
\* The calls by kind: three transactions with one body, two queries with
\* another.
StartTx(r, c) ==
  Reject(r, c) \/ StartEndorse(r, c) \/ StartEndorseFails(r, c) \/ CallSendBreaks(r, c)

RegistUser(r, c) == c.kind = "regist" /\ StartTx(r, c)
CreateInformation(r, c) == c.kind = "info" /\ StartTx(r, c)
Propose(r, c) == c.kind = "propose" /\ StartTx(r, c)

Query(r, c) ==
  \/ Reject(r, c)
  \/ \E h \in Handlers : StartQuery(r, c, h) \/ QuerySendFails(r, c, h)
  \/ QueryWithoutPeers(r, c) \/ CallSendBreaks(r, c)

QueryUserInfo(r, c) == c.kind = "queryUser" /\ Query(r, c)
QueryTransactionInfo(r, c) == c.kind = "queryTrans" /\ Query(r, c)

\* The messages by type and kind, as OnHtsMsg is bound to them.
EndorseRsp(m) ==
  \/ EndorseFails(m) \/ EndorseSendBreaks(m)
  \/ \E c \in Contents : \/ EndorseWaits(m, c)
                         \/ Submit(m, c)
                         \/ SubmitSendFails(m, c)
                         \/ EndorseMismatch(m, c)
                         \/ MismatchSubmits(m, c)

SubmitRsp(m) == TransactionAccepted(m) \/ TransactionRefused(m)

RegistUserEsCltRsp(m) == m.kind = "regist" /\ EndorseRsp(m)
SubmitRegistUserEsCltRsp(m) == m.kind = "regist" /\ SubmitRsp(m)
CreateInformationEsCltRsp(m) == m.kind = "info" /\ EndorseRsp(m)
SubmitCreateInformationEsCltRsp(m) == m.kind = "info" /\ SubmitRsp(m)
ProposeEsCltRsp(m) == m.kind = "propose" /\ EndorseRsp(m)
SubmitProposalEsCltRsp(m) == m.kind = "propose" /\ SubmitRsp(m)
SubscribeNotify(m) == m.kind \in TxKinds /\ Finish(m)
QueryUserInfoEsCltRsp(m) == m.kind = "queryUser" /\ Finish(m)
QueryTransInfoEsCltRsp(m) == m.kind = "queryTrans" /\ Finish(m)

OnHtsMsg(m) ==
  \/ NoSession(m)
  \/ RegistUserEsCltRsp(m) \/ SubmitRegistUserEsCltRsp(m)
  \/ CreateInformationEsCltRsp(m) \/ SubmitCreateInformationEsCltRsp(m)
  \/ ProposeEsCltRsp(m) \/ SubmitProposalEsCltRsp(m)
  \/ SubscribeNotify(m)
  \/ QueryUserInfoEsCltRsp(m) \/ QueryTransInfoEsCltRsp(m)

Start(r, c) ==
  \/ RegistUser(r, c) \/ CreateInformation(r, c) \/ Propose(r, c)
  \/ QueryUserInfo(r, c) \/ QueryTransactionInfo(r, c)

Next ==
  \/ \E r \in Requests, c \in Calls : Start(r, c)
  \/ \E m \in net : OnHtsMsg(m) \/ EsAccept(m) \/ EsRefuse(m) \/ EsCancel(m)
  \/ \E slot \in Slots : OnTimeOut(slot)
  \/ \E h \in Handlers : OnConnectedNodify(h) \/ OnNetworkError(h)
  \/ OnExit

Spec == Init /\ [][Next]_vars

\* The timer service runs every armed timer that is not cancelled.
Fairness == \A slot \in Slots : WF_vars(OnTimeOut(slot))

FairSpec == Spec /\ Fairness
=============================================================================
