------------------------------ MODULE CryptClient ------------------------------
(***************************************************************************)
(* CVbhCryptClientService: the reactor service of the SDK that turns one   *)
(* application request into messages to the endorsers of several peers,    *)
(* collects the endorsements, submits the transaction to one chosen        *)
(* endorser and answers the application.                                   *)
(*                                                                         *)
(* The service runs in one thread: every handler below (a request, an      *)
(* endorser's message, a timer, a connection event) is one atomic step.    *)
(* The endorsers, the network and the application are the environment.     *)
(* A connection to an endorser is named by the endorser, Handlers being    *)
(* the addresses LoadPeerInfo reads; PeerConnTable shows how the service   *)
(* picks connections out of its table, here the pick is any set of         *)
(* connections of EndorseCount different peers.                            *)
(***************************************************************************)
EXTENDS Integers, FiniteSets, Sequences

CONSTANTS
  Peers,         \* the peers of CRYPT_ES_ADDR_CFG
  Handlers,      \* the endorsers, one connection (mcp handler) each
  PeerOf,        \* the peer an endorser belongs to
  EndorseCount,  \* m_nEndorsePeerCount
  Requests,      \* the application's requests, each sent once
  Contents,      \* what an endorser's accepting answer may contain
  Empty,         \* the content of length zero
  MaxSessionID,  \* the largest value of the unsigned m_nSessionID
  StartID,       \* m_nSessionID when the first of Requests arrives
  NULL           \* no value

ASSUME ConfigAssumption ==
  /\ IsFiniteSet(Handlers)
  /\ PeerOf \in [Handlers -> Peers]
  /\ EndorseCount \in Nat \ {0}
  /\ MaxSessionID \in Nat \ {0}
  /\ StartID \in 0 .. MaxSessionID

\* Bound: fewer requests than session ids, so that the 2^32 ids do not wrap
\* onto a session or a message that is still around (a session lives for at
\* most two timer periods). The counter may wrap, having served earlier
\* requests up to StartID.
ASSUME IdBound == IsFiniteSet(Requests) /\ Cardinality(Requests) <= MaxSessionID

Kinds == {"regist", "propose", "query"}

ASSUME NullAssumption == NULL \notin Requests \cup Handlers \cup Kinds

\* The outcomes of decrypting, decoding and verifying an answer, and the
\* error codes an endorser itself reports ("SERVER" stands for all of them).
RspErrors == {"SERVER", "DECRYPT", "DECODE", "NONCE"}

\* The return codes the application can be told.
Codes == RspErrors \cup {"OK", "TIMEOUT", "NETWORK", "ENCRYPT", "SYSTEM"}

SessionIDs == 1 .. MaxSessionID

VARIABLES
  conn,          \* the handlers in m_vbhPeerConnSumInfo
  arrSession,    \* m_arrSession of each handler
  session,       \* the session objects, named by their m_nCltSessionID
  map,           \* m_mapRegistUserSession, m_mapProposeSession, m_mapQuerySession
  timer,         \* the sessions whose DSC timer is armed
  m_nSessionID,  \* the last session id given out
  running,       \* FALSE after OnExit
  net,           \* messages between the service and the endorsers
  req,           \* the kind of each request the application has sent
  rsp,           \* the answers sent to each request, in order
  picked,        \* history: the endorsers each request was sent to
  votes,         \* history: the endorsements each request collected
  submits,       \* history: how often each transaction was submitted
  committed      \* history: the transactions an endorser has executed

vars == <<conn, arrSession, session, map, timer, m_nSessionID, running, net,
          req, rsp, picked, votes, submits, committed>>

history == <<picked, votes, submits, committed>>
-----------------------------------------------------------------------------
(* Session objects and messages. *)

\* es is the endorser that issued the stored m_nEsSessionID (NULL: the
\* reserved value 0, or whatever the memory held); info is the stored content.
Session == [kind : Kinds \cup {"free"}, src : Requests \cup {NULL},
            handler : Handlers \cup {NULL}, succ : Nat,
            es : Handlers \cup {NULL}, info : Contents \cup {Empty}]

\* "adrift" is a submission whose connection is gone; src is history.
Message == [type : {"endorse", "submit", "committed", "refused", "query", "adrift"},
            kind : Kinds, h : Handlers, id : SessionIDs, src : Requests,
            es : Handlers \cup {NULL}]

Freed == [kind |-> "free", src |-> NULL, handler |-> NULL, succ |-> 0,
          es |-> NULL, info |-> Empty]

NewSession(kind, r, h, es) ==
  [kind |-> kind, src |-> r, handler |-> h, succ |-> 0, es |-> es, info |-> Empty]

Live == {id \in SessionIDs : session[id].kind # "free"}

\* CProposeSession leaves m_nEsSessionID uninitialised, CRegistUserSession
\* sets it to the reserved value 0, a query session has none.
InitialEs(kind) == IF kind = "propose" THEN Handlers \cup {NULL} ELSE {NULL}

Msg(type, kind, h, id, r, es) ==
  [type |-> type, kind |-> kind, h |-> h, id |-> id, src |-> r, es |-> es]

\* Session ids are unsigned and skip 0 when they wrap.
MutantAllocSessionID == (m_nSessionID + 1) % (MaxSessionID + 1)

AllocSessionID ==
  LET next == (m_nSessionID + 1) % (MaxSessionID + 1)
  IN  IF next # 0 THEN next ELSE 1

\* The number of peers with a connection: m_vbhPeerConnSumInfo.m_nSessionNum.
PeerNum == Cardinality({PeerOf[h] : h \in conn})

\* What EndorseCount calls of GetMcpHandler() can return.
Selections ==
  {S \in SUBSET conn : /\ Cardinality(S) = EndorseCount
                       /\ \A g, h \in S : PeerOf[g] = PeerOf[h] => g = h}
-----------------------------------------------------------------------------
(* What the handlers do to a session. *)

Answer(r, code) == [rsp EXCEPT ![r] = Append(@, code)]

AnswerAll(S, code) ==
  [r \in Requests |-> IF \E id \in S : session[id].src = r
                      THEN Append(rsp[r], code) ELSE rsp[r]]

MutantCancelDscTimer(S) == timer
CancelDscTimer(S) == timer \ S

Erase(S) == [k \in Kinds |-> map[k] \ {id \in S : session[id].kind = k}]

Delete(S) == [id \in SessionIDs |-> IF id \in S THEN Freed ELSE session[id]]

\* The session is taken out of the one array it is in.
Unlink(id) ==
  [arrSession EXCEPT ![session[id].handler] = @ \ {id}]

\* OnResponse, CancelDscTimer, Erase and OnReleaseSingleMcpHanler.
EndSession(id, code) ==
  /\ rsp' = Answer(session[id].src, code)
  /\ timer' = CancelDscTimer({id})
  /\ map' = Erase({id})
  /\ arrSession' = Unlink(id)
  /\ session' = Delete({id})

\* OnNetworkError: every session of the array is answered and deleted, the
\* array is cleared, the handler leaves the table.
LostSessions(h) == arrSession[h]

LoseHandler(h) ==
  LET S == LostSessions(h)
  IN  /\ timer' = CancelDscTimer(S)
      /\ map' = Erase(S)
      /\ session' = Delete(S)
      /\ arrSession' = [arrSession EXCEPT ![h] = {}]
      /\ conn' = conn \ {h}

\* A broken connection loses what it carries, but an endorser that has
\* already received a submission may still execute it.
Sever(h, messages) ==
  {m \in messages : m.h # h \/ m.type = "adrift"}
    \cup {[m EXCEPT !.type = "adrift"] :
             m \in {n \in messages : n.h = h /\ n.type = "submit"}}
-----------------------------------------------------------------------------
Init ==
  /\ conn = {}
  /\ arrSession = [h \in Handlers |-> {}]
  /\ session = [id \in SessionIDs |-> Freed]
  /\ map = [k \in Kinds |-> {}]
  /\ timer = {}
  /\ m_nSessionID = StartID
  /\ running = TRUE
  /\ net = {}
  /\ req = [r \in Requests |-> NULL]
  /\ rsp = [r \in Requests |-> <<>>]
  /\ picked = [r \in Requests |-> {}]
  /\ votes = [r \in Requests |-> {}]
  /\ submits = [r \in Requests |-> 0]
  /\ committed = {}
-----------------------------------------------------------------------------
(* OnDscMsg: the application's requests. *)

Arrives(r, kind) ==
  /\ running
  /\ req[r] = NULL
  /\ req' = [req EXCEPT ![r] = kind]

\* The reply at the end of every OnDscMsg when nReturnCode is an error.
Reject(r, code) ==
  /\ rsp' = Answer(r, code)
  /\ UNCHANGED <<arrSession, session, map, timer, running, history>>

TooFewPeers(kind, r) ==
  /\ kind # "query"
  /\ PeerNum < EndorseCount
  /\ Arrives(r, kind)
  /\ Reject(r, "NETWORK")
  /\ UNCHANGED <<conn, m_nSessionID, net>>

\* The key in the request cannot be decoded, or signing or encrypting fails.
BadRequest(kind, r) ==
  /\ kind = "query" \/ PeerNum >= EndorseCount
  /\ Arrives(r, kind)
  /\ \E code \in {"DECODE", "ENCRYPT"} : Reject(r, code)
  /\ UNCHANGED <<conn, m_nSessionID, net>>

\* A new session is linked to its handler, its timer and its map.
MutantOpenSession(id, s) ==
  /\ session' = [session EXCEPT ![id] = s]
  /\ timer' = timer
  /\ map' = [map EXCEPT ![s.kind] = @ \cup {id}]
  /\ arrSession' = [arrSession EXCEPT ![s.handler] = @ \cup {id}]

OpenSession(id, s) ==
  /\ session' = [session EXCEPT ![id] = s]
  /\ timer' = timer \cup {id}
  /\ map' = [map EXCEPT ![s.kind] = @ \cup {id}]
  /\ arrSession' = [arrSession EXCEPT ![s.handler] = @ \cup {id}]

\* SendMultiEndorseMessage reaches every picked endorser, one of which is
\* chosen (nRand) to receive the submission.
StartEndorse(kind, r) ==
  LET id == AllocSessionID
  IN  /\ kind # "query"
      /\ PeerNum >= EndorseCount
      /\ Arrives(r, kind)
      /\ m_nSessionID' = id
      /\ \E S \in Selections, es \in InitialEs(kind) :
           /\ \E h \in S : OpenSession(id, NewSession(kind, r, h, es))
           /\ net' = net \cup {Msg("endorse", kind, g, id, r, NULL) : g \in S}
           /\ picked' = [picked EXCEPT ![r] = S]
      /\ UNCHANGED <<conn, rsp, running, votes, submits, committed>>

\* A send fails: SendHtsMsg has run OnNetworkError on that handler, and the
\* new request, which has no session yet, is answered by its own handler.
MutantStartFailedAnswers(r, h) == AnswerAll(LostSessions(h), "NETWORK")

StartFailedAnswers(r, h) ==
  [AnswerAll(LostSessions(h), "NETWORK") EXCEPT ![r] = Append(@, "NETWORK")]

MutantStartEndorseFails(kind, r) ==
  LET id == AllocSessionID
  IN  /\ kind # "query"
      /\ PeerNum >= EndorseCount
      /\ Arrives(r, kind)
      /\ m_nSessionID' = m_nSessionID
      /\ \E S \in Selections : \E f \in S : \E sent \in SUBSET (S \ {f}) :
           /\ LoseHandler(f)
           /\ rsp' = StartFailedAnswers(r, f)
           /\ net' = Sever(f, net) \cup {Msg("endorse", kind, g, id, r, NULL) : g \in sent}
      /\ UNCHANGED <<running, history>>

\* The endorsers served before it keep a request nobody waits for.
StartEndorseFails(kind, r) ==
  LET id == AllocSessionID
  IN  /\ kind # "query"
      /\ PeerNum >= EndorseCount
      /\ Arrives(r, kind)
      /\ m_nSessionID' = id
      /\ \E S \in Selections : \E f \in S : \E sent \in SUBSET (S \ {f}) :
           /\ LoseHandler(f)
           /\ rsp' = StartFailedAnswers(r, f)
           /\ net' = Sever(f, net) \cup {Msg("endorse", kind, g, id, r, NULL) : g \in sent}
      /\ UNCHANGED <<running, history>>

\* A query names its peer: GetMcpHandler(nDstPeerID) finds no connection.
QueryNoPeer(r, p) ==
  /\ \A h \in conn : PeerOf[h] # p
  /\ Arrives(r, "query")
  /\ m_nSessionID' = AllocSessionID
  /\ Reject(r, "NETWORK")
  /\ UNCHANGED <<conn, net>>

StartQuery(r, h) ==
  LET id == AllocSessionID
  IN  /\ h \in conn
      /\ Arrives(r, "query")
      /\ m_nSessionID' = id
      /\ OpenSession(id, NewSession("query", r, h, NULL))
      /\ net' = net \cup {Msg("query", "query", h, id, r, NULL)}
      /\ UNCHANGED <<conn, rsp, running, history>>

\* The send fails and is only logged: nReturnCode stays OK, so the requester
\* gets neither a session nor a reply.
QuerySendFails(r, h) ==
  /\ h \in conn
  /\ Arrives(r, "query")
  /\ m_nSessionID' = AllocSessionID
  /\ LoseHandler(h)
  /\ rsp' = AnswerAll(LostSessions(h), "NETWORK")
  /\ net' = Sever(h, net)
  /\ UNCHANGED <<running, history>>
-----------------------------------------------------------------------------
(* OnHtsMsg: the endorsers' answers. *)

Arrived(m, types) == running /\ m \in net /\ m.type \in types

\* The session is gone (answered, timed out or cut off): only logged.
NoSession(m) ==
  /\ Arrived(m, {"endorse", "committed", "refused", "query"})
  /\ m.id \notin map[m.kind]
  /\ net' = net \ {m}
  /\ UNCHANGED <<conn, arrSession, session, map, timer, m_nSessionID, running,
                 req, rsp, history>>

\* The code told to the application: the propose handler replaces every
\* endorsement error by the network error.
EndorseError(kind, code) == IF kind = "propose" THEN "NETWORK" ELSE code

EndorseFails(m) ==
  /\ Arrived(m, {"endorse"})
  /\ m.id \in map[m.kind]
  /\ net' = net \ {m}
  /\ \E code \in RspErrors : EndSession(m.id, EndorseError(m.kind, code))
  /\ UNCHANGED <<conn, m_nSessionID, running, req, history>>

\* An empty stored content counts as "no answer yet".
Agrees(s, c) == s.info = Empty \/ s.info = c

\* The session after an accepting answer: the content of the first answer is
\* kept, the submit node's answer names the endorser-side session.
MutantCounted(s, h, c) ==
  [s EXCEPT !.info = IF s.info = Empty THEN c ELSE s.info,
            !.succ = s.succ + 1, !.es = h]

MutantCountedTwice(s, h, c) ==
  [s EXCEPT !.info = IF s.info = Empty THEN c ELSE s.info,
            !.succ = IF s.info = Empty THEN s.succ + 2 ELSE s.succ + 1,
            !.es = IF h = s.handler THEN h ELSE s.es]

Counted(s, h, c) ==
  [s EXCEPT !.info = IF s.info = Empty THEN c ELSE s.info,
            !.succ = s.succ + 1,
            !.es = IF h = s.handler THEN h ELSE s.es]

MutantEndorsed(s) == s.succ + 1 >= EndorseCount
Endorsed(s) == s.succ >= EndorseCount

\* An accepting answer with the right nonce and content c. (The regist
\* handler tests Endorsed after a mismatch too; PendingBelowCount is why
\* that test fails.)
Accepting(m, c) ==
  /\ Arrived(m, {"endorse"})
  /\ m.id \in map[m.kind]
  /\ Agrees(session[m.id], c)
  /\ votes' = [votes EXCEPT ![m.src] = @ \cup {<<m.h, c>>}]

EndorseMismatch(m, c) ==
  /\ Arrived(m, {"endorse"})
  /\ m.id \in map[m.kind]
  /\ ~Agrees(session[m.id], c)
  /\ net' = net \ {m}
  /\ EndSession(m.id, EndorseError(m.kind, "SYSTEM"))
  /\ UNCHANGED <<conn, m_nSessionID, running, req, history>>

EndorseWaits(m, c) ==
  LET s == Counted(session[m.id], m.h, c)
  IN  /\ Accepting(m, c)
      /\ ~Endorsed(s)
      /\ session' = [session EXCEPT ![m.id] = s]
      /\ net' = net \ {m}
      /\ UNCHANGED <<conn, arrSession, map, timer, m_nSessionID, running, req,
                     rsp, picked, submits, committed>>

\* Enough endorsements: the transaction is submitted to the chosen endorser
\* and the timer is set again for the second phase.
Submit(m, c) ==
  LET s == Counted(session[m.id], m.h, c)
  IN  /\ Accepting(m, c)
      /\ Endorsed(s)
      /\ session' = [session EXCEPT ![m.id] = s]
      /\ timer' = timer \cup {m.id}
      /\ net' = (net \ {m})
                  \cup {Msg("submit", m.kind, s.handler, m.id, s.src, s.es)}
      /\ submits' = [submits EXCEPT ![s.src] = @ + 1]
      /\ UNCHANGED <<conn, arrSession, map, m_nSessionID, running, req, rsp,
                     picked, committed>>

SubmitEncryptFails(m, c) ==
  /\ Accepting(m, c)
  /\ Endorsed(Counted(session[m.id], m.h, c))
  /\ net' = net \ {m}
  /\ EndSession(m.id, EndorseError(m.kind, "ENCRYPT"))
  /\ UNCHANGED <<conn, m_nSessionID, running, req, picked, submits, committed>>

\* The send fails: OnNetworkError has already answered and deleted the
\* session (pSession = nullptr), the handler does not answer again.
MutantFailedSendAnswers(id, h) ==
  [AnswerAll(LostSessions(h), "NETWORK") EXCEPT ![session[id].src] = Append(@, "NETWORK")]
FailedSendAnswers(id, h) == AnswerAll(LostSessions(h), "NETWORK")

SubmitSendFails(m, c) ==
  LET h == session[m.id].handler
  IN  /\ Accepting(m, c)
      /\ Endorsed(Counted(session[m.id], m.h, c))
      /\ LoseHandler(h)
      /\ rsp' = FailedSendAnswers(m.id, h)
      /\ net' = Sever(h, net \ {m})
      /\ UNCHANGED <<m_nSessionID, running, req, picked, submits, committed>>

\* The answer to the submission ends the session whatever it says.
MutantSubmitCodes(m) == {"OK", "DECRYPT", "DECODE", "NONCE"}

SubmitCodes(m) ==
  IF m.type = "refused" THEN {"SERVER"} ELSE {"OK", "DECRYPT", "DECODE", "NONCE"}

OnSubmitRsp(m) ==
  /\ Arrived(m, {"committed", "refused"})
  /\ m.id \in map[m.kind]
  /\ net' = net \ {m}
  /\ \E code \in SubmitCodes(m) : EndSession(m.id, code)
  /\ UNCHANGED <<conn, m_nSessionID, running, req, history>>

\* An answer to a query that cannot be decoded is reported as DECRYPT.
OnQueryRsp(m) ==
  /\ Arrived(m, {"query"})
  /\ m.id \in map[m.kind]
  /\ net' = net \ {m}
  /\ \E code \in {"OK", "SERVER", "DECRYPT", "NONCE"} : EndSession(m.id, code)
  /\ UNCHANGED <<conn, m_nSessionID, running, req, history>>
-----------------------------------------------------------------------------
(* Timers, connections and the end of the service. *)

MutantOnTimeOut(id) ==
  /\ running
  /\ id \in timer
  /\ rsp' = Answer(session[id].src, "TIMEOUT")
  /\ timer' = timer \ {id}
  /\ UNCHANGED <<conn, arrSession, session, map, m_nSessionID, running, net, req,
                 history>>

OnTimeOut(id) ==
  /\ running
  /\ id \in timer
  /\ EndSession(id, "TIMEOUT")
  /\ UNCHANGED <<conn, m_nSessionID, running, net, req, history>>

\* The framework has connected (again): a new handler with an empty array.
OnConnectedNodify(h) ==
  /\ running
  /\ h \notin conn
  /\ conn' = conn \cup {h}
  /\ arrSession' = [arrSession EXCEPT ![h] = {}]
  /\ UNCHANGED <<session, map, timer, m_nSessionID, running, net, req, rsp, history>>

OnNetworkError(h) ==
  /\ running
  /\ h \in conn
  /\ LoseHandler(h)
  /\ rsp' = AnswerAll(LostSessions(h), "NETWORK")
  /\ net' = Sever(h, net)
  /\ UNCHANGED <<m_nSessionID, running, req, history>>

\* The sessions found in the maps lose their timer and their memory; nobody
\* is answered.
MutantMapped == map["regist"] \cup map["query"]
Mapped == UNION {map[k] : k \in Kinds}

OnExit ==
  /\ running
  /\ running' = FALSE
  /\ timer' = CancelDscTimer(Mapped)
  /\ session' = Delete(Mapped)
  /\ conn' = {}
  /\ UNCHANGED <<arrSession, map, m_nSessionID, net, req, rsp, history>>
-----------------------------------------------------------------------------
(* The endorser's side of a submission: it executes the transaction of the *)
(* endorser session the message names, or refuses.                         *)

EsCommit(m) ==
  /\ m \in net
  /\ m.type \in {"submit", "adrift"}
  /\ m.es = m.h
  /\ committed' = committed \cup {m.src}
  /\ net' = (net \ {m}) \cup
              (IF m.type = "submit" THEN {[m EXCEPT !.type = "committed"]} ELSE {})
  /\ UNCHANGED <<conn, arrSession, session, map, timer, m_nSessionID, running,
                 req, rsp, picked, votes, submits>>

EsRefuse(m) ==
  /\ m \in net
  /\ m.type \in {"submit", "adrift"}
  /\ net' = (net \ {m}) \cup
              (IF m.type = "submit" THEN {[m EXCEPT !.type = "refused"]} ELSE {})
  /\ UNCHANGED <<conn, arrSession, session, map, timer, m_nSessionID, running,
                 req, rsp, history>>
-----------------------------------------------------------------------------
OnDscMsg(r) ==
  \/ \E kind \in Kinds : \/ TooFewPeers(kind, r)
                         \/ BadRequest(kind, r)
                         \/ StartEndorse(kind, r)
                         \/ StartEndorseFails(kind, r)
  \/ \E p \in Peers : QueryNoPeer(r, p)
  \/ \E h \in Handlers : StartQuery(r, h) \/ QuerySendFails(r, h)

OnHtsMsg(m) ==
  \/ NoSession(m)
  \/ EndorseFails(m)
  \/ \E c \in Contents : \/ EndorseMismatch(m, c)
                         \/ EndorseWaits(m, c)
                         \/ Submit(m, c)
                         \/ SubmitEncryptFails(m, c)
                         \/ SubmitSendFails(m, c)
  \/ OnSubmitRsp(m)
  \/ OnQueryRsp(m)

Next ==
  \/ \E r \in Requests : OnDscMsg(r)
  \/ \E m \in net : OnHtsMsg(m) \/ EsCommit(m) \/ EsRefuse(m)
  \/ \E id \in SessionIDs : OnTimeOut(id)
  \/ \E h \in Handlers : OnConnectedNodify(h) \/ OnNetworkError(h)
  \/ OnExit

Spec == Init /\ [][Next]_vars

\* The timer service of the framework runs every armed timer that is not
\* cancelled; nothing is assumed of the endorsers or the connections.
Fairness == \A id \in SessionIDs : WF_vars(OnTimeOut(id))

FairSpec == Spec /\ Fairness
=============================================================================
