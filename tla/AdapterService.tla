---------------------------- MODULE AdapterService ----------------------------
(***************************************************************************)
(* CVhbAdapterService, the plugin on top of CVbhAdapterBase: it turns the  *)
(* messages of client services into calls of the base class and its        *)
(* callbacks into messages to the clients. Between the two it remembers    *)
(* the client's address under the id the client chose for its request.     *)
(*                                                                         *)
(* The base class appears here as NotifyLifecycle, which AdapterBase is    *)
(* shown to implement: one response for every accepted call, then one      *)
(* notification if the call asked for it and the response was OK, until it *)
(* ends: at OnExit, by a query without peers, or by using freed memory.    *)
(* What it has to say of several calls at once (a broken connection) it    *)
(* says in several callbacks, which are steps here.                        *)
(***************************************************************************)
EXTENDS Naturals, Sequences, FiniteSets

CONSTANTS
  Clients,
  Requests,  \* the messages of the clients, each sent once
  ClientOf,  \* who sends it
  IdOf,      \* its m_nSrcSessionID; clients choose their ids on their own
  NULL

TxKinds == {"regist", "info", "propose"}
QueryKinds == {"queryUser", "queryTrans"}
Calls == [kind : TxKinds, wait : BOOLEAN] \cup [kind : QueryKinds, wait : {FALSE}]
Ids == {IdOf[r] : r \in Requests}
Codes == {"OK", "ERROR"}

ASSUME ServiceAssumption ==
  ClientOf \in [Requests -> Clients] /\ NULL \notin Clients \cup Calls \cup Codes

VARIABLES
  m_mapClientAddr,  \* the client's address for each request id, or NULL
  up,               \* TRUE until the base class ends
  req,              \* the request received
  stage,            \* of its call of the base class
  ret,              \* what the call has returned, or NULL
  rsp, ntf,         \* the codes the base class has called back with
  told,             \* the messages sent about each request, and to whom
  clash             \* history: requests that were under way together with
                    \* another one of the same id

vars == <<m_mapClientAddr, up, req, stage, ret, rsp, ntf, told, clash>>

Message == [type : {"rsp", "notify"}, code : Codes, to : Clients]

Msg(type, code, client) == [type |-> type, code |-> code, to |-> client]

SendDscMessage(r, m) == told' = [told EXCEPT ![r] = Append(@, m)]

IsUnderWay(r) == stage[r] \in {"open", "waiting"}
UnderWay(id) == {r \in Requests : IdOf[r] = id /\ IsUnderWay(r)}
-----------------------------------------------------------------------------
(* The addresses. *)

MutantInsertNothing(r) == UNCHANGED m_mapClientAddr
MutantInsertOther(r) ==
  m_mapClientAddr' = [m_mapClientAddr EXCEPT ![IdOf[r]] =
                        CHOOSE c \in Clients : c # ClientOf[r]]

InsertClientAddr(r) ==
  m_mapClientAddr' = [m_mapClientAddr EXCEPT ![IdOf[r]] =
                        IF @ = NULL THEN ClientOf[r] ELSE @]

MutantPopClientAddr(r) == UNCHANGED m_mapClientAddr
PopClientAddr(r) == m_mapClientAddr' = [m_mapClientAddr EXCEPT ![IdOf[r]] = NULL]

MutantDeliver(type, r, code) ==
  /\ PopClientAddr(r)
  /\ SendDscMessage(r, Msg(type, code, m_mapClientAddr[IdOf[r]]))

\* A callback is passed on to the address popped, if there is one.
Deliver(type, r, code) ==
  LET addr == m_mapClientAddr[IdOf[r]]
  IN  /\ PopClientAddr(r)
      /\ IF addr = NULL THEN UNCHANGED told
         ELSE SendDscMessage(r, Msg(type, code, addr))
-----------------------------------------------------------------------------
Init ==
  /\ m_mapClientAddr = [id \in Ids |-> NULL]
  /\ up = TRUE
  /\ req = [r \in Requests |-> NULL]
  /\ stage = [r \in Requests |-> "idle"]
  /\ ret = [r \in Requests |-> NULL]
  /\ rsp = [r \in Requests |-> <<>>]
  /\ ntf = [r \in Requests |-> <<>>]
  /\ told = [r \in Requests |-> <<>>]
  /\ clash = {}

Receive(r, c) ==
  /\ up
  /\ stage[r] = "idle"
  /\ req' = [req EXCEPT ![r] = c]
  /\ UNCHANGED <<rsp, ntf>>

\* The base class refuses the call: its error is sent at once.
Refused(r, c) ==
  /\ Receive(r, c)
  /\ stage' = [stage EXCEPT ![r] = "closed"]
  /\ ret' = [ret EXCEPT ![r] = "ERROR"]
  /\ SendDscMessage(r, Msg("rsp", "ERROR", ClientOf[r]))
  /\ UNCHANGED <<m_mapClientAddr, up, clash>>

Accepted(r, c) ==
  /\ Receive(r, c)
  /\ stage' = [stage EXCEPT ![r] = "open"]
  /\ ret' = [ret EXCEPT ![r] = "OK"]
  /\ InsertClientAddr(r)
  /\ clash' = IF UnderWay(IdOf[r]) = {} THEN clash
              ELSE clash \cup UnderWay(IdOf[r]) \cup {r}
  /\ UNCHANGED <<up, told>>

\* The call does not come back: the base class ends in it.
Vanished(r, c) ==
  /\ Receive(r, c)
  /\ stage' = [stage EXCEPT ![r] = "closed"]
  /\ up' = FALSE
  /\ UNCHANGED <<m_mapClientAddr, ret, told, clash>>

OnDscMsg(r, c) == Refused(r, c) \/ Accepted(r, c) \/ Vanished(r, c)

RegistUserReq(r, c) == c.kind = "regist" /\ OnDscMsg(r, c)
CreateInformationReq(r, c) == c.kind = "info" /\ OnDscMsg(r, c)
ProposeReq(r, c) == c.kind = "propose" /\ OnDscMsg(r, c)
QueryUserInfoReq(r, c) == c.kind = "queryUser" /\ OnDscMsg(r, c)
QueryTransInfoReq(r, c) == c.kind = "queryTrans" /\ OnDscMsg(r, c)
-----------------------------------------------------------------------------
(* The callbacks of the base class. *)

OnResponse(kind, r, code) ==
  /\ up
  /\ stage[r] = "open"
  /\ req[r].kind = kind
  /\ rsp' = [rsp EXCEPT ![r] = Append(@, code)]
  /\ stage' = [stage EXCEPT ![r] =
                 IF req[r].wait /\ code = "OK" THEN "waiting" ELSE "closed"]
  /\ Deliver("rsp", r, code)
  /\ UNCHANGED <<up, req, ret, ntf, clash>>

OnResultNotify(kind, r, code) ==
  /\ up
  /\ stage[r] = "waiting"
  /\ req[r].kind = kind
  /\ ntf' = [ntf EXCEPT ![r] = Append(@, code)]
  /\ stage' = [stage EXCEPT ![r] = "closed"]
  /\ Deliver("notify", r, code)
  /\ UNCHANGED <<up, req, ret, rsp, clash>>

OnRegistUserResponse(r, code) == OnResponse("regist", r, code)
OnCreateInformationRespondse(r, code) == OnResponse("info", r, code)
OnProposeResponse(r, code) == OnResponse("propose", r, code)
OnQueryUserInfoResponse(r, code) == OnResponse("queryUser", r, code)
OnQueryTransactionInfoResponse(r, code) == OnResponse("queryTrans", r, code)

OnRegistUserResultNotify(r, code) == OnResultNotify("regist", r, code)
OnCreateInformationResultNotify(r, code) == OnResultNotify("info", r, code)
OnProposeResultNotify(r, code) == OnResultNotify("propose", r, code)

Responds(r, code) ==
  \/ OnRegistUserResponse(r, code) \/ OnCreateInformationRespondse(r, code)
  \/ OnProposeResponse(r, code)
  \/ OnQueryUserInfoResponse(r, code) \/ OnQueryTransactionInfoResponse(r, code)

Notifies(r, code) ==
  \/ OnRegistUserResultNotify(r, code) \/ OnCreateInformationResultNotify(r, code)
  \/ OnProposeResultNotify(r, code)

\* The base class ends, and some of the calls under way are dropped: nobody is
\* called back and the addresses stay.
Ends ==
  /\ up
  /\ up' = FALSE
  /\ \E dropped \in SUBSET {r \in Requests : IsUnderWay(r)} :
       stage' = [r \in Requests |-> IF r \in dropped THEN "closed" ELSE stage[r]]
  /\ UNCHANGED <<m_mapClientAddr, req, ret, rsp, ntf, told, clash>>

Next ==
  \/ \E r \in Requests :
       \/ \E c \in Calls : \/ RegistUserReq(r, c) \/ CreateInformationReq(r, c)
                           \/ ProposeReq(r, c)
                           \/ QueryUserInfoReq(r, c) \/ QueryTransInfoReq(r, c)
       \/ \E code \in Codes : Responds(r, code) \/ Notifies(r, code)
  \/ Ends

Spec == Init /\ [][Next]_vars

\* The base class calls back for every call under way until it ends: both
\* halves of EventuallyAnswered of AdapterBaseProps. Every action needs up.
Fairness ==
  \A r \in Requests :
    WF_vars(\E code \in Codes : Responds(r, code) \/ Notifies(r, code))

FairSpec == Spec /\ Fairness
-----------------------------------------------------------------------------
\* The types of the variables. No message is sent to a null address: also not
\* the notification, whose address the response has taken.
TypeOK ==
  /\ m_mapClientAddr \in [Ids -> Clients \cup {NULL}]
  /\ up \in BOOLEAN
  /\ req \in [Requests -> Calls \cup {NULL}]
  /\ stage \in [Requests -> {"idle", "open", "waiting", "closed"}]
  /\ ret \in [Requests -> {"OK", "ERROR", NULL}]
  /\ rsp \in [Requests -> Seq(Codes)]
  /\ ntf \in [Requests -> Seq(Codes)]
  /\ told \in [Requests -> Seq(Message)]
  /\ clash \subseteq Requests

\* While the service runs, an address is in the map only as long as a call of
\* that client with that id is under way: no request is answered to a client
\* whose own calls with that id are over, and no address is left behind. (Two
\* calls with one id at a time share the first one's address: InsertClientAddr
\* keeps it, and the callback of either takes it out.)
NoStaleAddress ==
  \A id \in Ids : (up /\ m_mapClientAddr[id] # NULL) =>
    \E r \in UnderWay(id) : ClientOf[r] = m_mapClientAddr[id]

\* What the base class has said of the call, to be sent to the client.
Answered(r) == ret[r] = "ERROR" \/ rsp[r] # <<>>

Answer(r) ==
  Msg("rsp", IF rsp[r] = <<>> THEN ret[r] ELSE rsp[r][1], ClientOf[r])

Notification(r) == Msg("notify", ntf[r][1], ClientOf[r])

\* Unless another request of the same id was under way with it, a request is
\* answered to the client that made it as soon as the base class has refused
\* or answered the call, once and with its code. At most the notification
\* follows, to the same client; nothing else is sent about the request.
AnswerReachesAsker ==
  \A r \in Requests \ clash :
    /\ told[r] # <<>> <=> Answered(r)
    /\ Len(told[r]) <= 2
    /\ Len(told[r]) >= 1 => told[r][1] = Answer(r)
    /\ Len(told[r]) = 2 => ntf[r] # <<>> /\ told[r][2] = Notification(r)

\* Every accepted request is answered to its client in the end, unless its id
\* clashed or the service ends.
EventuallyAnswered ==
  \A r \in Requests :
    (stage[r] = "open") ~>
      (r \in clash \/ ~up \/ \E i \in DOMAIN told[r] : told[r][i].to = ClientOf[r])

\* What m_bWaitNotify and the three OnXxxResultNotify are there for: a client
\* that waits for the notification is sent it, when the base class notifies.
WaitersNotified ==
  \A r \in Requests \ clash :
    ntf[r] # <<>> => \E i \in DOMAIN told[r] : told[r][i] = Notification(r)
=============================================================================
