------------------------------- MODULE ClientApi -------------------------------
(***************************************************************************)
(* The API that applications call, in C++ (client_api) and in C            *)
(* (client_c_api), on top of the start of the SDK (SdkInit). InitClientSdk *)
(* sets the callback object of the one API task and registers the task     *)
(* with the dispatcher; every request is a message to the crypt client     *)
(* service; every answer is dispatched by the task to a method of the      *)
(* callback object, which for a C application is a CWrapperCallback and    *)
(* calls one of its function pointers. Only the type of an answer and its  *)
(* action id tell where it belongs.                                        *)
(*                                                                         *)
(* The service appears here by its answers: one or none for each request,  *)
(* with the action ids that CVbhCryptClientService writes into it.         *)
(***************************************************************************)
EXTENDS SdkInit, Sequences

CONSTANTS
  CThreads,  \* the threads of C applications; the others are C++
  Requests   \* the calls of the API, each made once

ASSUME CThreadsAssumption == CThreads \subseteq Threads

VARIABLES
  m_pCallBack,  \* the thread whose callback object the task uses, or NULL
  since,        \* history: the threads that called SetCallBack after each one
  registered,   \* the task is known to the dispatcher
  api,          \* where each thread is in InitClientSdk
  asked,        \* who made each call that was sent, and which; or NULL
  answers,      \* the answers of the service that are on their way
  told,         \* the answers dispatched for each request
  crashed       \* a null pointer has been called

apiVars == <<m_pCallBack, since, registered, api, asked, answers, told, crashed>>

allVars == <<vars, apiVars>>
-----------------------------------------------------------------------------
(* Calls and their action ids. *)

NoID == 0
UserID == 67      \* a query of the application's own, from 64 on
FailedID == 65535 \* what the service answers for a proposal that failed

Transactions ==
  [RegistUser |-> [type |-> "regist", id |-> NoID],
   Propose |-> [type |-> "propose", id |-> 2],
   ProposeTrade |-> [type |-> "propose", id |-> 3],
   ProposeCreatInfoID |-> [type |-> "propose", id |-> 1],
   ProposeCommitInfo |-> [type |-> "propose", id |-> 4]]

Queries ==
  [Query |-> [type |-> "query", id |-> UserID],
   QueryUser |-> [type |-> "query", id |-> 65],
   QueryTrans |-> [type |-> "query", id |-> 66]]

ExplorerQueries ==
  [ExplorerQueryBlock |-> [type |-> "query", id |-> 2],
   ExplorerQueryBlockTranList |-> [type |-> "query", id |-> 3],
   ExplorerQueryBlockCount |-> [type |-> "query", id |-> 1],
   ExplorerQueryUser |-> [type |-> "query", id |-> 4],
   ExplorerQueryTrans |-> [type |-> "query", id |-> 5]]

Kinds == DOMAIN Transactions \cup DOMAIN Queries \cup DOMAIN ExplorerQueries

Call ==
  [k \in Kinds |-> CASE k \in DOMAIN Transactions -> Transactions[k]
                     [] k \in DOMAIN Queries -> Queries[k]
                     [] k \in DOMAIN ExplorerQueries -> ExplorerQueries[k]]

\* The C interface has no function for these.
CTransactions == DOMAIN Transactions \ {"Propose"}

CQueries ==
  (DOMAIN Queries \cup DOMAIN ExplorerQueries) \ {"ExplorerQueryUser", "ExplorerQueryTrans"}

CalledFrom(t) == IF t \in CThreads THEN CTransactions \cup CQueries ELSE Kinds

\* What an m_nActionID that nobody has written may hold, for those who read it.
Unwritten == {1, 2, 3, 4, 5, 65, 66, UserID, FailedID}

\* The ids the service answers a call with. A proposal: the endorser's in the
\* answer to a submission, 0xffff after a timeout or a broken connection,
\* unwritten when the request handler itself fails. A query: its own, or
\* unwritten in the same case. Only the first kind can be a success.
AnswerIDs(c) ==
  CASE c.type = "regist" -> {NoID}
    [] c.type = "propose" -> {c.id, FailedID} \cup Unwritten
    [] c.type = "query" -> {c.id} \cup Unwritten
-----------------------------------------------------------------------------
(* PostDscMessage of the task, and the callbacks of the C wrapper. *)

\* PostExplorerQueryRsp: the ids it takes; a write set is not among them.
Explorer ==
  [i \in {1, 2, 3, 5} |->
     CASE i = 1 -> "OnExplorerQueryBlockCountRsp"
       [] i = 2 -> "OnExplorerQueryBlockRsp"
       [] i = 3 -> "OnExplorerQueryBlockTransListRsp"
       [] i = 5 -> "OnExplorerQueryTransRsp"]

Method(m) ==
  CASE m.type = "regist" -> "OnRegistUserRsp"
    [] m.type = "propose" -> "OnProposeRsp"
    [] m.type = "query" -> IF m.id \in DOMAIN Explorer THEN Explorer[m.id] ELSE "OnQueryRsp"

\* OnProposeRsp of the wrapper looks at the id; all others have one pointer.
Proposal(id) ==
  CASE id = 1 -> "m_pOnProposeCreatInfoIdRsp"
    [] id = 3 -> "m_pOnProposeTradeRsp"
    [] id = 4 -> "m_pOnProposeCommitInfoRsp"
    [] OTHER -> "none"

Wrapper(method, id) ==
  CASE method = "OnRegistUserRsp" -> "m_pOnRegistUserRsp"
    [] method = "OnProposeRsp" -> Proposal(id)
    [] method = "OnQueryRsp" -> "m_pOnQueryRsp"
    [] method = "OnExplorerQueryBlockRsp" -> "m_pOnExplorerQueryVbhBlockRsp"
    [] method = "OnExplorerQueryBlockCountRsp" -> "m_pOnExplorerQueryVbhBlockCountRsp"
    [] method = "OnExplorerQueryBlockTransListRsp" -> "m_pOnExplorerQueryVbhBlockTranListRsp"
    [] method = "OnExplorerQueryTransRsp" -> NULL

\* SDKDecode of the wrapper's OnQueryRsp: it says 0, and has put nothing into
\* the string, for every id but two.
SDKDecode(id) == IF id \in {65, 66} THEN "result" ELSE "empty"

Info(t, m) ==
  IF m.type = "query" /\ m.ok
  THEN IF t \in CThreads /\ Method(m) = "OnQueryRsp" THEN SDKDecode(m.id) ELSE "result"
  ELSE "none"

Function(t, m) == IF t \in CThreads THEN Wrapper(Method(m), m.id) ELSE Method(m)

\* The methods of the callback object, and the function pointers of a C one.
Methods ==
  {"OnRegistUserRsp", "OnProposeRsp", "OnQueryRsp", "OnExplorerQueryBlockRsp",
   "OnExplorerQueryBlockCountRsp", "OnExplorerQueryBlockTransListRsp",
   "OnExplorerQueryTransRsp"}

Pointers ==
  {"m_pOnRegistUserRsp", "m_pOnQueryRsp", "m_pOnProposeCreatInfoIdRsp",
   "m_pOnProposeTradeRsp", "m_pOnProposeCommitInfoRsp",
   "m_pOnExplorerQueryVbhBlockRsp", "m_pOnExplorerQueryVbhBlockCountRsp",
   "m_pOnExplorerQueryVbhBlockTranListRsp"}

ASSUME NullOfApiAssumption ==
  NULL \notin Threads \cup [by : Threads, kind : Kinds] \cup Methods \cup Pointers \cup {"none"}
-----------------------------------------------------------------------------
ApiInit ==
  /\ Init
  /\ m_pCallBack = NULL
  /\ since = [t \in Threads |-> {}]
  /\ registered = FALSE
  /\ api = [t \in Threads |-> "InitVbhSdk"]
  /\ asked = [r \in Requests |-> NULL]
  /\ answers = {}
  /\ told = [r \in Requests |-> <<>>]
  /\ crashed = FALSE

Enter(t, from, to) == api[t] = from /\ api' = [api EXCEPT ![t] = to]

\* InitClientSdk returns -1 when InitVbhSdk has.
InitClientSdkFails(t) ==
  /\ ret[t] = "failed"
  /\ Enter(t, "InitVbhSdk", "failed")
  /\ UNCHANGED <<vars, m_pCallBack, since, registered, asked, answers, told, crashed>>

\* The threads whose object is or was in place.
Placed(t) == api[t] \in {"RegistDscTask", "ready"}

MutantSetCallBack(t) ==
  /\ ret[t] = "ok"
  /\ Enter(t, "InitVbhSdk", "RegistDscTask")
  /\ m_pCallBack' = IF inited THEN t ELSE m_pCallBack
  /\ since' = [u \in Threads |-> IF Placed(u) THEN since[u] \cup {t} ELSE since[u]]
  /\ UNCHANGED <<vars, registered, asked, answers, told, crashed>>

\* An object that is in place stays there.
MutantSetCallBackOnce(t) ==
  /\ ret[t] = "ok"
  /\ Enter(t, "InitVbhSdk", "RegistDscTask")
  /\ m_pCallBack' = IF m_pCallBack = NULL THEN t ELSE m_pCallBack
  /\ since' = [u \in Threads |-> IF Placed(u) THEN since[u] \cup {t} ELSE since[u]]
  /\ UNCHANGED <<vars, registered, asked, answers, told, crashed>>

SetCallBack(t) ==
  /\ ret[t] = "ok"
  /\ Enter(t, "InitVbhSdk", "RegistDscTask")
  /\ m_pCallBack' = t
  /\ since' = [u \in Threads |-> IF Placed(u) THEN since[u] \cup {t} ELSE since[u]]
  /\ UNCHANGED <<vars, registered, asked, answers, told, crashed>>

RegistDscTask(t) ==
  /\ Enter(t, "RegistDscTask", "ready")
  /\ registered' = TRUE
  /\ UNCHANGED <<vars, m_pCallBack, since, asked, answers, told, crashed>>

\* SendVbhApiMessage: 0, if the service is there to take the message. A call
\* that fails changes nothing: its arguments are missing, or the message cannot
\* be sent; the C functions for proposals also fail, or not, by the contents of
\* m_pProposal, which they test and have not written.
SendVbhApiMessage(t, r, k) ==
  /\ api[t] = "ready"
  /\ inited /\ ~exited
  /\ asked[r] = NULL
  /\ asked' = [asked EXCEPT ![r] = [by |-> t, kind |-> k]]
  /\ UNCHANGED <<vars, m_pCallBack, since, registered, api, answers, told, crashed>>

\* The service answers once.
Answered(r) == told[r] # <<>> \/ \E m \in answers : m.r = r

OnResponse(r) ==
  /\ asked[r] # NULL /\ ~Answered(r)
  /\ LET c == Call[asked[r].kind]
     IN  \E i \in AnswerIDs(c), ok \in BOOLEAN :
           /\ ok => i = c.id
           /\ answers' = answers \cup {[r |-> r, type |-> c.type, id |-> i, ok |-> ok]}
  /\ UNCHANGED <<vars, m_pCallBack, since, registered, api, asked, told, crashed>>

\* PostDscMessage.
PostDscMessage(m) ==
  /\ registered /\ ~exited /\ ~crashed
  /\ LET f == Function(m_pCallBack, m)
     IN  /\ told' = [told EXCEPT ![m.r] =
                       Append(@, [obj |-> m_pCallBack, fn |-> f, id |-> m.id,
                                  ok |-> m.ok, info |-> Info(m_pCallBack, m)])]
         /\ crashed' = (f = NULL)
  /\ answers' = answers \ {m}
  /\ UNCHANGED <<vars, m_pCallBack, since, registered, api, asked>>

InitClientSdk(t) == InitClientSdkFails(t) \/ SetCallBack(t) \/ RegistDscTask(t)

\* A thread that is ready may also end the SDK.
InitStep(t) == InitVbhSdk(t) /\ UNCHANGED apiVars
WorkStep(t) == ThreadFunction(t) /\ UNCHANGED apiVars
FnitStep(t) == api[t] = "ready" /\ FnitVbhSdk(t) /\ UNCHANGED apiVars

ApiNext ==
  \/ \E t \in Threads :
       \/ InitStep(t) \/ WorkStep(t) \/ FnitStep(t)
       \/ InitClientSdk(t)
       \/ \E r \in Requests, k \in CalledFrom(t) : SendVbhApiMessage(t, r, k)
  \/ \E r \in Requests : OnResponse(r)
  \/ \E m \in answers : PostDscMessage(m)

ApiSpec == ApiInit /\ [][ApiNext]_allVars

ApiFairSpec ==
  ApiSpec /\ \A t \in Threads : WF_allVars(InitStep(t)) /\ WF_allVars(WorkStep(t))
-----------------------------------------------------------------------------
\* An answer always finds a registered task with a callback object, the
\* assertion of PostDscMessage, however many threads initialise the SDK at the
\* same time and whether or not the framework was up when they returned.
AnswersFindCallback == answers # {} => registered /\ m_pCallBack \in Threads

\* Where the answer to a call belongs: the methods and functions of the
\* documentation of the two interfaces.
BelongsInCpp(k) ==
  CASE k = "RegistUser" -> "OnRegistUserRsp"
    [] k \in DOMAIN Transactions \ {"RegistUser"} -> "OnProposeRsp"
    [] k = "ExplorerQueryBlock" -> "OnExplorerQueryBlockRsp"
    [] k = "ExplorerQueryBlockCount" -> "OnExplorerQueryBlockCountRsp"
    [] k = "ExplorerQueryBlockTranList" -> "OnExplorerQueryBlockTransListRsp"
    [] k = "ExplorerQueryTrans" -> "OnExplorerQueryTransRsp"
    [] k \in DOMAIN Queries \cup {"ExplorerQueryUser"} -> "OnQueryRsp"

BelongsInC(k) ==
  CASE k = "RegistUser" -> "m_pOnRegistUserRsp"
    [] k = "Propose" -> "none"
    [] k = "ProposeTrade" -> "m_pOnProposeTradeRsp"
    [] k = "ProposeCreatInfoID" -> "m_pOnProposeCreatInfoIdRsp"
    [] k = "ProposeCommitInfo" -> "m_pOnProposeCommitInfoRsp"
    [] k = "ExplorerQueryBlock" -> "m_pOnExplorerQueryVbhBlockRsp"
    [] k = "ExplorerQueryBlockCount" -> "m_pOnExplorerQueryVbhBlockCountRsp"
    [] k = "ExplorerQueryBlockTranList" -> "m_pOnExplorerQueryVbhBlockTranListRsp"
    [] k = "ExplorerQueryTrans" -> NULL
    [] k \in DOMAIN Queries \cup {"ExplorerQueryUser"} -> "m_pOnQueryRsp"

Belongs(t, k) == IF t \in CThreads THEN BelongsInC(k) ELSE BelongsInCpp(k)

\* Every answer is handed on once, to the object of the thread that made the
\* call or of a thread whose InitClientSdk has put its own in place after that
\* thread did: never to one that had been replaced before the call was made. An
\* answer that carries the id of its call goes to the function it belongs to. A
\* null pointer is called only for an answer with the id of a transaction query
\* and an object of a C application. What the endorser answered to a successful
\* query is handed on, except to an object of a C application for two queries
\* that its wrapper does not decode: the application's own, and the explorer's
\* query for a user, which C has no function for, so that its answer meets such
\* an object only when that has replaced the caller's.
AnswerGoesWhereItBelongs ==
  /\ \A r \in Requests : \A i \in DOMAIN told[r] :
       LET a == told[r][i]
           by == asked[r].by
           k == asked[r].kind
       IN  /\ i = 1
           /\ a.obj \in {by} \cup since[by]
           /\ a.id = Call[k].id => a.fn = Belongs(a.obj, k)
           /\ a.fn = NULL => a.id = 5 /\ a.obj \in CThreads
           /\ a.info = "empty" => /\ a.obj \in CThreads
                                 /\ \/ k = "Query"
                                    \/ k = "ExplorerQueryUser" /\ a.obj # by
  /\ crashed <=> \E r \in Requests : \E i \in DOMAIN told[r] : told[r][i].fn = NULL

\* The comment at the end of the service's request handlers, "on failure answer
\* directly", and the return code each answer function has: a proposal made
\* through one of the C functions is answered through one of them, also when it
\* failed.
ProposalAnswered ==
  \A r \in Requests : \A i \in DOMAIN told[r] :
    (asked[r].by \in CThreads /\ Call[asked[r].kind].type = "propose") => told[r][i].fn # "none"
=============================================================================
