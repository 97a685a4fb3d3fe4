------------------------------- MODULE MCAdapter -------------------------------
(***************************************************************************)
(* One instance for TLC of the adapter's two halves, each by itself:       *)
(*   "service"  the plugin (AdapterService), over any base class that      *)
(*              keeps NotifyLifecycle;                                     *)
(*   "single"   the base class (AdapterBase) with one endorser to ask;     *)
(*   "both"     the base class with two endorsers to ask, for one call.    *)
(* Which part a behaviour belongs to is chosen at the start, and only its  *)
(* variables move, so that the state space is the sum of the three.        *)
(***************************************************************************)
EXTENDS MCAdapterService

CONSTANTS Handlers, h1, h2, Empty, a

VARIABLES
  part,                                          \* the one that moves
  conn, arrSession, session, map, timer, m_nSessionID, service, net,
  called, returned, responses, notified,         \* req, ret, rsp, ntf of AdapterBase
  picked, votes, submits, accepted

baseVars == <<conn, arrSession, session, map, timer, m_nSessionID, service, net, called,
              returned, responses, notified, picked, votes, submits, accepted>>

\* With three ids, starting at the last, the ids wrap.
Single == INSTANCE AdapterBaseProps WITH
  Peers <- Handlers, PeerOf <- [h \in Handlers |-> h], EndorseCount <- 1,
  TxKinds <- {"regist", "info"}, Requests <- {r1, r2},
  Calls <- [kind : {"info"}, wait : BOOLEAN] \cup [kind : {"queryUser"}, wait : {FALSE}],
  Contents <- {a}, MaxSessionID <- 2, StartID <- 2,
  req <- called, ret <- returned, rsp <- responses, ntf <- notified

Both == INSTANCE AdapterBaseProps WITH
  Peers <- Handlers, PeerOf <- [h \in Handlers |-> h], EndorseCount <- 2,
  TxKinds <- {"regist", "info"}, Requests <- {r1, r2},
  Calls <- [kind : {"regist"}, wait : BOOLEAN] \cup [kind : {"queryTrans"}, wait : {FALSE}],
  Contents <- {a}, MaxSessionID <- 2, StartID <- 2,
  req <- called, ret <- returned, rsp <- responses, ntf <- notified

MCInit == part \in {"service", "single", "both"} /\ Init /\ Single!Init

\* Bound: the plugin's first request is of any kind, the others of two.
KindBound ==
  \A r \in Requests \ {r1} :
    req'[r] # NULL => req'[r].kind \in {"propose", "queryTrans"}

\* Bound: one call in the part "both".
MCNext ==
  /\ \/ part = "service" /\ Next /\ KindBound /\ UNCHANGED baseVars
     \/ part = "single" /\ Single!Next /\ UNCHANGED vars
     \/ part = "both" /\ Both!Next /\ called'[r2] = NULL /\ UNCHANGED vars
  /\ UNCHANGED part

OnTimeOut(slot) ==
  \/ part = "single" /\ Single!OnTimeOut(slot)
  \/ part = "both" /\ Both!OnTimeOut(slot)

\* Nothing is under way in the plugin, and no timer armed, in another part.
MCSpec ==
  /\ MCInit /\ [][MCNext]_<<part, vars, baseVars>>
  /\ Fairness
  /\ \A slot \in Single!Slots : WF_baseVars(OnTimeOut(slot))

\* With one endorser to ask, the array of each connection holds exactly the
\* sessions that hang on it (AloneExact of AdapterBaseProps).
AloneExact == part = "single" => Single!AloneExact

\* Every accepted call gets its response and every wait its notification, with
\* one endorser to ask and with two, unless the base class ends: the timer of
\* the session is armed in every phase (EventuallyAnswered of AdapterBaseProps,
\* which is the same formula in both parts).
CallsAnswered == Single!EventuallyAnswered
=============================================================================
