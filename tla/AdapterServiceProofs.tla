------------------------- MODULE AdapterServiceProofs -------------------------
(***************************************************************************)
(* Proofs about AdapterService, for any clients, requests and ids.         *)
(*                                                                         *)
(* That a request is answered to its client (AnswerReachesAsker) needs to  *)
(* know what is in the map while the request is under way. As long as it   *)
(* is the only one of its id (Alone) the address is its client's from the  *)
(* acceptance to the response (AddrHeld). The address of an id belongs to  *)
(* an open request of that id (AddrOpen), so none is left when the         *)
(* notification of such a request comes.                                   *)
(***************************************************************************)
EXTENDS AdapterService, TLAPS

\* What the stage of a call says of it.
StageFits ==
  \A r \in Requests :
    /\ stage[r] = "idle" => ret[r] = NULL /\ rsp[r] = <<>>
    /\ stage[r] = "open" => ret[r] = "OK" /\ rsp[r] = <<>>
    /\ stage[r] = "waiting" => ret[r] = "OK" /\ rsp[r] # <<>>
    /\ stage[r] \in {"idle", "open", "waiting"} => ntf[r] = <<>>

\* A request that never shared its id with another one under way is the only
\* one of its id.
Alone ==
  \A r \in Requests \ clash : \A q \in Requests :
    IsUnderWay(r) /\ IsUnderWay(q) /\ IdOf[q] = IdOf[r] => q = r

\* Its client's address is in the map while it is open.
AddrHeld ==
  up => \A r \in Requests \ clash :
          stage[r] = "open" => m_mapClientAddr[IdOf[r]] = ClientOf[r]

\* An address is the one of a client whose call is open.
AddrOpen ==
  up => \A id \in Ids : m_mapClientAddr[id] # NULL =>
          \E r \in Requests :
            IdOf[r] = id /\ stage[r] = "open" /\ ClientOf[r] = m_mapClientAddr[id]

IInv == TypeOK /\ StageFits /\ AnswerReachesAsker /\ Alone /\ AddrHeld /\ AddrOpen
-----------------------------------------------------------------------------
\* AnswerReachesAsker, request by request.
Right(r) ==
  /\ told[r] # <<>> <=> Answered(r)
  /\ Len(told[r]) <= 2
  /\ Len(told[r]) >= 1 => told[r][1] = Answer(r)
  /\ Len(told[r]) = 2 => ntf[r] # <<>> /\ told[r][2] = Notification(r)

LEMMA AllRight == AnswerReachesAsker <=> \A r \in Requests \ clash : Right(r)
  BY DEF AnswerReachesAsker, Right

LEMMA AllRightNext == AnswerReachesAsker' <=> \A r \in Requests \ clash' : Right(r)'
  BY DEF AnswerReachesAsker, Right

LEMMA SameRight ==
  ASSUME NEW r \in Requests, Right(r), told'[r] = told[r], ret'[r] = ret[r], rsp'[r] = rsp[r],
         ntf'[r] = ntf[r]
  PROVE  Right(r)'
  BY DEF Right, Answered, Answer, Notification, Msg

LEMMA IdsOfRequests == ASSUME NEW r \in Requests PROVE IdOf[r] \in Ids
  BY DEF Ids

LEMMA InitInv == Init => IInv
  <1> SUFFICES ASSUME Init PROVE IInv
    OBVIOUS
  <1>1. TypeOK
    BY ServiceAssumption DEF Init, TypeOK, Ids
  <1>2. StageFits /\ Alone /\ AddrHeld /\ AddrOpen
    BY DEF Init, StageFits, Alone, AddrHeld, AddrOpen, IsUnderWay, Ids
  <1>3. AnswerReachesAsker
    BY ServiceAssumption DEF Init, AnswerReachesAsker, Answered, Codes
  <1> QED BY <1>1, <1>2, <1>3 DEF IInv

\* What is received: a request that was idle.
LEMMA Received ==
  ASSUME IInv, NEW r \in Requests, NEW c \in Calls, Receive(r, c)
  PROVE  /\ up /\ stage[r] = "idle" /\ ret[r] = NULL /\ rsp[r] = <<>> /\ ntf[r] = <<>>
         /\ r \notin clash => told[r] = <<>>
         /\ rsp' = rsp /\ ntf' = ntf /\ req' \in [Requests -> Calls \cup {NULL}]
         /\ ClientOf[r] \in Clients /\ ClientOf[r] # NULL /\ IdOf[r] \in Ids
  <1>1. up /\ stage[r] = "idle" /\ rsp' = rsp /\ ntf' = ntf
        /\ req' = [req EXCEPT ![r] = c]
    BY DEF Receive
  <1>2. ret[r] = NULL /\ rsp[r] = <<>> /\ ntf[r] = <<>>
    BY <1>1 DEF IInv, StageFits
  <1>3. r \notin clash => told[r] = <<>>
    BY <1>2, ServiceAssumption DEF IInv, AnswerReachesAsker, Answered, Codes
  <1>4. ClientOf[r] \in Clients /\ ClientOf[r] # NULL /\ IdOf[r] \in Ids
    BY ServiceAssumption, IdsOfRequests
  <1> QED BY <1>1, <1>2, <1>3, <1>4 DEF IInv, TypeOK

\* A call that is refused is answered at once and leaves no trace.
LEMMA RefusedInv ==
  ASSUME IInv, NEW r \in Requests, NEW c \in Calls, Refused(r, c)
  PROVE  IInv'
  <1>1. /\ up /\ stage[r] = "idle" /\ ret[r] = NULL /\ rsp[r] = <<>> /\ ntf[r] = <<>>
        /\ r \notin clash => told[r] = <<>>
        /\ rsp' = rsp /\ ntf' = ntf /\ req' \in [Requests -> Calls \cup {NULL}]
        /\ ClientOf[r] \in Clients
    BY Received DEF Refused
  <1>2. PICK m : m = Msg("rsp", "ERROR", ClientOf[r])
    OBVIOUS
  <1>3. m \in Message
    BY <1>1, <1>2 DEF Msg, Message, Codes
  <1>4. /\ told' = [told EXCEPT ![r] = Append(@, m)] /\ ret' = [ret EXCEPT ![r] = "ERROR"]
        /\ stage' = [stage EXCEPT ![r] = "closed"]
        /\ UNCHANGED <<m_mapClientAddr, up, clash>>
    BY <1>2 DEF Refused, SendDscMessage
  <1>5. TypeOK'
    BY <1>1, <1>3, <1>4 DEF IInv, TypeOK
  <1>6. \A q \in Requests : /\ stage'[q] = IF q = r THEN "closed" ELSE stage[q]
                            /\ ret'[q] = IF q = r THEN "ERROR" ELSE ret[q]
                            /\ told'[q] = IF q = r THEN Append(told[r], m) ELSE told[q]
    BY <1>4 DEF IInv, TypeOK
  <1>7. StageFits' /\ Alone' /\ AddrHeld' /\ AddrOpen'
    BY <1>1, <1>4, <1>6 DEF IInv, StageFits, Alone, AddrHeld, AddrOpen, IsUnderWay
  <1>8. ASSUME NEW q \in Requests, q \notin clash
        PROVE  Right(q)'
    <2>1. Right(q)
      BY <1>8, AllRight DEF IInv
    <2>2. CASE q # r
      BY <1>1, <1>6, <2>1, <2>2, SameRight
    <2>3. CASE q = r
      <3>1. told'[r] = <<m>> /\ ret'[r] = "ERROR" /\ rsp'[r] = <<>>
        <4>1. told'[r] = Append(<<>>, m) /\ ret'[r] = "ERROR" /\ rsp'[r] = <<>>
          BY <1>1, <1>6, <1>8, <2>3
        <4> QED BY <4>1
      <3> QED BY <1>2, <2>3, <3>1 DEF Right, Answered, Answer
    <2> QED BY <2>2, <2>3
  <1> QED BY <1>4, <1>5, <1>7, <1>8, AllRightNext DEF IInv

\* An accepted call is alone, or clashes with all that are under way.
LEMMA AcceptedInv ==
  ASSUME IInv, NEW r \in Requests, NEW c \in Calls, Accepted(r, c)
  PROVE  IInv'
  <1>1. /\ up /\ stage[r] = "idle" /\ ret[r] = NULL /\ rsp[r] = <<>> /\ ntf[r] = <<>>
        /\ r \notin clash => told[r] = <<>>
        /\ rsp' = rsp /\ ntf' = ntf /\ req' \in [Requests -> Calls \cup {NULL}]
        /\ ClientOf[r] \in Clients /\ ClientOf[r] # NULL /\ IdOf[r] \in Ids
    BY Received DEF Accepted
  <1>2. /\ stage' = [stage EXCEPT ![r] = "open"] /\ ret' = [ret EXCEPT ![r] = "OK"]
        /\ m_mapClientAddr' = [m_mapClientAddr EXCEPT ![IdOf[r]] =
                                 IF @ = NULL THEN ClientOf[r] ELSE @]
        /\ clash' = IF UnderWay(IdOf[r]) = {} THEN clash
                    ELSE clash \cup UnderWay(IdOf[r]) \cup {r}
        /\ up' = up /\ told' = told
    BY DEF Accepted, InsertClientAddr
  <1>3. TypeOK'
    BY <1>1, <1>2 DEF IInv, TypeOK, UnderWay
  <1>4. /\ \A q \in Requests : /\ stage'[q] = IF q = r THEN "open" ELSE stage[q]
                               /\ ret'[q] = IF q = r THEN "OK" ELSE ret[q]
        /\ \A id \in Ids : m_mapClientAddr'[id] =
             IF id = IdOf[r] /\ m_mapClientAddr[id] = NULL THEN ClientOf[r]
             ELSE m_mapClientAddr[id]
    BY <1>2 DEF IInv, TypeOK
  <1>5. StageFits'
    BY <1>1, <1>4 DEF IInv, StageFits
  <1>6. AddrOpen'
    <2> SUFFICES ASSUME NEW id \in Ids, m_mapClientAddr'[id] # NULL
                 PROVE  \E q \in Requests : /\ IdOf[q] = id /\ stage'[q] = "open"
                                            /\ ClientOf[q] = m_mapClientAddr'[id]
      BY DEF AddrOpen
    <2>1. CASE m_mapClientAddr[id] = NULL
      BY <2>1, <1>4
    <2>2. CASE m_mapClientAddr[id] # NULL
      BY <2>2, <1>1, <1>4 DEF IInv, AddrOpen
    <2> QED BY <2>1, <2>2
  <1>7. /\ clash \subseteq clash'
        /\ r \notin clash' => UnderWay(IdOf[r]) = {}
        /\ \A q \in Requests \ clash' : IdOf[q] = IdOf[r] => q \notin UnderWay(IdOf[r])
    BY <1>2
  <1>8. Alone'
    BY <1>4, <1>7 DEF IInv, Alone, IsUnderWay, UnderWay
  <1>9. AddrHeld'
    <2> SUFFICES ASSUME NEW q \in Requests, q \notin clash', stage'[q] = "open"
                 PROVE  m_mapClientAddr'[IdOf[q]] = ClientOf[q]
      BY DEF AddrHeld
    <2>1. CASE q = r
      <3>1. m_mapClientAddr[IdOf[r]] = NULL
        BY <2>1, <1>1, <1>7 DEF IInv, AddrOpen, UnderWay, IsUnderWay
      <3> QED BY <2>1, <3>1, <1>1, <1>4
    <2>2. CASE q # r
      <3>1. stage[q] = "open" /\ IdOf[q] # IdOf[r] /\ IdOf[q] \in Ids
        BY <2>2, <1>4, <1>7, IdsOfRequests DEF UnderWay, IsUnderWay
      <3> QED BY <3>1, <1>1, <1>4, <1>7 DEF IInv, AddrHeld
    <2> QED BY <2>1, <2>2
  <1>10. ASSUME NEW q \in Requests, q \notin clash'
         PROVE  Right(q)'
    <2>1. Right(q)
      BY <1>7, <1>10, AllRight DEF IInv
    <2>2. CASE q # r
      BY <1>1, <1>2, <1>4, <2>1, <2>2, SameRight
    <2>3. CASE q = r
      <3>1. told'[r] = <<>> /\ ret'[r] = "OK" /\ rsp'[r] = <<>>
        BY <1>1, <1>2, <1>4, <1>7, <1>10, <2>3
      <3> QED BY <2>3, <3>1 DEF Right, Answered
    <2> QED BY <2>2, <2>3
  <1> QED BY <1>3, <1>5, <1>6, <1>8, <1>9, <1>10, AllRightNext DEF IInv

\* The base class ends: nothing is said any more.
LEMMA EndInv ==
  ASSUME IInv, ~up', UNCHANGED <<m_mapClientAddr, ret, rsp, ntf, told, clash>>,
         req' \in [Requests -> Calls \cup {NULL}], up' \in BOOLEAN,
         stage' \in [Requests -> {"idle", "open", "waiting", "closed"}],
         \A r \in Requests : stage'[r] \in {stage[r], "closed"}
  PROVE  IInv'
  <1>1. TypeOK'
    BY DEF IInv, TypeOK
  <1>2. StageFits' /\ Alone' /\ AddrHeld' /\ AddrOpen'
    BY DEF IInv, StageFits, Alone, AddrHeld, AddrOpen, IsUnderWay
  <1>3. \A r \in Requests \ clash' : Right(r)'
    BY AllRight, SameRight DEF IInv
  <1> QED BY <1>1, <1>2, <1>3, AllRightNext DEF IInv

\* What the two kinds of callback do to the stage and to the map.
Called(type, r, code) ==
  /\ up /\ UNCHANGED <<up, req, ret, clash>>
  /\ Deliver(type, r, code)
  /\ code \in Codes
  /\ \/ /\ type = "rsp" /\ stage[r] = "open" /\ ntf' = ntf
        /\ \E s \in {"waiting", "closed"} : stage' = [stage EXCEPT ![r] = s]
        /\ rsp' = [rsp EXCEPT ![r] = Append(@, code)]
     \/ /\ type = "notify" /\ stage[r] = "waiting" /\ rsp' = rsp
        /\ stage' = [stage EXCEPT ![r] = "closed"]
        /\ ntf' = [ntf EXCEPT ![r] = Append(@, code)]

\* A callback pops the address of its request, which is its client's if the
\* request was alone and open, and gone if it was alone and waiting.
LEMMA CalledInv ==
  ASSUME IInv, NEW r \in Requests, NEW type, NEW code, Called(type, r, code)
  PROVE  IInv'
  <1> DEFINE addr == m_mapClientAddr[IdOf[r]]
             m == Msg(type, code, addr)
  <1>1. /\ up /\ UNCHANGED <<up, req, ret, clash>> /\ code \in Codes
        /\ type \in {"rsp", "notify"} /\ stage[r] = IF type = "rsp" THEN "open" ELSE "waiting"
    BY DEF Called
  <1>2. PICK s \in {"waiting", "closed"} :
          stage' = [stage EXCEPT ![r] = s] /\ (type = "notify" => s = "closed")
    BY <1>1 DEF Called
  <1>3. /\ \A q \in Requests : stage'[q] = IF q = r THEN s ELSE stage[q]
        /\ \A id \in Ids : m_mapClientAddr'[id] =
             IF id = IdOf[r] THEN NULL ELSE m_mapClientAddr[id]
        /\ IsUnderWay(r) /\ IdOf[r] \in Ids
    BY <1>1, <1>2, IdsOfRequests DEF Called, Deliver, PopClientAddr, IInv, TypeOK, IsUnderWay
  <1>4. /\ \A q \in Requests : rsp'[q] = IF q = r /\ type = "rsp" THEN Append(rsp[r], code)
                                         ELSE rsp[q]
        /\ \A q \in Requests : ntf'[q] = IF q = r /\ type = "notify" THEN Append(ntf[r], code)
                                         ELSE ntf[q]
        /\ rsp' \in [Requests -> Seq(Codes)] /\ ntf' \in [Requests -> Seq(Codes)]
    <2>1. rsp \in [Requests -> Seq(Codes)] /\ ntf \in [Requests -> Seq(Codes)]
      BY DEF IInv, TypeOK
    <2>2. CASE type = "rsp"
      <3>1. rsp' = [rsp EXCEPT ![r] = Append(@, code)] /\ ntf' = ntf
        BY <2>2 DEF Called
      <3> QED BY <1>1, <2>1, <2>2, <3>1
    <2>3. CASE type = "notify"
      <3>1. ntf' = [ntf EXCEPT ![r] = Append(@, code)] /\ rsp' = rsp
        BY <2>3 DEF Called
      <3> QED BY <1>1, <2>1, <2>3, <3>1
    <2> QED BY <1>1, <2>2, <2>3
  <1>5. /\ addr = NULL => told' = told
        /\ addr # NULL => m \in Message /\ told' = [told EXCEPT ![r] = Append(told[r], m)]
    <2>1. addr # NULL => addr \in Clients
      BY <1>3 DEF IInv, TypeOK
    <2> QED BY <1>1, <2>1 DEF Called, Deliver, SendDscMessage, Msg, Message
  <1>6. /\ told' \in [Requests -> Seq(Message)]
        /\ \A q \in Requests : q # r => told'[q] = told[q]
        /\ addr # NULL => told'[r] = Append(told[r], m)
    <2> HIDE DEF addr, m
    <2>1. told \in [Requests -> Seq(Message)]
      BY DEF IInv, TypeOK
    <2> QED BY <1>5, <2>1
  <1> HIDE DEF m
  <1>7. TypeOK'
    <2>1. m_mapClientAddr' \in [Ids -> Clients \cup {NULL}]
      BY <1>3 DEF Called, Deliver, PopClientAddr, IInv, TypeOK
    <2> QED BY <1>1, <1>2, <1>4, <1>6, <2>1 DEF IInv, TypeOK
  <1>8. StageFits'
    <2>1. ret'[r] = "OK" /\ (s = "waiting" => type = "rsp")
      BY <1>1, <1>2 DEF IInv, StageFits
    <2>2. s = "waiting" => rsp'[r] # <<>> /\ ntf'[r] = <<>>
      <3>1. rsp[r] \in Seq(Codes) /\ ntf[r] = <<>>
        BY <1>1 DEF IInv, TypeOK, StageFits
      <3> QED BY <1>4, <2>1, <3>1
    <2>3. ASSUME NEW q \in Requests, q # r
          PROVE  /\ stage'[q] = stage[q] /\ rsp'[q] = rsp[q]
                 /\ ntf'[q] = ntf[q] /\ ret'[q] = ret[q]
      BY <1>1, <1>3, <1>4, <2>3
    <2>4. stage'[r] = s
      BY <1>3
    <2> QED BY <2>1, <2>2, <2>3, <2>4 DEF IInv, StageFits
  <1>9. Alone'
    BY <1>1, <1>3 DEF IInv, Alone, IsUnderWay
  <1>10. AddrOpen'
    <2> SUFFICES ASSUME NEW id \in Ids, m_mapClientAddr'[id] # NULL
                 PROVE  \E q \in Requests : /\ IdOf[q] = id /\ stage'[q] = "open"
                                            /\ ClientOf[q] = m_mapClientAddr'[id]
      BY DEF AddrOpen
    <2>1. id # IdOf[r] /\ m_mapClientAddr'[id] = m_mapClientAddr[id]
      BY <1>3
    <2>2. PICK q \in Requests :
            IdOf[q] = id /\ stage[q] = "open" /\ ClientOf[q] = m_mapClientAddr[id]
      BY <1>1, <2>1 DEF IInv, AddrOpen
    <2> QED BY <2>1, <2>2, <1>3
  <1>11. AddrHeld'
    <2> SUFFICES ASSUME NEW q \in Requests, q \notin clash, stage'[q] = "open"
                 PROVE  m_mapClientAddr'[IdOf[q]] = ClientOf[q]
      BY <1>1 DEF AddrHeld
    <2>1. q # r /\ stage[q] = "open"
      BY <1>3
    <2>2. IdOf[q] # IdOf[r] /\ IdOf[q] \in Ids
      BY <2>1, <1>3, IdsOfRequests DEF IInv, Alone, IsUnderWay
    <2> QED BY <2>1, <2>2, <1>1, <1>3 DEF IInv, AddrHeld
  <1>12. ASSUME r \notin clash
         PROVE  Right(r)'
    <2>1. Right(r)
      BY <1>12, AllRight DEF IInv
    <2>2. CASE type = "rsp"
      <3>1. addr = ClientOf[r] /\ addr # NULL
        BY <1>1, <1>12, <2>2, ServiceAssumption DEF IInv, AddrHeld
      <3>2. told[r] = <<>> /\ rsp[r] = <<>>
        BY <1>1, <2>1, <2>2, ServiceAssumption DEF IInv, StageFits, Right, Answered
      <3>3. told'[r] = <<m>> /\ rsp'[r] = <<code>>
        BY <1>4, <1>6, <2>2, <3>1, <3>2
      <3>4. m = Msg("rsp", code, ClientOf[r])
        BY <2>2, <3>1 DEF m
      <3> QED BY <3>3, <3>4 DEF Right, Answered, Answer
    <2>3. CASE type = "notify"
      <3>1. addr = NULL
        <4> SUFFICES ASSUME addr # NULL PROVE FALSE
          OBVIOUS
        <4>1. PICK q \in Requests : IdOf[q] = IdOf[r] /\ stage[q] = "open"
          BY <1>1, <1>3 DEF IInv, AddrOpen
        <4>2. q = r
          BY <4>1, <1>3, <1>12 DEF IInv, Alone, IsUnderWay
        <4> QED BY <1>1, <2>3, <4>1, <4>2
      <3>2. told'[r] = told[r] /\ rsp'[r] = rsp[r] /\ ret'[r] = ret[r]
        BY <1>1, <1>4, <1>5, <2>3, <3>1
      <3>3. ntf[r] = <<>>
        BY <1>1, <2>3 DEF IInv, StageFits
      <3>4. told[r] \in Seq(Message)
        BY DEF IInv, TypeOK
      <3> QED BY <2>1, <3>2, <3>3, <3>4 DEF Right, Answered, Answer, Msg
    <2> QED BY <1>1, <2>2, <2>3
  <1>13. ASSUME NEW q \in Requests, q \notin clash, q # r
         PROVE  Right(q)'
    <2>1. Right(q)
      BY <1>13, AllRight DEF IInv
    <2> QED BY <1>1, <1>4, <1>6, <1>13, <2>1, SameRight
  <1> QED BY <1>1, <1>7, <1>8, <1>9, <1>10, <1>11, <1>12, <1>13, AllRightNext DEF IInv

LEMMA NextCases ==
  Next => \/ Ends
          \/ \E r \in Requests : \/ \E c \in Calls : OnDscMsg(r, c)
                                 \/ \E code \in Codes, kind \in TxKinds \cup QueryKinds :
                                      OnResponse(kind, r, code) \/ OnResultNotify(kind, r, code)
  BY DEF Next, RegistUserReq, CreateInformationReq, ProposeReq, QueryUserInfoReq,
         QueryTransInfoReq, Responds, Notifies, OnRegistUserResponse,
         OnCreateInformationRespondse, OnProposeResponse, OnQueryUserInfoResponse,
         OnQueryTransactionInfoResponse, OnRegistUserResultNotify,
         OnCreateInformationResultNotify, OnProposeResultNotify, TxKinds, QueryKinds

LEMMA NextInv == IInv /\ [Next]_vars => IInv'
  <1> SUFFICES ASSUME IInv, [Next]_vars PROVE IInv'
    OBVIOUS
  <1>1. CASE UNCHANGED vars
    <2>1. TypeOK' /\ StageFits' /\ Alone' /\ AddrHeld' /\ AddrOpen'
      BY <1>1 DEF IInv, vars, TypeOK, StageFits, Alone, AddrHeld, AddrOpen, IsUnderWay
    <2>2. \A r \in Requests \ clash' : Right(r)'
      BY <1>1, AllRight, SameRight DEF IInv, vars
    <2> QED BY <2>1, <2>2, AllRightNext DEF IInv
  <1>2. ASSUME NEW r \in Requests, NEW c \in Calls, OnDscMsg(r, c)
        PROVE  IInv'
    <2>1. CASE Vanished(r, c)
      <3>1. /\ req' \in [Requests -> Calls \cup {NULL}] /\ rsp' = rsp /\ ntf' = ntf
        BY <2>1, Received DEF Vanished
      <3>2. /\ stage' = [stage EXCEPT ![r] = "closed"] /\ up' = FALSE
            /\ UNCHANGED <<m_mapClientAddr, ret, told, clash>>
        BY <2>1 DEF Vanished
      <3> QED BY <3>1, <3>2, EndInv DEF IInv, TypeOK
    <2> QED BY <1>2, <2>1, RefusedInv, AcceptedInv DEF OnDscMsg
  <1>3. ASSUME NEW r \in Requests, NEW code \in Codes, NEW kind,
               OnResponse(kind, r, code) \/ OnResultNotify(kind, r, code)
        PROVE  IInv'
    <2>1. Called("rsp", r, code) \/ Called("notify", r, code)
      BY <1>3 DEF OnResponse, OnResultNotify, Called
    <2> QED BY <2>1, CalledInv
  <1>4. CASE Ends
    <2>1. PICK dropped : stage' = [r \in Requests |-> IF r \in dropped THEN "closed" ELSE stage[r]]
      BY <1>4 DEF Ends
    <2> QED BY <1>4, <2>1, EndInv DEF Ends, IInv, TypeOK
  <1> QED BY <1>1, <1>2, <1>3, <1>4, NextCases
-----------------------------------------------------------------------------
\* The inductive invariant, for any clients, requests and ids.
THEOREM Invariance == Spec => []IInv
  BY InitInv, NextInv, PTL DEF Spec

\* The types of the variables, and no message to a null address.
THEOREM TypeCorrect == Spec => []TypeOK
  <1>1. IInv => TypeOK
    BY DEF IInv
  <1> QED BY <1>1, Invariance, PTL

\* While the service runs, an address is in the map only as long as a call of
\* that client with that id is under way.
THEOREM AddressesFresh == Spec => []NoStaleAddress
  <1>1. IInv => NoStaleAddress
    BY DEF IInv, AddrOpen, NoStaleAddress, UnderWay, IsUnderWay
  <1> QED BY <1>1, Invariance, PTL

\* A request that was alone with its id is answered once, to its client, as
\* soon as the base class has refused or answered it.
THEOREM AnswersReachAskers == Spec => []AnswerReachesAsker
  <1>1. IInv => AnswerReachesAsker
    BY DEF IInv
  <1> QED BY <1>1, Invariance, PTL
=============================================================================
