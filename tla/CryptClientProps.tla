--------------------------- MODULE CryptClientProps ---------------------------
(***************************************************************************)
(* What must hold of CryptClient.                                          *)
(***************************************************************************)
EXTENDS CryptClient

\* The types of the variables: those of the service, and those of its
\* surroundings and of the history.
ServiceTypeOK ==
  /\ conn \in SUBSET Handlers
  /\ arrSession \in [Handlers -> SUBSET SessionIDs]
  /\ session \in [SessionIDs -> Session]
  /\ map \in [Kinds -> SUBSET SessionIDs]
  /\ timer \in SUBSET SessionIDs
  /\ m_nSessionID \in 0 .. MaxSessionID
  /\ running \in BOOLEAN

OutsideTypeOK ==
  /\ net \in SUBSET Message
  /\ req \in [Requests -> Kinds \cup {NULL}]
  /\ rsp \in [Requests -> Seq(Codes)]
  /\ picked \in [Requests -> SUBSET Handlers]
  /\ votes \in [Requests -> SUBSET (Handlers \X Contents)]
  /\ submits \in [Requests -> Nat]
  /\ committed \in SUBSET Requests

TypeOK == ServiceTypeOK /\ OutsideTypeOK

\* Session pointers are kept in three places, a map, the timer service and
\* the array of a handler, and none of them may name a deleted session: a
\* message, a timer or a broken connection would otherwise use freed memory.
\* A session's own pointer to its handler must name a live connection.
NoDanglingPointer ==
  running =>
    /\ \A k \in Kinds : map[k] \subseteq Live
    /\ timer \subseteq Live
    /\ \A h \in Handlers : arrSession[h] \subseteq Live
    /\ \A id \in Live : session[id].handler \in conn

\* The converse: every session can still be reached from the map of its
\* kind (an answer finds it), from its handler (a broken connection ends it)
\* and from a timer (silence ends it), and from no other map or handler.
SessionReachable ==
  running =>
    \A id \in Live :
      /\ id \in timer
      /\ \A k \in Kinds : id \in map[k] <=> k = session[id].kind
      /\ \A h \in Handlers : id \in arrSession[h] <=> h = session[id].handler

\* No timer survives OnExit: every session whose timer is armed is found in
\* the maps that OnExit walks.
ExitStopsTimers == ~running => timer = {} /\ Live = {}

\* Every transaction request the application sent has either exactly one
\* session and no answer, or exactly one answer and no session: an answer, a
\* timeout, a broken connection and a failed send never both answer and never
\* leave the application without one. A query has at most one of the two.
Sessions(r) == {id \in Live : session[id].src = r}

OneAnswer ==
  /\ \A r \in Requests : Len(rsp[r]) <= 1
  /\ \A id \in Live : rsp[session[id].src] = <<>>
  /\ \A i, j \in Live : session[i].src = session[j].src => i = j
  /\ running => \A r \in Requests : req[r] \in {"regist", "propose"} =>
                                     rsp[r] # <<>> \/ Sessions(r) # {}

\* A message is only ever taken for the session of the request it was sent
\* for: an answer to a request that timed out, or whose sending failed half
\* way, finds no session instead of somebody else's.
NoCrossTalk ==
  \A m \in net :
    (running /\ m.type # "adrift" /\ m.id \in map[m.kind]) => session[m.id].src = m.src

\* A submission carries the agreement of all EndorseCount picked endorsers:
\* each of them accepted, no two of them with different contents (an empty
\* content, which the code takes for no content, aside), it goes to one of
\* them, it names the session that very endorser opened, and it is sent once.
Voters(r) == {v[1] : v \in votes[r]}

EndorsedContents(r) == {v[2] : v \in votes[r]} \ {Empty}

SubmitFullyEndorsed ==
  /\ \A r \in Requests :
       /\ submits[r] <= 1
       /\ submits[r] = 1 => /\ Voters(r) = picked[r]
                            /\ Cardinality(Voters(r)) = EndorseCount
                            /\ Cardinality(EndorsedContents(r)) <= 1
  /\ \A m \in net : m.type = "submit" => m.es = m.h /\ m.h \in picked[m.src]

\* As long as an endorser that was asked has not answered, the count of a
\* session is below the number that lets it submit (the regist handler would
\* submit on a mismatch otherwise).
PendingBelowCount ==
  \A m \in net :
    (running /\ m.type = "endorse" /\ m.id \in map[m.kind]) => session[m.id].succ < EndorseCount

\* The answers that say what became of a transaction tell the truth, now and
\* later: OK only when the chosen endorser executed it, and never executed
\* after the application heard that an endorser refused it, that the
\* endorsements differ or that the submission could not be encrypted.
Refusals == {"SERVER", "SYSTEM", "ENCRYPT"}

AnswerTruthful ==
  \A r \in Requests :
    (rsp[r] # <<>> /\ req[r] # "query") =>
      /\ rsp[r][1] = "OK" => r \in committed
      /\ rsp[r][1] \in Refusals => r \notin committed

\* Once the application has an answer, nothing of its transaction is sent to
\* an endorser any more.
NoSubmitAfterAnswer ==
  [][\A r \in Requests : submits'[r] # submits[r] => rsp'[r] = <<>>]_vars

\* Every transaction request is eventually answered, however silent the
\* endorsers are, unless the service stops: the timer of each phase ends it.
EventuallyAnswered ==
  \A r \in Requests :
    (req[r] \in {"regist", "propose"}) ~> (rsp[r] # <<>> \/ ~running)

\* The comment at the end of the query handler: "failed, answer from the
\* request". Every query is eventually answered, as transactions are.
QueryEventuallyAnswered ==
  \A r \in Requests : (req[r] = "query") ~> (rsp[r] # <<>> \/ ~running)

\* The comments of the endorsement handlers: the first answer is stored, the
\* N-th (N > 1) must be equal to it. What is submitted was endorsed with one
\* content.
SubmitOneContent ==
  \A r \in Requests : submits[r] = 1 => Cardinality({v[2] : v \in votes[r]}) = 1
-----------------------------------------------------------------------------
(* The inductive invariant behind the first properties. *)

\* A session stands for a request and hangs on a handler.
SessionsOwned ==
  \A id \in SessionIDs : session[id].kind # "free" =>
    /\ session[id].src \in Requests
    /\ session[id].handler \in Handlers
    /\ running => session[id].handler \in conn

\* The timers, the maps and the arrays say the same as the sessions.
Linked ==
  running =>
    \A id \in SessionIDs :
      /\ id \in timer <=> session[id].kind # "free"
      /\ \A k \in Kinds : id \in map[k] <=> session[id].kind = k
      /\ \A h \in Handlers :
           id \in arrSession[h] <=> (session[id].kind # "free" /\ session[id].handler = h)

\* How many ids ago an id was the last one given out.
Age(id) == IF id <= m_nSessionID THEN m_nSessionID - id
           ELSE m_nSessionID - id + MaxSessionID

Sent == {r \in Requests : req[r] # NULL}

InUse(id) == session[id].kind # "free" \/ \E m \in net : m.id = id

\* Every id in use was given out for one of the requests sent: since there
\* are fewer requests than ids, the next id is not in use.
IdsFresh == \A id \in SessionIDs : InUse(id) => Age(id) < Cardinality(Sent)

\* A message that meets a session was sent for the same request.
OwnMessages ==
  \A m \in net : session[m.id].kind # "free" => session[m.id].src = m.src

\* What is not sent yet is not answered, and nothing stands for it.
UnsentUntouched ==
  \A r \in Requests : req[r] = NULL =>
    /\ rsp[r] = <<>>
    /\ \A id \in SessionIDs : session[id].kind # "free" => session[id].src # r

\* The inductive invariant: it implies TypeOK, NoDanglingPointer,
\* SessionReachable, ExitStopsTimers, OneAnswer and NoCrossTalk.
IInv ==
  /\ TypeOK
  /\ SessionsOwned
  /\ Linked
  /\ ExitStopsTimers
  /\ IdsFresh
  /\ OwnMessages
  /\ UnsentUntouched
  /\ OneAnswer
-----------------------------------------------------------------------------
(* The inductive invariant behind the properties about endorsements,       *)
(* submissions and the fate of a transaction.                              *)

\* A message and a session are of the kind of their request, and only the
\* messages of queries are queries.
KindsFit ==
  /\ \A m \in net : /\ m.kind = req[m.src]
                    /\ m.type = "query" <=> m.kind = "query"
  /\ \A id \in Live : session[id].kind = req[session[id].src]

\* What is not sent yet has no history, and a query is never submitted.
NoHistory ==
  \A r \in Requests :
    /\ req[r] = NULL => picked[r] = {} /\ votes[r] = {} /\ submits[r] = 0
    /\ req[r] = "query" => submits[r] = 0

Endorses(r) == {m \in net : m.type = "endorse" /\ m.src = r}

\* The session of a transaction counts the endorsers that have accepted, all
\* of them picked and none of them twice: whoever has accepted has no message
\* left. The session knows the chosen endorser's session once that endorser
\* has accepted, it stores the only content, and it has submitted exactly if
\* nobody is missing.
CountsVotes(id) ==
  LET s == session[id]
      r == s.src
  IN  /\ s.handler \in picked[r]
      /\ Cardinality(picked[r]) = EndorseCount
      /\ Voters(r) \subseteq picked[r]
      /\ s.succ = Cardinality(Voters(r))
      /\ s.handler \in Voters(r) => s.es = s.handler
      /\ \A v \in votes[r] : v[2] \in {s.info, Empty}
      /\ \A m \in Endorses(r) : /\ m = Msg("endorse", s.kind, m.h, id, r, NULL)
                                /\ m.h \in picked[r] \ Voters(r)
      /\ submits[r] = IF s.succ < EndorseCount THEN 0 ELSE 1

VotesCounted == \A id \in Live : session[id].kind # "query" => CountsVotes(id)

FullyEndorsed(r) ==
  /\ Voters(r) = picked[r] /\ Cardinality(picked[r]) = EndorseCount
  /\ \E c \in Contents \cup {Empty} : \A v \in votes[r] : v[2] \in {c, Empty}

SubmitsEndorsed ==
  \A r \in Requests : submits[r] \in {0, 1} /\ (submits[r] = 1 => FullyEndorsed(r))

\* A submission is on its way, executed or refused, and only one of them.
LateTypes == {"submit", "adrift", "committed", "refused"}
Lates == {m \in net : m.type \in LateTypes}

OneFate ==
  /\ \A m \in Lates : /\ submits[m.src] = 1
                      /\ m.es = m.h /\ m.h \in picked[m.src]
                      /\ m.type = "committed" <=> m.src \in committed
  /\ \A m, n \in Lates : m.src = n.src => m = n
  /\ \A r \in committed : submits[r] = 1

\* A transaction is settled when nothing that could still execute it is on
\* its way, and it has not been executed.
Settled(r) ==
  /\ r \notin committed
  /\ \A m \in net : m.src = r => m.type \notin {"submit", "adrift"}

FateTold ==
  \A r \in Requests : (rsp[r] # <<>> /\ req[r] # "query") =>
    /\ rsp[r][1] = "OK" => r \in committed
    /\ rsp[r][1] \in Refusals => Settled(r)

\* It implies SubmitFullyEndorsed, PendingBelowCount and AnswerTruthful.
EndorseInv ==
  IInv /\ KindsFit /\ NoHistory /\ VotesCounted /\ SubmitsEndorsed
       /\ OneFate /\ FateTold
-----------------------------------------------------------------------------
\* The service implements the life cycle of RequestLifecycle: a request is
\* open while a session stands for it.
phase ==
  [r \in Requests |->
     IF req[r] = NULL THEN "idle"
     ELSE IF Sessions(r) # {} THEN "open" ELSE "closed"]

Lifecycle == INSTANCE RequestLifecycle WITH
               kind <- req, answers <- rsp, executed <- committed,
               submitted <- {r \in Requests : submits[r] > 0},
               Queries <- {"query"}

ImplementsLifecycle == Lifecycle!Spec
=============================================================================
