--------------------------- MODULE AdapterBaseProps ---------------------------
(***************************************************************************)
(* What must hold of AdapterBase, up to the first use of freed memory:     *)
(* with service "undefined" the model ends.                                *)
(***************************************************************************)
EXTENDS AdapterBase

\* The codes of the callbacks.
Codes == {"OK", "SERVER", "NETWORK", "SYSTEM", "TIMEOUT"}

\* The types of the variables.
TypeOK ==
  /\ conn \in SUBSET Handlers
  /\ arrSession \in [Handlers -> SUBSET (Slots \cup {NULL})]
  /\ session \in [Slots -> Session]
  /\ map \in [Kinds -> SUBSET Slots]
  /\ timer \in SUBSET Slots
  /\ m_nSessionID \in SessionIDs
  /\ service \in {"running", "exited", "crashed", "undefined"}
  /\ net \in SUBSET Message
  /\ req \in [Requests -> Calls \cup {NULL}]
  /\ ret \in [Requests -> {NULL, "OK", "NETWORK", "DECODE"}]
  /\ rsp \in [Requests -> Seq(Codes)]
  /\ ntf \in [Requests -> Seq(Codes)]
  /\ accepted \in SUBSET Requests

\* No map and no timer names a deleted session, and the timer of every session
\* is armed: also of one that has left its map (a refused submission), and of
\* one that no connection's array leads to any more because another session
\* was erased there in its place. So whatever happens, something ends it.
TimersExact ==
  running => timer = Live /\ \A k \in Kinds : map[k] \subseteq Live

\* With one endorser to ask, the index of a session is the right one: the
\* array of each connection holds exactly the sessions that hang on it, none
\* of them deleted, and no session hangs on a connection that is gone. A
\* timeout, a late answer, a broken connection, a failed send and the change
\* from the session of the request to the one of the notification each undo
\* and make these links on both sides.
AloneExact ==
  (running /\ EndorseCount = 1) =>
    /\ \A h \in Handlers : arrSession[h] = {slot \in Live : h \in session[slot].hs}
    /\ \A slot \in Live :
         session[slot].hs = {session[slot].submit} /\ session[slot].hs \subseteq conn

\* The transaction an endorser refused: its session is in no map any more.
Refused == {slot \in Live : slot \notin map[session[slot].kind]}

\* Every session is in the map of its kind and in no other, where an answer
\* and OnExit find it, except the ones whose submission was refused: so a
\* timer that is still armed after OnExit is one of those.
OnlyRefusedUnmapped ==
  /\ running =>
       /\ \A slot \in Live : \A k \in Kinds : slot \in map[k] => k = session[slot].kind
       /\ \A slot \in Refused : slot[2] = "request" /\ submits[session[slot].src] > 0
  /\ service = "exited" => timer = Refused

\* The sessions that stand for a request, and for the notification it waits for.
RequestSessions(r) == {slot \in Live : slot[2] = "request" /\ session[slot].src = r}
NotifySessions(r) == {slot \in Live : slot[2] = "notify" /\ session[slot].src = r}

\* A message is taken for the session of another request only if its own
\* request failed half sent: only then is an id used twice.
Stale(r) == ret[r] = "NETWORK"

NoCrossTalk ==
  \A m \in net :
    (running /\ Found(m)) => session[Slot(m)].src = m.src \/ Stale(m.src)

\* Unless such an answer was counted, a submission carries one accepting
\* answer of every endorser asked, all with one content (an empty one, which
\* counts as none, aside), goes to one of them, names the transaction that
\* endorser opened for it, and is sent once.
Mixed(r) == \E v \in votes[r] : v[3] # r

SubmitFullyEndorsed ==
  \A r \in Requests : ~Mixed(r) =>
    /\ submits[r] <= 1
    /\ submits[r] = 1 => /\ {v[1] : v \in votes[r]} = picked[r]
                         /\ Cardinality(picked[r]) = EndorseCount
                         /\ Cardinality({v[2] : v \in votes[r]} \ {Empty}) <= 1
    /\ \A m \in net : (m.type = "submit" /\ m.src = r) =>
                         m.es = [h |-> m.h, src |-> r] /\ m.h \in picked[r]

\* Unless such an answer was counted, OK is said of a transaction an endorser
\* accepted. A notification says the same.
OkTruthful ==
  \A r \in Requests :
    (rsp[r] = <<"OK">> /\ req[r].kind \in TxKinds /\ ~Mixed(r)) => r \in accepted

\* Once a request has its response, nothing of it is submitted.
NoSubmitAfterResponse ==
  [][\A r \in Requests : submits'[r] # submits[r] => rsp[r] = <<>>]_vars

\* Every accepted request gets its response and every request that waits for
\* a notification gets one, whatever the endorsers do and even if they refuse
\* the submission, unless the service stops or has used freed memory: a timer
\* runs in every phase.
EventuallyAnswered ==
  \A r \in Requests :
    /\ (ret[r] = "OK") ~> (rsp[r] # <<>> \/ ~running)
    /\ (rsp[r] = <<"OK">> /\ req[r].wait) ~> (ntf[r] # <<>> \/ ~running)
-----------------------------------------------------------------------------
(* The inductive invariant behind the safety properties. *)

\* What a session knows of its call: it has been accepted, and is not answered
\* as long as the session of the request is there.
SessionsOwned ==
  \A slot \in Live :
    LET s == session[slot]
    IN  /\ s.src \in Requests
        /\ ret[s.src] = "OK" /\ req[s.src] # NULL /\ req[s.src].kind = s.kind
        /\ slot[2] = "request" => rsp[s.src] = <<>> /\ s.wait = req[s.src].wait

\* One session at most stands for a request, and one at most has an id.
OneSession ==
  \A i, j \in Live : i[1] = j[1] \/ session[i].src = session[j].src => i = j

\* The messages that follow a submission.
Late == {"submit", "accepted", "refused", "notify"}

MessagesFit ==
  \A m \in net : /\ m.type \in Late => ret[m.src] = "OK" /\ submits[m.src] > 0
                 /\ m.type = "query" => m.kind \in QueryKinds

UnsentUntouched ==
  \A r \in Requests : req[r] = NULL => ret[r] = NULL /\ rsp[r] = <<>>

\* How many calls ago an id was given out; the next one has the age 0.
Age(id) == IF id <= m_nSessionID THEN m_nSessionID - id
           ELSE m_nSessionID - id + MaxSessionID + 1

Taken == {r \in Requests : ret[r] = "OK"}

\* An id is in use by a session or by a message of an accepted call. Each was
\* given out for one of the accepted calls, of which there are fewer than ids:
\* so the next id is not in use.
InUse(id) == \/ \E slot \in Live : slot[1] = id
             \/ \E m \in net : m.id = id /\ ~Stale(m.src)

IdsFresh == \A id \in SessionIDs : InUse(id) => Age(id) \in 1 .. Cardinality(Taken)

\* NoCrossTalk, also of sessions that are in no map.
OwnMessages ==
  \A m \in net, slot \in Live :
    slot[1] = m.id => session[slot].src = m.src \/ Stale(m.src)

\* An array leads to sessions, or to freed memory.
ArraysLead == running => \A h \in Handlers : arrSession[h] \subseteq Live \cup {NULL}

IInv ==
  /\ TypeOK /\ submits \in [Requests -> Nat]
  /\ TimersExact /\ ArraysLead /\ OnlyRefusedUnmapped
  /\ SessionsOwned /\ OneSession /\ MessagesFit /\ UnsentUntouched
  /\ IdsFresh /\ OwnMessages
-----------------------------------------------------------------------------
(* The inductive invariant behind the properties about endorsements and    *)
(* what the application is told of its transaction.                        *)

HistoryTypeOK ==
  /\ picked \in [Requests -> SUBSET Handlers]
  /\ votes \in [Requests -> SUBSET (Handlers \X Contents \X Requests)]

\* A message is of a call that was made; endorsements are for transactions.
KindsFit ==
  \A m \in net : req[m.src] # NULL /\ (m.type = "endorse" => m.kind \in TxKinds)

\* What is not called yet has no history.
NoHistory ==
  \A r \in Requests : req[r] = NULL => picked[r] = {} /\ votes[r] = {} /\ submits[r] = 0

Voters(r) == {v[1] : v \in votes[r]}

Endorses(r) == {m \in net : m.type = "endorse" /\ m.src = r}

\* The session of a transaction counts the endorsers that have accepted, all
\* of them asked and none of them twice: whoever has accepted has no message
\* left. The session knows the chosen endorser's transaction once that
\* endorser has accepted, it stores the only content, and it has submitted
\* exactly if nobody is missing.
CountsVotes(slot) ==
  LET s == session[slot]
      r == s.src
  IN  /\ s.submit \in picked[r] \cup {NULL}
      /\ Cardinality(picked[r]) = EndorseCount
      /\ Voters(r) \subseteq picked[r]
      /\ s.succ = Cardinality(Voters(r))
      /\ s.submit \in Voters(r) => s.es = [h |-> s.submit, src |-> r]
      /\ \A v \in votes[r] : v[2] \in {s.info, Empty}
      /\ \A m \in Endorses(r) :
           /\ m = [type |-> "endorse", kind |-> s.kind, h |-> m.h, id |-> slot[1],
                   src |-> r, es |-> NULL]
           /\ m.h \in picked[r] \ Voters(r)
      /\ submits[r] = IF s.succ < EndorseCount THEN 0 ELSE 1

FullyEndorsed(r) ==
  /\ Voters(r) = picked[r] /\ Cardinality(picked[r]) = EndorseCount
  /\ \E c \in Contents \cup {Empty} : \A v \in votes[r] : v[2] \in {c, Empty}

TxSessions(r) == {slot \in RequestSessions(r) : session[slot].kind \in TxKinds}

\* A call whose session was given no other call's answer: its session counts,
\* what it submits is endorsed, and what follows names the transaction of the
\* chosen endorser.
Tally(r) ==
  /\ \A slot \in TxSessions(r) : CountsVotes(slot)
  /\ submits[r] \in {0, 1} /\ (submits[r] = 1 => FullyEndorsed(r))
  /\ \A m \in net : (m.type \in Late /\ m.src = r) =>
       m.es = [h |-> m.h, src |-> r] /\ m.h \in picked[r]

Tallied == \A r \in Requests : ~Mixed(r) => Tally(r)

\* An endorser says so only of what it has accepted.
AcceptedNamed ==
  \A m \in net : m.type \in {"accepted", "notify"} =>
    m.es # NULL /\ m.es.src \in accepted

\* It implies SubmitFullyEndorsed.
EndorseInv ==
  IInv /\ HistoryTypeOK /\ KindsFit /\ NoHistory /\ Tallied /\ AcceptedNamed /\ OkTruthful
-----------------------------------------------------------------------------
\* The service keeps the promise of NotifyLifecycle: a call is open while its
\* session lives and waiting while the session of its notification lives.
stage ==
  [r \in Requests |->
     IF req[r] = NULL THEN "idle"
     ELSE IF RequestSessions(r) # {} THEN "open"
     ELSE IF NotifySessions(r) # {} THEN "waiting" ELSE "closed"]

wants == [r \in Requests |-> req[r] # NULL /\ req[r].wait]

Lifecycle == INSTANCE NotifyLifecycle WITH up <- running

ImplementsLifecycle == Lifecycle!Spec
=============================================================================
