# TLA+ models of the VBH SDK

The repository is the client SDK of a permissioned block chain ("VBH"). An
application calls it to register users, to propose transactions and to query;
the SDK has a transaction endorsed by servers ("endorsers") of several
organisations ("peers"), submits it to one of them and calls the application
back. This directory holds models of the SDK in TLA+, the TLC configurations
that check them, and machine-checked proofs.

## 1. Inventory

| Component | Code (under `src/src/`) | State | Operations | Model |
|---|---|---|---|---|
| Crypt client service: requests and sessions | `vbh_sdk/plugin/vbh_crypt_client_service/*` | three session maps, the session array of every connection, session timers, the session id counter | 3 requests (`OnDscMsg`), 5 endorser answers (`OnHtsMsg`), `OnTimeOut`, `OnNetError`, `OnConnectedNodify`, `OnNetworkError`, `OnExit` | `CryptClient` |
| Crypt client service: connection table | same files, `CVbhPeerConnectSession`, `CVbhPeerConnectSessionSummaryInfo`, `GetMcpHandler`, `SendMultiEndorseMessage` | two nested growing arrays, a round-robin index in each | add, remove, pick | `PeerConnTable`, `SessionArray` |
| Configuration of both services | `OnInit`, `LoadPeerInfo`, `GetPeerID` | list of peers and endorser addresses | load, connect | `PeerConfig` |
| Adapter base | `vbh_sdk/vbh_adapter_base/*` | eight session maps, sessions in several connection arrays at once, own connection table | 5 calls, 9 endorser messages, timers, connection events, `OnExit` | `AdapterBase`, `AdapterConnTable`, `SessionArray` |
| Adapter plugin | `vbh_sdk/plugin/vbh_adapter_service/*` | the addresses of the clients, by request id | 5 requests in, 8 callbacks out | `AdapterService` |
| Start and end of the SDK | `vbh_sdk/vbh_sdk_comm/vbh_sdk_comm_if.cpp` | spin lock, flag, event and parameters on the creator's stack | `InitVbhSdk`, `ThreadFunction`, `FnitVbhSdk` | `SdkInit` |
| C++ API and its task | `vbh_sdk/client_sdk/*` | the application's callback object, the registration of the task | `InitClientSdk`, 13 calls, dispatch of answers by type and action id | `ClientApi` |
| C API | `vbh_sdk/client_c_sdk/*` | C function pointers | which calls exist, dispatch of answers | `ClientApi` |
| Message definitions, error codes | `vbh_comm/comm_msg_def/*`, `vbh_comm_error_code.h` | none | - | the fields the handlers test |
| Codecs and cryptography | `vbh_comm/vbh_key_codec.*`, `vbh_encrypt_lib.*`, `vbh_comm_func.*` | none | hex and base64, signing, encryption | outcomes only |
| Test and load clients, build | `test/*`, build files | - | - | not modelled |

Outside the repository: the DSC framework (reactor, timers, connections,
message dispatch, `CDscTypeArray`), the endorsers, order and committers, the
database.

How the parts interact. `InitClientSdk` starts a thread that runs the framework
with its services; an API call posts a request message to the crypt client
service, which runs all its handlers in that one thread, sends messages over
connections of the framework and answers with a message to the API task, which
calls the application's callback, in C through a wrapper object. The adapter is
the other way in: a service that receives the requests of remote clients, calls
its base class and turns the callbacks of the base class into messages.

What is hard here:

* A session is referenced from three places, its map, the timer service and
  the array of one connection (crypt client) or several (adapter), and it can be
  ended by an answer, a timeout, a broken connection or a failed send. A failed
  send ends sessions *inside* the call that is working with one of them.
* Endorsements arrive in any order, late, or not at all; a second phase follows,
  with the chosen endorser's own session id, and in the adapter a third one,
  waiting for a notification, with a session that takes the first one's place.
* Session ids wrap and are reused while late answers are under way.
* The connection tables move their elements while indices point into them.
* Several threads may initialise the SDK; the new thread works on the stack of
  the thread that made it; the callback object is replaced while it is in use.
* An answer is told apart only by its type and an action id that not every
  path writes.

The full list, each item with its line and the properties that watch it, is
`hazards` in `PROJECT.json`.

## 2. Modules

| Module | What it is |
|---|---|
| `CryptClient` | the crypt client service, one action per outcome of a handler |
| `CryptClientProps` | its properties, the inductive invariant, the refinement mapping |
| `RequestLifecycle` | abstract: what an application is promised about a request |
| `MCCryptClient` | instances for TLC |
| `CryptClientProofs` | proofs about `CryptClient`: sessions, ids, messages |
| `CryptEndorseProofs` | EXTENDS it: endorsements, submissions, answers, the refinement |
| `PeerConnTable` | the crypt client's connection table, its sending loop, its properties and inductive invariant |
| `PeerConnTableProofs` | proofs about it |
| `RoundRobin` | the position of a round robin, the vocabulary of both tables' invariants |
| `EndorserPool` | abstract: the table as a set of connections to pick from |
| `AdapterConnTable` | the adapter's connection table, which is read differently, its properties and inductive invariant |
| `SessionArray` | the arrays of sessions at the connections, by position |
| `PeerConfig` | from the rows of the configuration to the peers of connections |
| `MCConnTables` | one TLC instance of `PeerConnTable`, `AdapterConnTable`, `SessionArray` and `PeerConfig` |
| `ConnTablesProofs` | EXTENDS `PeerConnTableProofs`: proofs about the other three |
| `AdapterBase`, `AdapterBaseProps` | the base class of the adapter and its properties, split as for the crypt client |
| `NotifyLifecycle` | abstract: what the base class promises its caller |
| `MCAdapterBase`, `AdapterBaseProofs` | instances; proofs about sessions, ids, messages and the refinement |
| `AdapterEndorseProofs` | EXTENDS it: endorsements and what an OK means |
| `AdapterService` | the plugin, on top of `NotifyLifecycle` |
| `MCAdapterService`, `AdapterServiceProofs` | instances, proofs |
| `MCAdapter` | one TLC instance of `AdapterService` and of `AdapterBase` with one and with two endorsers to ask |
| `SdkInit` | start and end of the SDK, with properties |
| `ClientApi` | both APIs, EXTENDS `SdkInit`: threads that initialise, call and are called back |
| `ClientApiProofs` | proofs about `SdkInit` and `ClientApi` |

How they fit together. `CryptClient` uses the connection table as the set of its
connections (`PeerNum`, `Selections`); `ImplementsPool` shows that
`PeerConnTable` is such a set. `AdapterBase` implements `NotifyLifecycle` until it
ends, and `AdapterService` uses the base class only as that, its end included. `ClientApi` contains `SdkInit`
and uses the crypt client service by its answers: one or none per request, as
`OneAnswer` allows.

### CryptClient

The service is single-threaded, so one run of a handler is one step. The
model keeps every exit of every handler as an action of its own. For the
registration and proposal requests, which differ in data only, the actions
take the kind as a parameter; the differences that matter are kept
(`InitialEs`: the proposal session's endorser session id is uninitialised;
`EndorseError`: the proposal handler replaces every endorsement error by the
network error).

| Code | Actions |
|---|---|
| `OnDscMsg` of the three requests | `TooFewPeers`, `BadRequest`, `StartEndorse`, `StartEndorseFails`; `QueryNoPeer`, `StartQuery`, `QuerySendFails` (and `BadRequest`) |
| `OnHtsMsg` of an endorsement | `NoSession`, `EndorseFails`, `EndorseMismatch`, `EndorseWaits`, `Submit`, `SubmitEncryptFails`, `SubmitSendFails` |
| `OnHtsMsg` of a submission's or a query's answer | `NoSession`, `OnSubmitRsp`, `OnQueryRsp` |
| `OnTimeOut`, `OnTimer` | `OnTimeOut` |
| `OnConnectedNodify`, `OnNetworkError` with `OnNetError` | the same names |
| `OnExit` | `OnExit` |

State: `conn` is the table, as the set of connections it holds; `session` the
session objects, named by their id; `map`, `arrSession`, `timer` the three
places that refer to them; `net` the messages under way. A message `endorse` or
`query` stands first for the request, then for the answer: when it is taken, the
outcome of decrypting, decoding and comparing is chosen by the action. A
`submit` message becomes `committed` or `refused` when the endorser acts on it;
once its connection is gone it is `adrift`, may still be executed, and is never
answered. `picked`, `votes`, `submits` and `committed` are history.

Assumptions about the outside, all of them named in the module:

* `SendHtsMsg` runs `OnNetworkError` on its connection before it returns a
  failure. The code relies on it: it sets `pSession = nullptr` after a failed
  send (cpp:532, cpp:763) and does not answer again.
* An endorser answers a message at most once (the transport is TCP, an
  answer is not repeated), any order is possible, and any delay.
* An endorser only executes the submission of an endorser session that it
  opened itself (`EsCommit`: `m.es = m.h`).
* `IdBound`: at most as many requests as session ids. There are 2^32 - 1 ids and a
  session lives for at most two timer periods of 120 s. Ids do wrap in the
  model (the counter starts at `StartID`).

### AdapterBase

Built like `CryptClient`; what differs in the code differs in the model. A
session is named by its *slot*, its id and whether it is the session of the
request or the one that waits for the notification.

| Code (`vbh_adapter_base.cpp`) | Actions |
|---|---|
| `RegistUser`, `CreateInformation`, `Propose` | `Reject`, `StartEndorse`, `StartEndorseFails`, `CallSendBreaks` |
| `QueryUserInfo`, `QueryTransactionInfo` | `Reject`, `StartQuery`, `QuerySendFails`, `QueryWithoutPeers`, `CallSendBreaks` |
| `OnHtsMsg` of an endorsement | `NoSession`, `EndorseFails`, `EndorseMismatch`, `MismatchSubmits`, `EndorseWaits`, `Submit`, `SubmitSendFails`, `EndorseSendBreaks` |
| `OnHtsMsg` of a submission's answer | `NoSession`, `TransactionAccepted`, `TransactionRefused` |
| `OnHtsMsg` of a notification or a query's answer | `NoSession`, `Finish` |
| `OnTimeOut`, `OnConnectedNodify`, `OnNetworkError`, `OnExit` | the same names |

Each call of the code (`RegistUser`, ...) and each message it is bound to
(`ProposeEsCltRsp`, ...) is an operator of that name made of these actions. A
failed endorsement sends a `cancel` to the chosen endorser; a refused
submission takes the session out of its map and does nothing else; an id is used
up only by a session that was sent. The session ids at an
endorser are pairs of endorser and request, so that one left in unwritten memory
can be told from one of another transaction. `AdapterIdBound` is
`IdBound` for this class: fewer calls than ids. `EsAccept` assumes of endorsers what `EsCommit` does.

What the framework does is not in the repository, and where the code does not
settle it, the model takes every outcome:

* The arrays. A session has one `m_nIndex` (h:141) for its places in the arrays
  of all its connections, and each insertion overwrites it (inl:143-144); a
  connection has one (h:69) for the `m_arrHandler` of all sessions. `CDscTypeArray`
  erases by it, so an `Erase` may take out another entry, or none. `Erasures` is
  that choice, for every array from which a session with several places, or one
  that may have been lost there, is erased; only a session that was put into
  one array (`OneArray`: one endorser, a query, a notification) is
  sure to find itself there as long as nothing else has taken it out. The entry
  of a deleted session that stays is a pointer to freed memory (`NULL` in
  `arrSession`), a session that was taken out in place of another is not ended
  by its connection (`OnNetworkError` goes by the array), and one that
  hangs on a deleted connection has a `NULL` in its `hs`.
  `SessionArray` shows by position that all this happens.
* A failing `SendHtsMsg` may have done nothing, which is how this class uses it,
  or may have run `OnNetworkError` inside the call, which is how the crypt client
  uses it. In the second case the class goes on to answer and to release
  a session that has been deleted (cpp:1234, inl:172, cpp:679).

When freed memory is used, by a connection that walks over a deleted session, a
session that leaves the array of a deleted connection, or a call or handler that
goes on after such a send, `service` becomes `undefined` and the model ends:
what the program does then is undefined, and no property claims anything of it.

### The tables, the arrays, the configuration

`PeerConnTable`: the arrays as they are: growth when full (by `Growth`, 8 in
the code), the last element moved into a gap, `MoveCopy` that empties its source
even when source and target are the same, the random index as a choice, both
round robins, and the loop of `SendMultiEndorseMessage` one round per step so
that a failing send is seen in the middle of it. `AdapterConnTable` has the
adapter's way of reading (into range first, then onward), each call as one step.
`SessionArray` models `CDscTypeArray`, which is not in the repository, by the
interface its elements must have: an `m_nIndex` written by `Insert` and by the
move that fills a gap, and used by `Erase`. `PeerConfig` is the fold of
`LoadPeerInfo` over the rows in the order of their `PEER_ID` (`Ordered`, by
their rank), the comparison of a peer id in 32 bits and
its storage in 16 (`IdSpace`), the checks of `OnInit`, and `GetPeerID`.

### AdapterService

`m_mapClientAddr`, an address per request id. Ids are chosen by the clients,
so two requests can have the same one (`IdOf` is any function); `clash` records
those that were under way together. An existing address is not overwritten, a
callback pops it, a callback that finds none is dropped. `up` is the base class's:
it may end at any time (`Ends`: `OnExit`, a broken connection that uses freed
memory) and drop any of its calls without a callback, whose addresses stay, or
in the middle of a call (`Vanished`: the query without peers).

### SdkInit and ClientApi

`SdkInit`: one step per access to shared memory: taking the lock, testing the
flag, setting it, clearing the lock, spawning, waiting; in the new thread
initialising, writing the failure, signalling, ending the loop. Failure by a
missing `WORK_ROOT` and failure of `CSdkAppManager::Init` are one action.
`AppIDAssumption`: the application id is not -1, the value by which a failure
is reported.

`ClientApi`: after `InitVbhSdk`, a thread sets the callback object and registers
the task, in two steps others can come between; then it calls. The tables of
calls (`Transactions`, `Queries`, `ExplorerQueries`) give each the type and
action id the code gives it; `AnswerIDs` are the ids the service writes, or does
not write, on each of its paths; `Method` is the dispatch of `PostDscMessage` and
`PostExplorerQueryRsp`, `Wrapper` the one of `CWrapperCallback`.

## 3. What is checked

| Run | Instance | Result |
|---|---|---|
| `crypt_safety` | 2 requests, 2 peers with one endorser each, both needed, 3 contents (one empty), ids 1..2 starting at 1 so that they wrap | 459 000 states, passes |
| `crypt_lifecycle` | 2 requests, 3 endorsers of 2 peers, one content, fair timers | 757 000 states, passes |
| `adapter_safety` | 2 calls (proposals with notification, user queries) or 1 of another kind, 2 endorsers, both needed, 2 contents, ids 0..2 starting at 2 so that they wrap | 556 000 states, passes |
| `adapter_parts` | plugin: 3 requests of 2 clients, two of them with one id, the first of any kind, the others proposals or transaction queries, the base class may end. Base class, one endorser to ask: 2 calls (information, with or without notification, user query), ids 0..2. Base class, two to ask: 1 call (registration, with or without notification, transaction query). One content, fair timers and callbacks | 154 000 states, passes |
| `conn_tables` | 4 endorsers of 3 peers (one peer has two), 2 needed, arrays that grow by 1; 4 sessions; up to 4 rows with 5 peer ids, two of which agree in 16 bits | 31 000 states, passes, deadlock checked |
| `client_api` | 3 threads, one of them a C application, 1 call of any kind | 523 000 states, passes |
| `crypt_query_lost` | 1 query, 1 endorser, fair timers | violated, see 6 |
| `crypt_one_content` | 1 request, 3 contents | violated, see 6 |
| `client_api_lost` | as `client_api` | violated, see 6 |
| `sdk_init_ok` | 3 threads, fair threads | violated, see 6 |
| `adapter_notify_lost` | the plugin of `adapter_parts`, every request of any kind, without fairness | violated, see 6 |
| `session_array_shared` | 3 sessions over up to 2 connections each | violated, see 6 |

The properties of `crypt_safety`:

* `NoDanglingPointer`, `SessionReachable`: the three references to a session
  and the session agree, both ways.
* `ExitStopsTimers`: nothing armed survives `OnExit`.
* `OneAnswer`: exactly one of a session and an answer for every transaction
  request, at most one for a query.
* `NoCrossTalk`: no message is taken for another request's.
* `SubmitFullyEndorsed`: what is submitted was accepted by every endorser that
  was asked, `EndorseCount` of them, goes to one of them with the session id it
  gave, once.
* `PendingBelowCount`: as long as an endorser has not answered, the count is
  below the threshold. The registration handler tests the count after a
  mismatch as well; this is why it cannot submit then.
* `AnswerTruthful`: OK only for an executed transaction, and no execution ever
  after a refusal, a mismatch or an encryption error was reported. (TIMEOUT,
  NETWORK, DECRYPT, DECODE and NONCE say nothing about the transaction.)
* `NoSubmitAfterAnswer`: nothing is sent for a request that was answered.

`ImplementsLifecycle` of `crypt_lifecycle` (refinement of `RequestLifecycle`)
says the same to the application: requests go from idle to open to closed, are
answered once when they close, are submitted while open, and a refusal is final.

The properties of the adapter base. They hold up to the first use of freed memory
(section 2), which the code does not exclude, and say nothing after it.

* `TimersExact`: no map and no timer names a deleted session, and the timer of
  every session is armed. This is what ends a session that the
  arrays have lost. `OnlyRefusedUnmapped`: the sessions in no map are those whose
  submission was refused, and so the only timers that outlive `OnExit` are theirs.
* `AloneExact` (one endorser to ask): the arrays of the connections hold exactly the
  sessions that hang on them, and these hang on connections that are there. With
  several endorsers that is false of the code, as `session_array_shared` shows.
* `NoCrossTalk`, `SubmitFullyEndorsed`, `OkTruthful`: as above, up to what the
  code gives away: a call that failed half sent leaves its id to the next one,
  whose session then counts an answer that was not for it (`Mixed`, `Stale`).
* `NoSubmitAfterResponse`.
* `ImplementsLifecycle` (refinement of `NotifyLifecycle`): one response, then one
  notification for who asked for it and was told OK, nothing afterwards, and
  nothing at all for what is dropped when the service ends.
* `EventuallyAnswered` (`CallsAnswered` in `adapter_parts`): every accepted call gets
  its response and every wait its notification, unless the service has ended.

The plugin: `NoStaleAddress` (while the service runs, an address in the map is that
of a client with a call of that id under way; two calls that share an id share the
address of the first, and the answer to either goes there), `AnswerReachesAsker`
(unless ids clashed, an answer goes once, to the client that asked and with the
base class's code, and at most the notification follows), `EventuallyAnswered`
(unless ids clashed or the service ends).

The tables: `TableExact` and `AdapterTableExact` (a table lists exactly the
connections), `EvenlySpread` and `PicksEvenlySpread` (between changes each peer
and connection is picked as often as the others, plus or minus one),
`ImplementsPool`, `ArraysExact` (every session finds itself by its index),
`StartedCanServe` (connections share a peer exactly if the configuration says so,
and there are enough peers).

The API: `OneService`, `ParamAlive`, `CreatorToldTheOutcome`, `EveryCallReturns`
of the start, checked in the composed system; `AnswersFindCallback` (the
assertion of `PostDscMessage`), `AnswerGoesWhereItBelongs` (each answer once, to
the function its call and its id name, on the object of the thread that called or
of one whose `InitClientSdk` came after that thread's, which the history `since` tells;
what else goes astray is listed in it).

Bounds. Two requests are enough for every interference the services have:
sessions meet only through a shared connection, a shared id or a shared
endorser. Two endorsers suffice for a first and a later endorsement and for the
chosen endorser being either; a third one, of a peer already present, adds the
choice among a peer's connections. The ids of each instance are the fewest its
id bound admits, so that every new id is the one least recently used, and they
wrap. Of the five kinds of calls of the adapter, `adapter_safety` has the one the
code treats differently (`Propose` looks at the count after a mismatch) and a query
meet each other and the rest alone (`OthersAlone`, a constraint); in `adapter_parts`
information calls and user queries meet. The transactions of `adapter_safety` all wait for their
notification, which goes through every session the others have and one more. One
call is enough for the liveness with two endorsers to ask: that a timer ends a
session does not depend on another call, whereas with two calls the arrays' choices
under fairness are out of TLC's reach. The plugin's functions are the same for each
kind of request, so two kinds suffice for the requests that meet the first. In the
tables, growth by one
makes every insertion into a full array move it; four sessions are one more than
a gap, its filler and a bystander. In `conn_tables` a behaviour is one of one of
the four modules, in `adapter_parts` one of one of the three parts, chosen at the
start. Three threads give two that race and one
that comes late; one call is enough for the dispatch, which keeps nothing
between calls but the callback object, and that changes at any time. Three
requests of the adapter are two that share an id and one of the same client that
does not. Requests, and contents that are not empty, are interchangeable, hence
the symmetry of the safety runs (not used for liveness). `CHECK_DEADLOCK FALSE`
where the system may stop: every request served and the service ended, every
call returned.

Fairness. `CryptClient` and `AdapterBase`: weak fairness of `OnTimeOut` for each
session, since the framework's timer service runs each timer that is armed and
not cancelled; nothing is assumed of endorsers, connections or the application.
`AdapterService`: weak fairness of the base class's callback for each call under way
as long as the base class is up, which is `EventuallyAnswered` of `AdapterBase`, checked
as `CallsAnswered` beside it; that property, too, ends with the service. `SdkInit` and
`ClientApi`: weak fairness for each caller of `InitVbhSdk` and each new thread,
since the operating system runs every thread; the lock is held for a few steps
by each of finitely many callers.

Every property has a mutant (`Mutant...` next to the definition it changes):
the same model with one plausible bug, in which TLC finds that property violated.

## 4. What is proved

For every value of the constants (any endorsers, peers, contents, clients,
threads, numbers of requests and ids that satisfy the assumptions).

`CryptClientProofs`: `Invariance` (`IInv`), and from it `TypeCorrect`,
`PointersAlive`, `SessionsReachable`, `ExitClean`, `AnsweredOnce`,
`MessagesMeetOwnSession`; and the action property `SubmitsPrecedeAnswers`.

The argument. `NoDanglingPointer` and its kin are not inductive one by one: that
freeing a session leaves nothing behind needs to know where it is referred to.
`IInv` states this once and exactly: `SessionsOwned` (a session has a request
and a live connection) and `Linked` (it is in the timer set, in the map of its
kind and in its connection's array, and nowhere else). With these, every way of
ending sessions takes them out of everything. `OneAnswer` then follows because an
answer is given exactly when a session ends, and because at most one session
stands for a request; `UnsentUntouched` covers the request that is just arriving.
`NoCrossTalk` needs `OwnMessages` and that a new id is not in use. That is
`IdsFresh`: the age of an id (how many ids ago it was given out, around the wrap)
is less than the number of requests sent as long as a session or a message
carries it. Each request sent ages every id by at most one; the id given out
next has the age `MaxSessionID - 1` plus one, which by `IdBound` is more. The
proof first shows, per action, what the step does to the sessions and the three
places; the conjuncts of `IInv` are preserved by each such shape.

`CryptEndorseProofs`: `EndorseInvariance` (`EndorseInv`), and from it
`SubmitsFullyEndorsed`, `PendingStaysBelowCount`, `AnswersTruthful`, and the
refinement `ServiceImplementsLifecycle`.

The argument. The code keeps a number, `succ`, where the properties speak of
*which* endorsers accepted. `VotesCounted` ties the two together: `succ` is the
cardinality of the set of endorsers that accepted (`Voters`), these are among
those asked, and a message of this endorsement is under way only to or from an
endorser that has not accepted. So counting an answer adds a new voter, the
count reaches `EndorseCount` only when everyone asked has accepted, and as long
as one of them is outstanding the count is below it, which also excludes that the
registration handler submits after a mismatch. `SubmitsEndorsed` says that what
was submitted was, and once. For the answers, `OneFate` says that a
transaction has at most one message once it is submitted, addressed with the
session id of the endorser it goes to, and that its type tells whether the
transaction was executed; `FateTold` that OK is given for an execution, and that
after a refusal nothing is left that could still execute it (`Settled`). The refinement then
needs only the sessions and answers of `IInv` and these.

`AdapterBaseProofs`: `Invariance`, and from it `TypeCorrect`, `TimersAlwaysExact`,
`OthersMapped`, `MessagesMeetOwnCall`, `SubmitsPrecedeResponses`, and the
refinement `AdapterImplementsLifecycle`, for arrays that may lose any session
(`Erasures`) and sends that may fail in either way. The argument
has the same parts, with less to say of the arrays: what an array names is a session
or freed memory (`ArraysLead`), not which. Every action is one of some *shapes*
(`Refusing`, `Opening`, `Counting`, `Promoting`, `Releasing`, `Losing`,
`Undefining`, ...), which say of a step what the
invariant is about and no more; the shapes preserve `TimersExact`,
`OnlyRefusedUnmapped` and `SessionsOwned` together. A step that uses freed memory
sets `service` and nothing the invariant still speaks of. `OwnMessages` is `NoCrossTalk` for
every session, in a map or not. `IdsFresh` counts accepted calls only, because a call that fails half sent
does not use up its id; its messages are the `Stale` ones. For the refinement,
`StageIs` says where a call stands by the one session it has (`OneSession`), and a
lemma per shape shows that every call then moves as `NotifyLifecycle` allows, all
calls of a broken connection's array in one step.

`AdapterEndorseProofs`: `TalliesInvariant` (`EndorseInv`), and from it
`SubmitsFullyEndorsed` and `OksTruthful`. What is counted is not shared between
calls, so the invariant is a `Tally` of each call, and a step starts one call's
tally, counts for one call, or leaves every tally as it was. A `Tally` holds of the
calls that are not `Mixed`: a call that took over the id of one that failed half
sent has none, and the proof shows that this is the only way to lose it.
`AcceptedNamed` (an acceptance names the transaction of the call whose session takes
it) carries `OkTruthful` from the endorser's acceptance to the response.

`PeerConnTableProofs`: `TableInvariance` (`IInv`), and from it `TablesExact`,
`PicksEven` and the refinement `TableImplementsPool` of `EndorserPool`, for any
peers, any number of connections, any growth, connections coming and going in any
order, also in the middle of a sending loop. The argument has three layers.
`TableInv` is the shape of the two arrays: the first `m_nSessionNum` elements are
different peers, each with exactly its connections, each once (`ListsOf`), every
index is in range, and the elements beyond are blank (`EmptySession`): a peer that
comes back is given one of these as it is. `PeersEven` and `HandlersEven` make
`EvenlySpread` inductive by saying *which* elements were picked once more than the
others: the last ones the round robin has passed (`Ago`), for some number of
rounds less than a full turn. `TakenRun` is the same for one call: the endorsers
it has taken are of the peers picked last, in order, and since at most
`EndorseCount <= m_nSessionNum` are taken the next peer is a new one. This is what
the code means by its comment that `GetMcpHandler` never returns null here, and
what `EndorserPool` promises `CryptClient`.

`ConnTablesProofs`: the other three parts of `MCConnTables`, for any numbers of
peers, connections, sessions and rows, and `TablesCorrect`, which states of the
instance (`MCSpec`) all the invariants of the run `conn_tables`. What these
modules compute, they compute by going through data: `Picked` is a recursive
function over the number of calls, the arrays and `LoadPeerInfo` are folds, and
the rows are put in order by counting. The library's induction theorems take a
predicate as a parameter, which the provers cannot instantiate. The module
therefore starts from a first-order fact, that a set of natural numbers has a
least element (`LeastNat`, by the library's `WFMin`), and makes induction over
*sets* of numbers of it (`SetInduction`), and recursion over *functions*
(`IteratesNat`: a step applied n times has a result for every n).

* The adapter's table: `AdapterTableInvariance` (`IInv` of `AdapterConnTable`), and
  from it `AdapterTablesExact`, `AdapterPicksEven`. `PickedRuns` says by induction
  what n calls of `GetMcpHandler` have done: they took connected handlers of the n
  peers passed last, in that order (`Passed`), and the uses of the peers, with
  these calls counted, are those of a round robin at its place (`EvenAfter`); the
  peers and connections listed are the same. Since a transaction needs
  `EndorseCount` peers and takes at most that many, its peers differ. `LastPicked`
  says where the round robin is: the index stands behind the element picked last
  and may be one past the end, which is why it is put into range when it is read.
  Removing a peer or a connection fills its place with the last one; `WithoutSet`
  shows that nothing else is lost or doubled.
* The arrays of sessions, one connection per session: `ArrayInvariance`
  (`ArrayInv`), and from it `SessionArraysExact`. `Held` says it pointwise: what is
  at position k of a connection's array hangs on that connection and remembers k,
  and what hangs on it is at some position. When a connection breaks, each lost
  session leaves no array but the one that is cleared (`LostFold`, by induction
  over the sessions of the array), because it hangs on one connection only. With
  several connections per session this fails, as `session_array_shared` shows.
* The configuration: `ConfigInvariance` (`ConfigInv`), and from it `ServiceCanServe`.
  `OrderedIs` shows that the rows by their rank are ordered (the n-th exists, since
  fewer than n rows lie below it and at least n up to it). `Groups` says what
  `LoadPeerInfo` has made of the first k rows: they are in its groups, each group
  has the rows of one PEER_ID, and the PEER_IDs grow from group to group;
  `GroupsGrow` is the step of the induction (`LoadGroups`). The groups of a running
  service therefore have different PEER_IDs, and if these differ in 16 bits as
  well, there are as many peers as groups, which `OnInit` compared with
  `ENDORSE_PEER_COUNT`.

`AdapterServiceProofs`: `Invariance`, and from it `TypeCorrect`, `AddressesFresh`,
`AnswersReachAskers`. The invariant says of a request that never met another of
its id that it is the only one under way with that id
(`Alone`) and that, while it is open, the address kept is its client's (`AddrHeld`);
and of any address that it belongs to an open call (`AddrOpen`), so that none is
left when the notification comes.

`ClientApiProofs`, the start of the SDK: `Invariance` (`IInv`), and from it `TypeCorrect`, `StartedOnce`,
`ParametersAlive`, `CreatorTold`. `StartedOnce` needs mutual exclusion
(`MutualExclusion`), that the flag is set exactly once a caller has passed it
(`FlagTold`), and that one caller at most has passed it (`Creators`);
`ParametersAlive` and `CreatorTold` need the handshake of a caller with the thread
it made (`Handshake`), and that only that thread initialises (`InitedByWorker`).

`ClientApiProofs`, the API: `ApiImplementsSdkInit` (no step of the API disturbs the start),
hence `ApiStartedOnce`; `ApiInvariance`, and from it `CallbackFound`,
`AnswersBelong`. The invariant: who is ready has set the callback object and has
registered the task, and the object in place is its own or a later one
(`CallbackPlaced`), answers under way are those of
calls, one each and of the call's type (`OnTheWay`), and what was dispatched went
to the function that an answer of that type and id leads to (`Dispatched`).

The assumptions are the ASSUMEs of the modules; TLC evaluates each in a run.
Besides the bounds on ids (section 2) they say that the configuration is as
`OnInit` accepts it and that the sets are finite where the proofs count: requests,
connections, and what is endorsed by them.

## 5. What is only model-checked

* `EventuallyAnswered` (of all three services; `CallsAnswered` is the adapter base's) and `EveryCallReturns`: liveness
  under fairness, out of the prover's reach, as is ENABLED. The proofs show that
  what these wait for is not lost (an open transaction has a session, and that
  session its timer; a caller that waits has a thread at work), not that it comes.

* `AloneExact`: that with one endorser per transaction the adapter's arrays are
  exact.

Every other property of the passing runs is stated by a theorem of section 4. The
runs that find a violation are counterexamples and need none.

## 6. Where the code and its text disagree

* `crypt_query_lost`: a query whose send fails is neither answered nor given a
  session (cpp:1348-1351), although the comment at cpp:1390 says that a failure is
  answered from the request, as the transaction handlers do.
* `crypt_one_content`: whether an endorsement is the first is told from the stored
  content being empty (cpp:481, cpp:716). If the first endorser's content is empty,
  the next one's is stored and counted without a comparison.
* `client_api_lost`: the C wrapper chooses the function by the action id of the
  answer and drops those it does not know (client_c_api.cpp:407-430); a proposal
  that failed is answered with the id 0xffff or with one nobody wrote.
* `sdk_init_ok`: `m_bInited` says that a call was made. A second caller is told
  success before the first has finished and after it has failed, and no retry is
  possible after a failure or after `FnitVbhSdk`.
* `session_array_shared`: a session of the adapter is in the arrays of several
  connections with one index (vbh_adapter_base.h:141), by which it is erased from
  each: after its release it may still be in one of them.

* `adapter_notify_lost`: the plugin has functions that send a notification to a client
  that waits for it (`m_bWaitNotify`, vbh_adapter_base.h:162; vbh_adapter_service.cpp:24-112), but
  the response has taken the client's address out of the map (cpp:5): nobody is told.

The models also carry the following, which no run reports because no text of the
repository says otherwise, or because it is certain rather than hard to meet:

* A call of the adapter that failed half sent leaves its id to the next call,
  which counts the answers to it (vbh_adapter_base.cpp:1230). The adapter's
  properties say what still holds.
* A cancel may carry an endorser session id that nobody has written (cpp:708), and
  a query while no peer is connected writes through a null handler (.inl:170).
  `QueryTransactionInfo` picks a connection twice and sends once (cpp:1414).
* If `SendHtsMsg` handles a broken connection inside the call, as the crypt client
  expects, the adapter uses sessions it has deleted (cpp:1234, inl:172, cpp:679).
* Two clients of the plugin that choose one request id at the same time share the
  address of the first (vbh_adapter_service.cpp:253).
* A successful query of a C application's own is handed on as an empty string
  (`SDKDecode`, client_api.cpp:545: no `default` label before the last block); an answer of `ExplorerQueryUser` goes to
  `OnQueryRsp`; an answer with the id 5 calls a null pointer of a C application
  (client_c_api.cpp:117); the C functions for proposals test memory they have not
  written (client_c_api.cpp:122).
* A second `InitClientSdk` replaces the callback object of the first
  (client_api.cpp:68).
* Peer ids are cut to 16 bits after they were compared in 32; `DistinctIn16Bits` is
  the condition under which this does no harm.

## 7. Not modelled, and why

The codecs and the cryptography (`vbh_key_codec`, `vbh_encrypt_lib`, `vbh_comm_func`)
keep no state; every place that calls them has their failure as an outcome, which
the models choose freely. What they compute (hex, base64, OpenSSL) is byte by byte
work that unit tests reach. Of the message definitions the models keep the fields
that handlers test; the messages of other servers are not used by this code. Left
out as well: logging, receipts (their return code says when they mean nothing),
performance counters, the database, the test and load clients, the build.

Not done: a refinement of `EndorserPool` by the adapter's table. A call is one step
of that module and several of the pool; what the pool promises of a call
(connected endorsers of different peers) is `SentApart`, which is proved.
