# Verification of the Elasticsearch client for Node.js

TLA+ models of the parts of this repository that carry its own logic: the
connection pool (`lib/pool/`), the request machinery of `Transport` and
`Connection` (`lib/`), the bulk, multi search and scroll helpers
(`lib/Helpers.js`), clients and their children (`index.js`), and the methods of
the API with the generator that writes them (`api/`, `scripts/`). TLC checks
them on small instances; TLAPS proves most safety properties of the pool, the
transport, a connection, the bulk and scroll helpers and the clients for every instance.

## Inventory of the system

JavaScript runs one callback at a time to completion. What interleaves is the
order in which the runtime calls back: http events, timers, `nextTick`, zlib,
promises. Nothing is persisted and the only unreliable channel is http.

| Component | State | Operations | Talks to |
|---|---|---|---|
| `BaseConnectionPool`, `ConnectionPool` | `connections`, `size`, `dead` (ids in order of their resurrect timeout); per `Connection`: `id`, `status`, `deadCount`, `resurrectTimeout`, `roles` | `addConnection`, `removeConnection`, `update`, `getConnection`, `resurrect`, `markAlive`, `markDead`, `empty` | Transport (calls), `Connection` (pings, `close`) |
| `CloudConnectionPool` | `cloudConnection` | the same, without marks | Transport |
| `Connection` | `_openRequests`, the agent, the listeners of each request | `request`, `close`, `setRole` | node's http |
| `Transport` | per request `meta` (`connection`, `attempts`, `aborted`) and its closures; `_isSniffing`, `_nextSniff` | `request`, `abort`, `getConnection`, `sniff` | pool, `Connection.request`, serializer, event emitter |
| `Helpers` | `bulk`/`msearch`: the body read so far, a semaphore (`running`, one waiter), a flush timer, retries; `scrollSearch`: `scroll_id`, `stop` | `search`, `scrollSearch`, `scrollDocuments`, `msearch`, `bulk` | the API methods of the client |
| `Client` | options, extensions, the shared pool and emitter | constructor, `extend`, `child`, `close` | everything |
| `Serializer`, errors | none | pure | Transport |
| `api/` | none | 344 generated methods; each checks its parameters, picks a branch for verb and path, and calls `transport.request` | Transport |
| `scripts/utils/generateApis.js` | none | derives the checks and branches of a method from the specification of the REST API | writes `api/` |

What is hard about each, and what makes it correct:

* **Pool.** Requests and pings hold a `Connection` object while they are in
  flight and mark it when they are answered, whatever the pool has become
  since: the node may have gone, been renamed, or been replaced by a new object
  with the same id. The dead list is kept by id, the status by object. Correct
  means: ids are unique; the dead list names members of the pool, each once, in
  order; list and statuses agree; `getConnection` serves a connection whenever
  there is one; no connection is dropped unclosed and none that stays is closed;
  dead nodes that recover come back.
* **Transport.** A request can fail before it is sent, on the wire, on its body
  and after it, each with its own path to the callback, and `abort()` may come
  at any time. A fault marks the connection, may start a sniff and retries, all
  in one turn. Correct means: exactly one answer, events in order, nothing sent
  after an abort, retries that avoid the failed node, sniffs that never overlap
  and always end.
* **Connection.** Four listeners and the callback of `pump` race for one
  request; `close()` polls a counter they decrement. Correct means: one answer,
  a counter that is right whoever wins, a listener for each `error`, which it has
  only until the headers, and a `close()` that waits and ends.
* **Helpers.** An async iteration and a flush timer share one buffer and one
  semaphore that has room for a single waiter. Correct means: each document or
  search is sent and accounted for once, and the promise is settled. The scroll
  helper follows an id that changes, between a consumer that may clear or leave
  and a server that is busy or has forgotten: all pages, in order, and the
  context cleared, which the id that `clear()` sends decides.
* **Client.** Child clients share a pool but sniff independently; `close()` may
  meet a sniff. They also share the objects among their options. Correct means:
  a child sends as itself, which fails for children that share a headers object,
  with its parent's extensions.
* **API methods.** The order of the branches decides which url a call goes to,
  the checks which parameters may be missing. Correct means: no parameter that
  was given is lost, none that is missing is in the path.

## Modules

```
PoolOps            the pool's methods, as operators on a pool record
  ConnectionPool     a pool and its callers           MCConnectionPool
  Transport          requests and sniffs over a pool  MCTransport
    RequestLifecycle   what an observer sees of a request (abstract)
Connection         the http requests of a connection  MCConnection
SemaphoreOps       buildSemaphore(), of the bulk and msearch helpers
Ranks              indices in increasing order, for the retry of part of a body
  Bulk               the bulk helper                  MCBulk
  Msearch            the multi search helper
Scroll             the scroll search helper
MCHelpers          Bulk, Msearch and Scroll side by side
ApiOps             what a generated method does with its arguments
  ApiDocuments, ApiIndices, ApiCluster, ApiMl, ApiSecurity, ApiData, ApiSearch
                     the methods, as data
  GenerateApis       the API of a client, and what the generator derives
  Client             clients, children, extensions, calls   MCClient
PoolOps_proof, ConnectionPool_proof, Connection_proof, Transport_proof, Client_proof,
Bulk_proof, Scroll_proof, Helpers_proof
```

**PoolOps** maps each method of the two pool classes to an operator from the
pool it is called on to the pool, or the set of pools, it leaves. The set is
needed for `markDead`: `Array.sort` decides the order of equal timeouts.
Operators, not actions, because both compositions call several methods in one
turn. Time is abstracted to `wait`, the number of 60 s units until a connection
is due; `deadCount` stops one above the cutoff, where the delay stops growing;
`connections` is a set, since its order matters to the selector only, and any
candidate may be selected; roles are the one bit the default filter computes.

**ConnectionPool** adds who calls: `GetConnection` hands a connection to a new
request (`calls` counts them by object) and may send a ping (`pings`);
`CallOk`, `CallFault`, `CallUnmarked`, `PingOk`, `PingFault` are the answers;
`Sniffed`, `AddConnection`, `RemoveConnection` change the topology; `Empty` and
`Closed` are `empty()` and the callbacks of the `close()` calls it makes.
`open` records which connections were created and not told to close.
Object identities matter, so a created connection is any identity nothing
refers to.

**Transport** has one action per event of the runtime or call of the user. A
handler calls others: `onConnectionError` marks, sniffs (which takes a
connection and sends a request of its own) and retries, before anything else can
run. So handlers are operators from a record `S` of the whole state to the set of
states they may leave, composed the way the code calls them, and an action
applies one to the current state:

| Code | Model |
|---|---|
| `makeRequest`, `Transport.getConnection` | `MakeRequest`, `Connect` |
| `sniff` and its callback | `MaybeSniff`, `SniffEnded` |
| `onConnectionError`, retry of `onBody` | `OnConnectionError`, `RetryOr` |
| `onResponse`, `onEnd`, `onAbort`, `unzip` callback | `Headers`, `BodyEnd`, `BodyFault`, `Unzipped` |
| `onBody` | `OnBody` |
| `process.nextTick(callback, ...)` | `Schedule`, then the action `Fail` |
| `gzip` callback | `Gzipped` |
| `abort()`, the `abort` event | `Abort`, `Aborted` |

`Sniff` is the request `sniff()` makes; `_isSniffing` allows one at a time.

**RequestLifecycle** is what `docs/observability.asciidoc` lets a user expect:
`serialization`, `request`, `deserialization`, `response`, each possibly again
by a retry, exactly one answer and nothing after it. `FollowsLifecycle` is the
refinement of Transport to it, the mapping being the last event emitted and the
number of callbacks.

**SemaphoreOps** and **Bulk** model the bulk helper. `iterate()` and every
pending call of `onFlushTimeout` are the `Process`es that wait for the
semaphore. A slot given at once arrives by `setImmediate`, so anything may run
before its owner goes on ("immediate"); a promise resolved by the end of an
operation is a microtask, which runs before any other callback ("ready", and the
guard `Drained` of all other actions). A body is a sequence of lines, because
`tryBulk` finds the lines of a failed operation by an index into them: `Slice` is that
index, right for bodies without deletes only, and `RetryLines` what is pushed to `retry`,
item by item, in the order `Ranks` gives them.
`NextChunk`, `EndOfData`, `ResumeLoop` are `iterate()`; `FlushTimeout`,
`ResumeFlush` the timer; `Answered`, `Retry` are `tryBulk` and
`retryDocuments`; an exception in the callback of `client.bulk` is not caught
by anyone and ends the process ("crashed").

**Connection** is what `Transport` takes for granted when it says that a request
is answered once. `status`, `listening` and `catching` are the request and its
listeners, `ticks` the events node will emit about it, in order; `abort()` and a
failing socket put events there, `OnAbort` and `OnError` are their emission.
`AbortHttp`, `SocketFails`, `BodyEnds`, `BodyBreaks` and `BodyFails` are node's and
external. A body breaks in two ways: the server closes the socket, of which only the
response tells (`BodyBreaks`), or the socket fails, of which node tells the request as
well (`BodyFails`), although `onResponse` has taken its listeners off. `uncaught` are
the requests that met an `error` without a listener. `Refuse` is the path that http
does not accept: the callback runs before `request()` returns.

**Msearch** is built as `Bulk` is, over the same `SemaphoreOps`: `search()` pushes
to a stream, `Read` and `EndOfStream` are `iterate()`, `FlushTimeout` and
`ResumeFlush` the timer, `Answered` and `Retry` `tryMsearch` and `retrySearch`.
Bodies and callbacks stay two sequences, because nothing but their indices relates
a response to a callback.

**Scroll** is a generator (`stage` is where it is suspended, or how it ended), a
consumer that asks, leaves or calls `clear()`, and the server with its context, which
may expire and whose id may change with each answer, one that is lost included. The
server knows the last id only: a scroll or a clear that was sent with an older one is
answered 404, so the model keeps which id each `clear()` sent (`clears`). The three helpers share no state;
`MCHelpers` checks them in one run, an application using one of them.

**ApiOps** is the code all methods have in common: `Refused` the checks at the
head, `Takes` the chain of `if`s, `Verb`, `Path`, `Body` and `Query` the request.
The seven modules of data translate every method of `src/api/api`: what it
requires, which parts call for others, its branches in their order, its body.
**GenerateApis** is the generator seen from the other end: the checks, the order and
the body it derives from the paths of a method; `AsGenerated` compares the two.
A value of a parameter is truthy, or falsy and not null, by its snake case or its
camel case name, because `job_id || jobId` tells these apart.

**Client** adds who calls them. JavaScript objects are shared, so the `headers`
option of a client is the identity of an object, and `prepareHeaders` changes the
object; a transport copies it when it is made. `child()` without headers hands on the
object of the parent, so that the two clients, and other such children, are the
`Sharers` of one. `extend()` binds a function to the
transport of the client it is called on; `child()` replays the extensions.

## Runs

| Run | Question | Bounds |
|---|---|---|
| `pool_sniffing` | Is the pool consistent when the topology changes under requests? | 3 node ids on 2 addresses, 3 identities, four views: loss, return and replacement of a node at its address |
| `pool_recovery` | Does the pool agree with itself when answers come in any order, do dead nodes come back, is `close()` answered? | 3 fixed nodes, every strategy, one request and one ping per connection, cutoff 0, `empty()` at any time, `FairSpec` |
| `pool_stale_mark` | Is a connection always served when a node returns? | violated, see below |
| `transport_requests` | Does a request, of any kind and with anything going wrong, behave? | 1 request, 1 retry, 2 nodes, ping strategy, sniffs by user, interval and fault |
| `transport_answers` | Is every request answered, does every sniff end, do two requests and a sniff disturb each other? | 2 requests with a compressed body, 1 retry, 1 node, `FairSpec` |
| `transport_abort_body` | Does an aborted request fail as aborted? | violated, see below |
| `connection` | Is each request answered once, and does `close()` wait for that and no longer? | 4 requests: two plain, one streamed, one refused; with and without an agent; `FairSpec` |
| `helpers` | Does each helper account for all it was given, and end? | Bulk: 4 documents, 2 to a body, 1 retry, concurrency 1 and 2 without, 3 with a flush interval that elapses. Msearch: 3 searches, 2 to a request, the same. Scroll: 0 to 3 pages, 2 ids, 1 retry, 2 calls of `clear()`. With fairness |
| `bulk_lost_waiter` | Does the bulk helper end when the interval elapses and there is one slot? | violated, see below |
| `bulk_deletes` | Does it account for deletes? | violated, see below |
| `client_calls` | Do the methods send what they were given, and clients with the authorization of those who share their headers? | all methods with all choices of their parameters; 2 methods in every way of calling; 3 clients, with headers of their own or without, 2 extensions, 2 names, 2 values of `auth` |
| `client_shared_headers` | Does a child always send with its own `auth`? | violated, see below |

Why the bounds are enough: the cutoff is 1 instead of 5, so that delays grow
(1, 2) and stop growing within three failures; in `pool_recovery` it is 0, as agreement
and recovery do not depend on how long a delay is (`DeadRecover` is about the strategies
that resurrect). Ids collide with two addresses
and three nodes, one of which takes over the address of another. Two
connections make "the other one" and "all dead" different; the third makes an
order of the dead list that is not its reverse, and gives `pool_sniffing` an object
that outlives its place in the pool. One request in flight on a connection, and
one on a stale object of the same node, are the two that can disagree. One
retry makes a first attempt differ from the last one. Four documents, two to a
body, make two full bodies, or full and flushed ones, compete for a slot while a
third is read; with three slots for the iteration and two flushes none of them ever
replaces another as the waiter, which `bulk_lost_waiter` shows to be fatal. Three
searches, two to a request, give Msearch a full request and a rest, and a retry of
the second search alone. Two pages make a second id; the third is asked for with it.
Two children of one client are siblings, and one of the other a grandchild. The
requests of a connection meet only in its counter and its agent. Symmetry is over
identities that no definition names (`Conn`, `Request`, the two children of
`client_calls`) and not used with liveness. The `View` of `MCConnectionPool` drops the
fields of objects nothing refers to; no action and no property reads them.

`CHECK_DEADLOCK FALSE` stands where every request of the run may have been
answered and nothing else is configured to happen, and for connections and the
helpers, which end.

### Findings

* `pool_stale_mark`: a request holds the `Connection` of n2; a sniff without n2
  drops it, the next one creates a new object for n2, which fails and is put on
  the dead list by its id. The old request succeeds: `markAlive` takes that id
  off the list, and marks the *old* object alive. When n1 fails too,
  `size` is 2 and `dead.length` 1, no connection is alive, and
  `getConnection` returns null (`NoLivingConnectionsError`) for good: a node
  not on the list is not resurrected.
* `transport_abort_body`: `abort()` during the body is reported as a
  `ConnectionError` when no retry is left, and marks a healthy connection dead.
* `bulk_lost_waiter`: with `concurrency` 1 and an operation that takes longer
  than `flushInterval`, `iterate()` waits for the slot with a full body. The
  timer fires, takes the body and calls `semaphore()` too. There is one
  `resolveSemaphore`: the flush gets the slot, `iterate()` never resumes, and
  the promise of the helper is never settled. The default interval is 30 s and
  the default concurrency 5, so it takes a slow cluster.
* `bulk_deletes`: a document is written and another deleted in one body, and
  the delete fails: `onDrop` is given the source of the first as its operation. With
  deletes only, bodies whose retries are exhausted are walked in steps of two:
  every second delete is neither dropped nor counted.
* `client_shared_headers`: the first `child({ auth })` without `headers` writes its
  authorization into the headers object of the root's options, which it was given too; the
  second finds it there, `prepareHeaders` leaves it, and the second child sends with the
  `auth` of the first. `docs/child.asciidoc:15-16` lets a child be given every option of
  a client, and a test expects a child made so to send its own; it makes one child only.

In the model, and not stated as a property: a flush that runs between the grant
of a slot to `iterate()` and its `setImmediate` takes the body, the iteration
sends an empty one, Elasticsearch refuses it, and the helper ends with that error.

Other behaviour met while modelling, which the properties name or leave out:

* Nothing bounds the time a body takes: the timeout of `Connection.request` is
  disarmed by the headers. A server that stalls leaves the request unanswered,
  and, if it is the request of a sniff, no sniff ever starts again.
* After a path was refused, `_openRequests` stays one too high, and `close()` polls
  for ever (`OpenCounted`, `AllAnswered`).
* When the socket fails while a body is read, node emits `error` on the request too.
  `onResponse` has removed `onError` and left nothing in its place, so the error is
  uncaught and by default ends the process, although `docs/connecting.asciidoc:456`
  speaks of a `ConnectionError`. `UncaughtOnlyInBody` delimits this: it is the only
  `error` without a listener, and one with a streamed body has that of `pump`.
* `child({ auth: null })` does not undo the root's `auth`, which the connections
  add to requests; in the model a child is given an `auth` or inherits one.
* Any call with null for `params` loses the options and the callback that follow
  (`ArgumentsKept`).
* A part with two names and a falsy value, as `task_id: 0`, passes the checks, but
  `task_id || taskId` is undefined then: the call takes another branch, or has
  "undefined" in its path (`PathComplete` is about truthy values).
* `nodes.stats` ignores an `index_metric` that comes without `metric`
  (`PartsInPath`).
* Scroll: a consumer that leaves its loop leaks the context; so does a request that
  fails. The `ignore` of the options replaces the one of `clear()`: a 400 is an
  error there and a 429 is taken for success. `clear()` during the wait of a retry does
  not stop the retries. `maxRetries: 0` is taken for the default. `scrollDocuments`
  ignores its options. If the answer to a scroll is lost and the Transport retries,
  one page is skipped in silence, or, if a new id was lost with it, the scroll ends with
  a 404 (`PagesComplete`).
* Scroll: `clear()` sends the id of the moment it is called. The id that comes with the
  last, empty page is never taken over, and the consumer may call `clear()` while the
  answer to a scroll is on its way. If the id has changed, the clear is a 404, which is
  thrown, and the context stays open until it expires. `ContextCleared` names the two
  cases; a server that keeps the id, or accepts older ones, is not affected.
* Msearch has the single waiter of Bulk: with fewer slots than callers of
  `semaphore()`, searches are never answered.

### Fairness

`ConnectionPool.FairSpec`: requests keep being made (resurrection happens in
`getConnection` only), time passes, every request and ping is answered,
by the timeout of `Connection` if nothing else, and `close()` polls its counter
until it calls back. `DeadRecover` in addition assumes that from some point on
no node fails. `Transport.FairSpec` is one condition per request: as long as an
answer to it, a timer or a scheduled callback of it can come, one does. This is the
runtime's promise, together with the timeout of `Connection`, for everything but
bodies; that a body ends or breaks off is an assumption on the server.
`Connection.FairSpec`: node emits what it scheduled, a request without headers gets
them, fails or times out, and the timer of `close()` fires; a body need not end.
`HelpersFairness` is the fairness of the three helpers: the datasource ends and
streams are read, promises and timers of retries call back, and every request is
answered, which is `Answered` of Transport. The user may never abort, stop, clear
or ask for the next page. As the helper in use never changes, the fairness of a
disjunction over the helpers is that of each.

## Proofs

`PoolOps_proof` proves what each method preserves, for any pool record of the
right type and any connection object, in the pool or not. The inductive
invariant is `PoolInv`: types, `Unique`, `Listed` and `Ordered`. None of the
parts is inductive alone. `Listed` needs `Unique` (the lookup of an id must
yield *the* connection that has it) and `Ordered` needs `Listed` (the comparator of
the sort dereferences the lookup); `HeadIsEarliest`, which the runs check, only speaks
of the head, and would not survive the head's removal: `Ordered` says it of all
pairs.

`ConnectionPool_proof` lifts this to the specification:

* `PoolTyped`, `IdsStayUnique`, `DeadIdsStayInPool`, `HeadStaysEarliest`: `TypeOK`,
  `UniqueIds`, `DeadIdsInPool` and `HeadIsEarliest` always hold.
* `SniffLeavesView`: a sniff leaves exactly the nodes it reported in the pool, whichever
  view it was, and the connection of a node that was there and is reported again is
  kept; from the invariant and the assumption that no two nodes of one view publish the
  same address.
* `FixedTopologyAgrees`, `FixedTopologyServes`: with no sniffs and no added or removed
  hosts, `DeadMatchesStatus` and `AlwaysServes` hold. The strengthening
  says that calls and pings are held by objects of the pool only, or that the
  pool was emptied; it is what a change of topology breaks, see `pool_stale_mark`.
* `NoneLost`: `NoConnectionLost`, if the pool is not emptied while its topology may
  change: no connection is dropped unclosed and none that stays is closed. `update()`
  decides what to close by ids, after its renames (`OldConnections`), and what to keep by
  ids and urls, before them; that the two agree needs that ids are unique and that
  no two of the nodes given have one address. The hypothesis is needed: `empty()` closes the connections it finds, and then
  drops whatever the pool holds, those of a sniff in between included, a hazard listed
  in `PROJECT.json`.

`Transport_proof`, for any requests, options, nodes and views. A handler of Transport
calls others, so the proof has a lemma for each (`ConnectOutcome`,
`MakeRequestOutcome`, `RetryOrOutcome`, ...): from a state in which it may run
(`Ready`), it leaves one with `Outcome`. While a handler of the sniff's own request
runs, `_isSniffing` is only required to be set, as where that request stands may be
in between; the flag and the stage agree again when the handler ends.

* `TransportTyped`, `OneSniff`, `AbortedStaysUnsent`: `TypeOK`, `SniffExclusive` and
  `NoSendAfterAbort`. The invariant `Sound` has the consistency of the pool
  (`PoolInv`), since what `markDead` and `update` do is only known of such a pool,
  and says that an aborted request is not at the sent stage.
* `ImplementsLifecycle`: Transport implements `RequestLifecycle` under the mapping of
  `FollowsLifecycle`. `Sound` says what was told of a request at each stage (`Told`),
  and each handler tells one thing (`Tells`), so that each step is a step of the
  lifecycle of one request or a stutter (`Moves`).
* `FixedClusterServes`, `FixedClusterRetries`: `NeverWithoutConnection` and
  `RetryAvoidsFailed`, when every sniff reports the same nodes, none of which the node
  filter refuses, and the client starts with some of their urls (`FixedCluster`, which
  both runs of Transport satisfy). The invariant `Calm` says that a request always holds
  a connection of the pool, so that `markDead` makes the list and the statuses agree:
  with every connection dead the list has as many ids, and the strategy resurrects one.
  A view without a node would leave stale connections in requests, as in
  `pool_stale_mark`, and then neither property is sure. That a retry avoids the failed
  connection rests on the order of the handler: `markDead` comes before `getConnection`,
  and what `getConnection` resurrects is alone alive or the others are dead.

`Connection_proof`, for any finite set of requests:

* `RequestsCounted`, `OnlyLateErrorsUncaught`: `OpenCounted` and `UncaughtOnlyInBody`. The
  invariant says of each request where it stands: it waits exactly as long as its
  listeners are there and its callback was not called; the events still to come are
  `abort` before `error`; and an `error` to come after the listeners were cleaned has been
  provided for, or is that of a body that broke. The counter follows from that by a lemma
  on the cardinality of the sets one step adds to or takes from.
* `CloseWaits`: `ClosedWhenIdle`, from the same invariant.

`Client_proof`, for any API, clients, extensions and auths:

* `CallbackAndOptionsKept`: `ArgumentsKept`, by the ways of calling; it needs that no
  function is the value that stands for a missing callback (`ClientAssumption`).
* `ChildrenExtend`: `ChildExtends`. The invariant (`ExtensionsInv`) says that the methods
  of a client are what its list of extensions gives when it is applied to a client
  without any (`Replay`), and that this application does not fail; the lemma is that one
  more extension and a longer list come to the same.
* `PathIsComplete`: `PathComplete`, from the assumption `WellFormed` that the parts
  of the last url of a method are required; TLC evaluates it for the shipped API. The
  lemma is that the branch taken has the parts it uses.
* `ClientsSendTheirAuth`: `AuthorizationOfSharers`, for children with and without headers
  of their own. The strengthening says that an authorization in a headers object, or in
  the headers a transport copied from it, is the `auth` of a child made with that object,
  that the root's transport has none, that who has no `auth` has a root without one, and
  that an extension is bound to the transport of the client that has it.

`Bulk_proof`, for any options, operations and documents, and any finite number of
flushes that wait:

* `SlotsAlwaysCounted`: `SlotsCounted`. The invariant counts the operations under way
  and the slots granted (`Counts`), with one in between while a process that resumed has
  not called `send()` yet (`Ready(S, 1)`), and says that the waiter is queued. That a
  waiter may be displaced and lost, as `bulk_lost_waiter` shows, does not disturb the
  count: the lost one has no slot. The count is also why `send()` finds a free slot.
* `ResolvedIsQuiet`: `QuietWhenResolved`. The strengthening (`LoopOk`) says where the
  loop may stand while it waits for a slot, that the timer is cleared from the last
  flush on, so that no slot is asked for after `finish()` has settled, and that what
  `finish()` let through has no error.
* `BulkTyped`: `TypeOK`. What is not obvious is that the statistics only name documents
  that were read, although with deletes the code takes lines from the wrong place, or
  from past the end of a body; the invariant `Typed` therefore bounds the lines of every
  body. It is proved over a description of each action by the states before and after
  (`Effects`), which the rest builds upon.
* `DocumentsApart`: `NoDocumentTwice`, if there are no deletes; with them it fails, as
  `bulk_deletes` shows of the same indices. The invariant `Kept` says that a body is a
  sequence of pairs of lines, of different documents (`Paired`), so that the items of a
  response and the lines found for them belong together (`SliceRight`, `RetryPaired`);
  that a response splits the documents of its operation in those stored, dropped and to
  be retried (`Split`); that each document is in one place at most (`Alone`); and, unless
  the helper failed or was aborted, in one at least (`Accounted`).
* `DocumentsAccounted`: `AllAccounted`, if there are no deletes and in states where no
  call of `semaphore()` has displaced another (`NobodyDisplaced`). A displaced flush
  never sends the body it took, and the helper may resolve without it: the defect of
  `bulk_lost_waiter`. Otherwise all bodies are empty when `finish()` lets the helper
  resolve, since a slot is counted for each of them and a waiter implies a slot that is
  taken (`Served`), so that the documents are in the statistics, each once.
* `AccountedWithoutFlush`: `AllAccounted` without that condition, if the flush interval
  does not elapse: then `iterate()` is the only caller of `semaphore()`.

`Scroll_proof`, for any number of pages, scroll ids, retries and calls of `clear()`:

* `ScrollsAll`: `PagesComplete`. The invariant says that nothing happened before the
  search is answered (`Fresh`); that the pages are in order and the server's cursor is
  past the last of them, and at the next one unless an answer was lost (`InOrder`);
  and that while a page is there or asked for, the generator has the last id, unless an
  answer was lost, and only the consumer can have set `stop` (`Followed`).
* `ScrollClears`: `ContextCleared`, with the part `Provided`: once stopped, the
  context is gone, there was trouble, a clear was sent or is about to be, or one was
  turned down for an id the server had replaced, which it stays, because ids only grow
  (`Behind`).

`Helpers_proof` carries the results of both over to the specification the run `helpers`
checks, an application that uses one of the three helpers: each of its steps is a step
of the helper in question or leaves its variables alone (`PagesAlwaysComplete`,
`ContextAlwaysCleared`, `SlotsCountedHere`, `ResolvedIsQuietHere`, `BulkTypedHere`,
`DocumentsApartHere`, `DocumentsAccountedHere`).

It also has the proofs about `Msearch`, for any number of searches, any settings and any
finite number of flushes that wait. The invariant is `MsearchInv`, which TLC was given as
an invariant of the run `helpers` before it was proved. A batch is determined by its
callbacks: its lines are theirs, in pairs, and no search is in it twice (`Matched`);
loading a search and keeping some for a retry preserve that (`LoadedMatched`,
`ChosenMatched`, the latter by the lemmas on ranks of `Bulk_proof`). Each search that was
asked is at one place (`Has`, `OnePlace`, `SomePlace`). The semaphore counts right, by the
lemmas of `Bulk_proof` on its three operations, and `iterate()` has a slot or waits for one
only while it flushes (`MsearchStands`). What each action does is first stated in terms of
the variables (`ReadDoes`, ...), then shown to keep the invariant (`ReadKeeps`, ...); a step
moves some searches from one place to another, or none (`Relocated`, `PlacesStay`).

* `AnswersAreOwn`: `OwnAnswer`. The search a response is given to is found by its index in
  the callbacks and the response by its index in the body; `Matched` makes them the same.
  That it is answered once needs `OnePlace`: who is in an operation has no answer yet.
* `SearchesAnswered`: `NoneForgotten`, in states where no call of `semaphore()` has
  displaced another (`NobodyReplaced`): a displaced flush never sends what it took, and the
  promise may be settled without it, as for `Bulk`. Otherwise no slot is taken and nobody
  waits for one when the promise is settled, so that a search can only be at its answer.
* `AnsweredWithoutFlush`: `NoneForgotten` without that condition, if the flush interval
  does not elapse.
* `SearchesApart`, `SearchingIsBounded`: what of the invariant a user of the helper would
  ask for. No search is lost or doubled in any step, even where a flush is displaced: what
  it took stays with it. No more operations are under way than `concurrency`, and none
  after the promise is settled.

Assumptions: the named ASSUMEs of `PoolOps`, `ConnectionPool`, `Transport`,
`Connection`, `Client`, `SemaphoreOps`, `Bulk` and `MCHelpers`. The last one assumes
`MsearchAssumption` and `ScrollAssumption`, of which the second is a hypothesis of the
theorems in `Scroll_proof`; `Cutoff` is at most 5, the value in the code.

Model-checked only: liveness (`DeadRecover`, `EmptyAnswered`, `Answered`,
`SniffEnds`, `AllAnswered`, `AllEnd`), which the prover cannot do; and the properties that
compare the data of the shipped API (`OneApi`, `PartsInPath`, `AsGenerated`), which TLC
evaluates once and for all, there being no constant to generalise.

## Not modelled

* The serializer, header and querystring construction, TLS, proxies, the agent:
  pure functions and options, whose failures are branches of Transport.
* `CloudConnectionPool`, which keeps one connection and marks nothing.
* `search()` and `scrollDocuments` of the helpers, which rearrange one response.
* Querystring parameters of the API methods that are not required: they are handed
  on under their snake case names.
* The generators of the docs, types and tests under `scripts/`: they write text.
* `Transport` over `Connection`: Transport assumes of its connection what
  `Connection` shows, one answer for each request, but the two are not composed. The
  answer a refused path gets before `request()` returns is in `Connection` only.
* Several Transports over one pool: to the pool, sniffs of different clients are the
  `Sniffed` of `ConnectionPool`, which come in any order there. A sniff that meets
  `close()` is not modelled.
