----------------------------- MODULE Transport -----------------------------
(***************************************************************************)
(* The request machinery of Transport over a ConnectionPool: the closures  *)
(* of request() (makeRequest, onConnectionError, onResponse, onBody,       *)
(* abort), sniff() and the interval check of Transport.getConnection.      *)
(*                                                                         *)
(* A handler runs to completion and may call others: a connection error    *)
(* marks the connection, may start a sniff, which itself takes a           *)
(* connection and is sent, and then retries.  So a handler is an operator  *)
(* from the client's state, a record S, to the states it may leave:        *)
(*   S.req       one record for each request, see RequestType              *)
(*   S.sniffing  `_isSniffing`                                             *)
(*   S.due       whether the sniff interval has elapsed                    *)
(*   S.pool      the connection pool, see PoolOps                          *)
(*   S.pings     pings of resurrect() in flight, by connection             *)
(* An action is one event of the runtime (an http event, a nextTick, a     *)
(* zlib callback) or one call of the user.                                 *)
(*                                                                         *)
(* `Sniff` stands for the request sniff() makes: _isSniffing lets only one *)
(* exist at a time.  Headers and bodies are reduced to the branch they     *)
(* make the code take.                                                     *)
(***************************************************************************)
EXTENDS PoolOps, Functions

CONSTANTS
  Request,         \* requests the user makes
  Sniff,           \* the request of sniff()
  None,            \* no connection
  InitialIds,      \* the hosts the client is created with
  Strategy,        \* resurrectStrategy
  Views,           \* sets of nodes a sniff may report
  Options,         \* options the user may give to a request
  DefaultRetries,  \* the client's maxRetries, which sniff() uses
  SniffInterval,   \* whether sniffInterval is set
  SniffOnFault,    \* sniffOnConnectionFault
  MaySniff,        \* whether the user may call sniff(), as sniffOnStart does
  MayAbort,        \* whether the user may abort requests
  Faults,          \* connection errors that may happen
  Contents,        \* what a complete response may amount to
  MaxPings         \* bound: pings in flight on one connection

\* What the code does with the body of a request: nothing to do ("plain"; also no body), compress
\* it, pipe it, or fail to serialize it.
Bodies == {"plain", "gzip", "stream", "unserializable"}

ASSUME RequestAssumption == Sniff \notin Request /\ None \notin Conn
ASSUME OptionAssumption ==
  /\ Options \subseteq [retries : Nat, body : Bodies, asStream : BOOLEAN]
  /\ DefaultRetries \in Nat
ASSUME SwitchAssumption ==
  /\ {SniffInterval, SniffOnFault, MaySniff, MayAbort} \subseteq BOOLEAN
  /\ Faults \subseteq {"connection", "timeout"}
  /\ Contents \subseteq {"ok", "error", "gateway", "undecodable", "tooLarge"}
  /\ Strategy \in Strategies
  /\ MaxPings \in Nat
ASSUME HostAssumption ==
  /\ InitialIds \subseteq Id
  /\ \A view \in Views : /\ view \subseteq NodeId
                         /\ \A m, n \in view : UrlOf[m] = UrlOf[n] => m = n

VARIABLES req, sniffing, due, pool, pings

vars == <<req, sniffing, due, pool, pings>>

State == [req |-> req, sniffing |-> sniffing, due |-> due, pool |-> pool, pings |-> pings]

\* The bound on pings guards every step.
Becomes(S) ==
  \E T \in {S} :
    /\ \A c \in Conn : T.pings[c] <= MaxPings
    /\ req' = T.req
    /\ sniffing' = T.sniffing
    /\ due' = T.due
    /\ pool' = T.pool
    /\ pings' = T.pings

All == Request \cup {Sniff}

(***************************************************************************)
(* pc        where the request stands: compressing (gzip), sent (waiting   *)
(*           for the headers), aborting (abort() called, its event to      *)
(*           come), reading (the body), inflating (unzip), failing         *)
(*           (callback scheduled with nextTick)                            *)
(* conn      meta.connection;  attempts  meta.attempts;  aborted  likewise *)
(* seen      the last event emitted about the request                      *)
(* reply     the error, or "ok", that the callback was, or is to be, given *)
(* answers   how often the callback was called                             *)
(***************************************************************************)
Pcs == {"idle", "compressing", "sent", "aborting", "reading", "inflating", "failing", "done"}
Events == {"nothing", "serialization", "request", "deserialization", "response"}
Replies == {"none", "ok", "response", "undecodable", "connection", "timeout", "aborted",
            "noLiving", "serialization", "gzip"}

SniffOptions == [retries |-> DefaultRetries, body |-> "plain", asStream |-> FALSE]

RequestType ==
  [pc : Pcs, conn : Conn \cup {None}, attempts : Nat, aborted : BOOLEAN, seen : Events,
   reply : Replies, answers : Nat, opts : Options \cup {SniffOptions}]

Idle(o) == [pc |-> "idle", conn |-> None, attempts |-> 0, aborted |-> FALSE, seen |-> "nothing",
            reply |-> "none", answers |-> 0, opts |-> o]

\* maxRetries: a stream body cannot be sent twice.
Retries(o) == IF o.body = "stream" THEN 0 ELSE o.retries

InFlight(r) == req[r].pc \notin {"idle", "done"}

\* Connection objects nothing refers to: createConnection may return any of them.
Unreferenced(S) ==
  {c \in Conn \ S.pool.conns : S.pings[c] = 0 /\ \A r \in All : S.req[r].conn # c}

-----------------------------------------------------------------------------
\* Mutation of Schedule: 'response' is emitted before the callback runs.
ScheduleAnnounced(S, r, error) ==
  [S EXCEPT !.req[r] = [@ EXCEPT !.pc = "failing", !.reply = error, !.seen = "response"]]

\* process.nextTick(callback, error)
Schedule(S, r, error) ==
  [S EXCEPT !.req[r] = [@ EXCEPT !.pc = "failing", !.reply = error]]

\* Mutation of SniffEnded: the flag is reset only when the sniff succeeds.
SniffEndedOnSuccess(S, reply) == IF reply = "ok" THEN {[S EXCEPT !.sniffing = FALSE]} ELSE {S}

\* What sniff's own callback does to the state S its request has been answered in.
SniffEnded(S, reply) ==
  LET T == [S EXCEPT !.sniffing = FALSE, !.due = FALSE]
  IN  IF reply # "ok" THEN {T}
      ELSE UNION {{[T EXCEPT !.pool = Updated(S.pool, view, created)] :
                     created \in Injection(NewNodes(S.pool, view), Unreferenced(S))} :
                  view \in Views}

\* callback(error or null): the closure ends, its connection is forgotten.
Callback(S, r, reply) ==
  LET n == S.req[r].answers + 1
      T == [S EXCEPT !.req[r] = [@ EXCEPT !.pc = "done", !.reply = reply, !.answers = n,
                                          !.conn = None]]
  IN  IF r = Sniff THEN SniffEnded(T, reply) ELSE {T}

\* emit('response') and then the callback.
Respond(S, r, reply) == Callback([S EXCEPT !.req[r].seen = "response"], r, reply)

(***************************************************************************)
(* connectionPool.getConnection() for r, then emit('request') and          *)
(* connection.request(), or NoLivingConnectionsError.                      *)
(***************************************************************************)
Connect(S, r) ==
  LET p == Resurrected(S.pool)
      T == [S EXCEPT !.pool  = p,
                     !.pings = [c \in Conn |-> IF c \in PingTarget(S.pool) THEN @[c] + 1 ELSE @[c]]]
  IN  IF Candidates(p) = {} THEN {Schedule(T, r, "noLiving")}
      ELSE {[T EXCEPT !.req[r] = [@ EXCEPT !.pc = "sent", !.conn = c, !.seen = "request"]] :
              c \in Candidates(p)}

\* sniff(), when `wanted`: nothing if one is going on.
MaybeSniff(S, wanted) ==
  IF wanted /\ ~S.sniffing
  THEN Connect([S EXCEPT !.sniffing = TRUE,
                         !.req[Sniff] = [Idle(SniffOptions) EXCEPT !.seen = "serialization"]],
               Sniff)
  ELSE {S}

\* Mutation of MakeRequest: the aborted flag is not looked at.
MakeRequestUnchecked(S, r) ==
  UNION {Connect(T, r) : T \in MaybeSniff(S, SniffInterval /\ S.due)}

\* makeRequest(): Transport.getConnection checks the sniff interval first.
MakeRequest(S, r) ==
  IF S.req[r].aborted THEN {Schedule(S, r, "aborted")}
  ELSE UNION {Connect(T, r) : T \in MaybeSniff(S, SniffInterval /\ S.due)}

\* Mutation of RetryOr: attempts are not counted.
RetryOrForever(S, r, otherwise) ==
  IF S.req[r].attempts < Retries(S.req[r].opts) THEN MakeRequest(S, r) ELSE otherwise

\* The retry of both error paths, or else `otherwise`.
RetryOr(S, r, otherwise) ==
  IF S.req[r].attempts < Retries(S.req[r].opts)
  THEN MakeRequest([S EXCEPT !.req[r].attempts = @ + 1], r)
  ELSE otherwise

\* Mutation of MarkedDead: the connection that failed is not marked.
MarkedDeadNot(S, r) == {S}

\* this.connectionPool.markDead(meta.connection)
MarkedDead(S, r) == {[S EXCEPT !.pool = p] : p \in MarkDead(S.pool, S.req[r].conn)}

OnConnectionError(S, r, error) ==
  IF error = "aborted" THEN Respond(S, r, error)
  ELSE UNION {UNION {RetryOr(T, r, Respond(T, r, error)) : T \in MaybeSniff(M, SniffOnFault)} :
                M \in MarkedDead(S, r)}

(***************************************************************************)
(* onBody: the content is undecodable, a 502, 503 or 504 not to be ignored *)
(* ("gateway"), another status from 400 on not to be ignored ("error"), or *)
(* none of these ("ok").                                                   *)
(***************************************************************************)
OnBody(S, r, content) ==
  CASE content = "undecodable" -> Respond(S, r, "undecodable")
    [] content = "gateway" -> UNION {RetryOr(M, r, Respond(M, r, "response")) : M \in MarkedDead(S, r)}
    [] content = "error" -> Respond([S EXCEPT !.pool = MarkAlive(@, S.req[r].conn)], r, "response")
    [] content = "ok" -> Respond([S EXCEPT !.pool = MarkAlive(@, S.req[r].conn)], r, "ok")

-----------------------------------------------------------------------------
Init ==
  /\ \E f \in Injection(InitialIds, Conn) :
       LET made == {f[i] : i \in InitialIds}
       IN  pool = [conns     |-> made,
                   dead      |-> <<>>,
                   strategy  |-> Strategy,
                   id        |-> [c \in Conn |-> IF c \in made
                                                 THEN CHOOSE i \in InitialIds : f[i] = c
                                                 ELSE CHOOSE i \in Id : TRUE],
                   status    |-> [c \in Conn |-> "alive"],
                   deadCount |-> [c \in Conn |-> 0],
                   wait      |-> [c \in Conn |-> 0],
                   usable    |-> [c \in Conn |-> TRUE]]
  /\ req = [r \in All |-> Idle(SniffOptions)]
  /\ sniffing = FALSE
  /\ due = FALSE
  /\ pings = [c \in Conn |-> 0]

\* A handler runs: its outcome is one of the given states.
Handle(outcomes) == \E S \in outcomes : Becomes(S)

-----------------------------------------------------------------------------
\* The user calls request(): emit('serialization'), serialize, compress or send.
Issue(r) ==
  /\ req[r].pc = "idle"
  /\ \E o \in Options :
       LET S == [State EXCEPT !.req[r] = [Idle(o) EXCEPT !.seen = "serialization"]]
       IN  CASE o.body = "unserializable" ->
                  Becomes(Schedule([S EXCEPT !.req[r].seen = "request"], r, "serialization"))
             [] o.body = "gzip" -> Becomes([S EXCEPT !.req[r].pc = "compressing"])
             [] OTHER -> Handle(MakeRequest(S, r))

\* The callback of gzip().
Gzipped(r) ==
  /\ req[r].pc = "compressing"
  /\ \/ Handle(MakeRequest(State, r))
     \/ Handle(Callback([State EXCEPT !.req[r].seen = "request"], r, "gzip"))

\* The callback scheduled with nextTick.
Fail(r) == req[r].pc = "failing" /\ Handle(Callback(State, r, req[r].reply))

\* http: the request errors or times out before the headers.
ConnectionFault(r) ==
  /\ req[r].pc = "sent"
  /\ \E error \in Faults : Handle(OnConnectionError(State, r, error))

\* http: the headers arrive.
Headers(r) ==
  /\ req[r].pc = "sent"
  /\ IF req[r].opts.asStream
     THEN Handle(Respond(State, r, "ok"))
     ELSE \/ "tooLarge" \in Contents /\ Handle(OnConnectionError(State, r, "aborted"))
          \/ Becomes([State EXCEPT !.req[r] = [@ EXCEPT !.pc = "reading", !.seen = "deserialization"]])

\* http: the body ends.
BodyEnd(r) ==
  /\ req[r].pc = "reading"
  /\ \/ \E content \in Contents \ {"tooLarge"} : Handle(OnBody(State, r, content))
     \/ Becomes([State EXCEPT !.req[r].pc = "inflating"])

\* http: the connection is lost, or was closed by abort(), while the body is read.
BodyFault(r) ==
  /\ req[r].pc = "reading"
  /\ "connection" \in Faults \/ req[r].aborted
  /\ Handle(OnConnectionError(State, r, "connection"))

\* The callback of unzip().
Unzipped(r) ==
  /\ req[r].pc = "inflating"
  /\ \E content \in Contents \ {"tooLarge"} : Handle(OnBody(State, r, content))

\* The user calls abort(): only an http request that has no headers yet emits 'abort' for it.
Abort(r) ==
  /\ MayAbort
  /\ InFlight(r)
  /\ ~req[r].aborted
  /\ LET pc == IF req[r].pc = "sent" THEN "aborting" ELSE req[r].pc
     IN  Becomes([State EXCEPT !.req[r] = [@ EXCEPT !.aborted = TRUE, !.pc = pc]])

\* http: the abort event.
Aborted(r) == req[r].pc = "aborting" /\ Handle(OnConnectionError(State, r, "aborted"))

-----------------------------------------------------------------------------
\* The sniff interval elapses.
SniffTimer ==
  /\ SniffInterval
  /\ ~due
  /\ Becomes([State EXCEPT !.due = TRUE])

\* The user, or sniffOnStart, calls sniff().
UserSniff == MaySniff /\ ~sniffing /\ Handle(MaybeSniff(State, TRUE))

\* The answer to a ping of resurrect().
Pong(c) ==
  /\ pings[c] > 0
  /\ LET S == [State EXCEPT !.pings[c] = @ - 1]
     IN  Handle({[S EXCEPT !.pool = MarkAlive(pool, c)]}
                  \cup {[S EXCEPT !.pool = p] : p \in MarkDead(pool, c)})

Tick ==
  /\ \E c \in Conn : pool.wait[c] > 0
  /\ Becomes([State EXCEPT !.pool.wait = [c \in Conn |-> IF @[c] > 0 THEN @[c] - 1 ELSE 0]])

Http(r) == ConnectionFault(r) \/ Headers(r) \/ BodyEnd(r) \/ BodyFault(r) \/ Aborted(r)
Local(r) == Gzipped(r) \/ Fail(r) \/ Unzipped(r)

Next ==
  \/ \E r \in Request : Issue(r) \/ Abort(r)
  \/ \E r \in All : Http(r) \/ Local(r)
  \/ SniffTimer
  \/ UserSniff
  \/ \E c \in Conn : Pong(c)
  \/ Tick

Spec == Init /\ [][Next]_vars

(***************************************************************************)
(* The runtime calls scheduled callbacks back.  A request that was sent    *)
(* gets its headers, an error, or the timeout Connection sets; an abort is *)
(* notified.  Once the headers are there no timer of the client runs any   *)
(* more: it is assumed of the server that the body ends or breaks off.     *)
(* What a request waits for is one of these, so one condition says it all. *)
(***************************************************************************)
FairSpec == Spec /\ \A r \in All : WF_vars(Http(r) \/ Local(r))

-----------------------------------------------------------------------------
(***************************************************************************)
(* Properties.                                                             *)
(***************************************************************************)

\* Every variable has its type; a request that may still report to its connection holds one.
TypeOK ==
  /\ req \in [All -> RequestType]
  /\ sniffing \in BOOLEAN
  /\ due \in BOOLEAN
  /\ pool \in PoolType
  /\ pings \in [Conn -> Nat]
  /\ \A r \in All : req[r].pc \in {"sent", "aborting", "reading", "inflating"} => req[r].conn # None

\* What an observer sees follows the lifecycle, through retries, aborts and failures to send.
Lifecycle ==
  INSTANCE RequestLifecycle WITH
    seen    <- [r \in Request |-> req[r].seen],
    answers <- [r \in Request |-> req[r].answers]

FollowsLifecycle == Lifecycle!Spec

\* _isSniffing is set exactly while the request of a sniff is under way: two sniffs never overlap,
\* and no ending of that request, not even before it is sent, leaves the flag set.
SniffExclusive == sniffing <=> InFlight(Sniff)

\* A request that was aborted is not sent again, whatever was scheduled or is retried.
NoSendAfterAbort ==
  [][\A r \in Request : req[r].aborted => req'[r].pc # "sent"]_vars

\* A retry does not go to the connection that just failed while another one is alive.
RetryAvoidsFailed ==
  [][\A r \in All :
       req'[r].pc = "sent" /\ req'[r].attempts > req[r].attempts /\ req'[r].conn = req[r].conn
         => \A c \in pool'.conns \ {req[r].conn} : pool'.status[c] = "dead"]_vars

\* NoLivingConnectionsError is never given while the pool has connections: with every node dead
\* the client still tries them.
NeverWithoutConnection ==
  \A r \in All : req[r].reply = "noLiving" => pool.conns = {}

\* "If you abort a request, the request will fail with a RequestAbortedError": if it fails after
\* abort() was called, that is the error.
AbortedFailsAsAborted ==
  \A r \in Request :
    req[r].pc = "done" /\ req[r].aborted => req[r].reply \in {"ok", "aborted"}

\* Every request is answered: none stays under way for ever.
Answered == \A r \in Request : []<>~InFlight(r)

\* Every sniff ends, so that a later one can start.
SniffEnds == []<>~sniffing
=============================================================================
