-------------------------- MODULE Transport_proof --------------------------
(***************************************************************************)
(* The life of a request, for any requests, options, nodes and views: its  *)
(* types, one sniff at a time, nothing sent after abort(), and that what   *)
(* is seen of it follows RequestLifecycle; and, for a cluster whose nodes  *)
(* do not change, that a request finds a connection and a retry avoids the *)
(* one that failed.                                                        *)
(***************************************************************************)
EXTENDS Transport, PoolOps_proof

ClientType ==
  [req : [All -> RequestType], sniffing : BOOLEAN, due : BOOLEAN, pool : PoolType,
   pings : [Conn -> Nat]]

\* A request that may still report to its connection holds one.
Holds(S) ==
  \A r \in All :
    S.req[r].pc \in {"sent", "aborting", "reading", "inflating"} => S.req[r].conn # None

Typed(S) == S \in ClientType /\ PoolInv(S.pool) /\ Holds(S)

Exclusive(S) == S.sniffing <=> S.req[Sniff].pc \notin {"idle", "done"}

\* A handler of r may run.  While it runs for the sniff, where that stands does not matter yet.
Ready(S, r) == Typed(S) /\ IF r = Sniff THEN S.sniffing ELSE Exclusive(S)

\* The stages at which a handler may report to the connection.
Reporting == {"sent", "aborting", "reading", "inflating"}

\* The requests of the user but r are the same.
Others(S, T, r) == \A x \in Request \ {r} : T.req[x] = S.req[x]

\* On the way to the end of a handler, r has not been told about, nor moved.
Framed(S, T, r) ==
  /\ Others(S, T, r)
  /\ r # Sniff => /\ T.req[r].aborted = S.req[r].aborted /\ T.req[r].pc = S.req[r].pc
                  /\ T.req[r].seen = S.req[r].seen /\ T.req[r].answers = S.req[r].answers

\* What a handler tells about a request that it takes from a to b.
Tells(a, b) ==
  \/ b.answers = a.answers
     /\ \/ b.pc = "failing" /\ b.seen = a.seen
        \/ a.pc = "idle" /\ b.pc = "compressing" /\ b.seen = a.seen
        \/ b.pc = "sent" /\ b.seen = "request"
        \/ a.pc = "sent" /\ b.pc = "reading" /\ b.seen = "deserialization"
        \/ a.pc = "reading" /\ b.pc = "inflating" /\ b.seen = a.seen
  \/ b.answers = a.answers + 1 /\ b.pc = "done" /\ a.pc # "idle"
     /\ \/ b.seen = a.seen
        \/ a.pc = "compressing" /\ b.seen = "request"
        \/ a.pc \in Reporting /\ b.seen = "response"

\* What a handler of r may leave of S.
Outcome(S, T, r) ==
  /\ Typed(T) /\ Exclusive(T) /\ Others(S, T, r)
  /\ T.req[r].pc # "idle"
  /\ r # Sniff => /\ T.req[r].aborted = S.req[r].aborted
                  /\ S.req[r].aborted => T.req[r].pc # "sent"
                  /\ Tells(S.req[r], T.req[r])

-----------------------------------------------------------------------------
\* Writing the record of one request.
LEMMA WithRequest ==
  ASSUME NEW S \in ClientType, NEW r \in All, NEW q \in RequestType
  PROVE  LET T == [S EXCEPT !.req[r] = q]
         IN  /\ T \in ClientType
             /\ T.req[r] = q /\ \A x \in All \ {r} : T.req[x] = S.req[x]
             /\ T.sniffing = S.sniffing /\ T.due = S.due /\ T.pool = S.pool /\ T.pings = S.pings
BY DEF ClientType

\* The states in between pass on what is framed.
LEMMA OutcomeVia ==
  ASSUME NEW S, NEW M, NEW T, NEW r \in All, Framed(S, M, r), Outcome(M, T, r)
  PROVE  Outcome(S, T, r)
BY DEF Framed, Others, Outcome, Tells

\* process.nextTick(callback, error) leaves the request under way.
LEMMA ScheduleOutcome ==
  ASSUME NEW S, NEW r \in All, Ready(S, r), NEW error \in Replies
  PROVE  Outcome(S, Schedule(S, r, error), r) /\ Schedule(S, r, error).req[r].pc = "failing"
<1> DEFINE q == [S.req[r] EXCEPT !.pc = "failing", !.reply = error]
           T == [S EXCEPT !.req[r] = q]
<1>1. S \in ClientType /\ S.req[r] \in RequestType /\ S.req \in [All -> RequestType]
  BY DEF Ready, Typed, ClientType
<1>2. q \in RequestType /\ q.pc = "failing" /\ q.aborted = S.req[r].aborted
      /\ q.seen = S.req[r].seen /\ q.answers = S.req[r].answers
  BY <1>1 DEF RequestType, Pcs
<1>3. Schedule(S, r, error) = T
  BY <1>1 DEF Schedule, ClientType
<1> HIDE DEF q
<1>4. /\ T \in ClientType
      /\ T.req[r] = q /\ \A x \in All \ {r} : T.req[x] = S.req[x]
      /\ T.sniffing = S.sniffing /\ T.pool = S.pool
  BY <1>1, <1>2, WithRequest
<1> HIDE DEF T
<1>5. Typed(T)
  BY <1>2, <1>4 DEF Ready, Typed, Holds
<1>6. Exclusive(T)
  BY <1>2, <1>4 DEF Ready, Exclusive, All
<1> QED
  BY <1>2, <1>3, <1>4, <1>5, <1>6 DEF Outcome, Others, Framed, Tells, All

\* The selector takes a connection of the pool, or there is none.
LEMMA ConnectOutcome ==
  ASSUME NEW S, NEW r \in All, Ready(S, r), r # Sniff => ~S.req[r].aborted,
         NEW T \in Connect(S, r)
  PROVE  Outcome(S, T, r)
<1> DEFINE p == Resurrected(S.pool)
           pings2 == [c \in Conn |-> IF c \in PingTarget(S.pool) THEN S.pings[c] + 1
                                                                ELSE S.pings[c]]
           M == [S EXCEPT !.pool = p, !.pings = pings2]
<1>1. S \in ClientType /\ PoolInv(S.pool)
  BY DEF Ready, Typed
<1>2. PoolInv(p) /\ p \in PoolType
  BY <1>1, ResurrectedInv DEF PoolInv
<1>3. pings2 \in [Conn -> Nat]
  BY <1>1 DEF ClientType
<1>4. T \in IF Candidates(p) = {} THEN {Schedule(M, r, "noLiving")}
            ELSE {[M EXCEPT !.req[r] = [@ EXCEPT !.pc = "sent", !.conn = c, !.seen = "request"]] :
                    c \in Candidates(p)}
  BY <1>1 DEF Connect, ClientType
<1> HIDE DEF p, pings2
<1>5. M \in ClientType /\ M.req = S.req /\ M.pool = p /\ M.sniffing = S.sniffing
  BY <1>1, <1>2, <1>3 DEF ClientType
<1> HIDE DEF M
<1>6. Ready(M, r) /\ Framed(S, M, r)
  BY <1>2, <1>5 DEF Ready, Typed, Holds, Exclusive, Framed, Others
<1>7. CASE T = Schedule(M, r, "noLiving")
  BY <1>6, <1>7, ScheduleOutcome, OutcomeVia DEF Replies
<1>8. ASSUME NEW c \in Candidates(p),
             T = [M EXCEPT !.req[r] = [@ EXCEPT !.pc = "sent", !.conn = c, !.seen = "request"]]
      PROVE  Outcome(S, T, r)
  <2> DEFINE q == [M.req[r] EXCEPT !.pc = "sent", !.conn = c, !.seen = "request"]
  <2>1. c \in Conn /\ c # None
    BY <1>2, RequestAssumption DEF Candidates, PoolType
  <2>2. M.req[r] \in RequestType
    BY <1>5 DEF ClientType
  <2>3. q \in RequestType /\ q.pc = "sent" /\ q.conn = c /\ q.aborted = M.req[r].aborted
        /\ q.seen = "request" /\ q.answers = M.req[r].answers
    BY <2>1, <2>2 DEF RequestType, Pcs, Events
  <2>4. T = [M EXCEPT !.req[r] = q]
    BY <1>5, <1>8 DEF ClientType
  <2> HIDE DEF q
  <2>5. /\ T \in ClientType
        /\ T.req[r] = q /\ \A x \in All \ {r} : T.req[x] = M.req[x]
        /\ T.sniffing = M.sniffing /\ T.pool = M.pool
    BY <1>5, <2>3, <2>4, WithRequest
  <2>6. Typed(T)
    BY <1>6, <2>1, <2>3, <2>5 DEF Ready, Typed, Holds
  <2>7. Exclusive(T)
    BY <1>6, <2>3, <2>5 DEF Ready, Exclusive, All
  <2> QED
    BY <1>5, <2>3, <2>5, <2>6, <2>7 DEF Outcome, Others, Framed, Tells, All
<1> QED
  BY <1>4, <1>7, <1>8

\* sniff(), when none is going on, leaves its request sent or about to fail.
LEMMA SniffStarted ==
  ASSUME NEW S, Typed(S), ~S.sniffing, NEW T \in MaybeSniff(S, TRUE)
  PROVE  Typed(T) /\ Exclusive(T) /\ \A x \in Request : T.req[x] = S.req[x]
<1> DEFINE q == [Idle(SniffOptions) EXCEPT !.seen = "serialization"]
           M == [S EXCEPT !.sniffing = TRUE, !.req[Sniff] = q]
           N == [S EXCEPT !.sniffing = TRUE]
<1>1. T \in Connect(M, Sniff)
  BY DEF MaybeSniff
<1>2. q \in RequestType /\ q.pc = "idle" /\ q.aborted = FALSE
  BY DEF Idle, RequestType, Pcs, Events, Replies
<1>3. S \in ClientType /\ N \in ClientType /\ N.req = S.req /\ N.sniffing = TRUE /\ N.pool = S.pool
  BY DEF Typed, ClientType
<1>4. M = [N EXCEPT !.req[Sniff] = q]
  BY <1>3 DEF ClientType
<1> HIDE DEF q, M, N
<1>5. Sniff \in All
  BY DEF All
<1>6. /\ M \in ClientType
      /\ M.req[Sniff] = q /\ \A x \in All \ {Sniff} : M.req[x] = S.req[x]
      /\ M.sniffing = TRUE /\ M.pool = S.pool
  BY <1>2, <1>3, <1>4, <1>5, WithRequest
<1>7. Ready(M, Sniff)
  BY <1>2, <1>6 DEF Ready, Typed, Holds
<1>8. Outcome(M, T, Sniff)
  BY <1>1, <1>5, <1>7, ConnectOutcome
<1>9. \A x \in Request : T.req[x] = S.req[x]
  BY <1>6, <1>8, RequestAssumption DEF Outcome, Others, Framed, Tells, All
<1> QED
  BY <1>8, <1>9 DEF Outcome

\* sniff() within a handler: a second one does nothing.
LEMMA MaybeSniffReady ==
  ASSUME NEW S, NEW r \in All, Ready(S, r), NEW wanted, NEW T \in MaybeSniff(S, wanted)
  PROVE  Ready(T, r) /\ Framed(S, T, r)
<1>1. CASE ~(wanted /\ ~S.sniffing)
  <2>1. T = S
    BY <1>1 DEF MaybeSniff
  <2> QED
    BY <2>1 DEF Framed, Others
<1>2. CASE wanted /\ ~S.sniffing
  <2>1. r # Sniff /\ r \in Request /\ Typed(S)
    BY <1>2 DEF Ready, All
  <2>2. T \in MaybeSniff(S, TRUE)
    BY <1>2 DEF MaybeSniff
  <2> QED
    BY <1>2, <2>1, <2>2, SniffStarted DEF Ready, Framed, Others
<1> QED
  BY <1>1, <1>2

LEMMA MakeRequestOutcome ==
  ASSUME NEW S, NEW r \in All, Ready(S, r), NEW T \in MakeRequest(S, r)
  PROVE  Outcome(S, T, r)
<1>1. CASE S.req[r].aborted
  BY <1>1, ScheduleOutcome DEF MakeRequest, Replies
<1>2. CASE ~S.req[r].aborted
  <2>1. PICK M \in MaybeSniff(S, SniffInterval /\ S.due) : T \in Connect(M, r)
    BY <1>2 DEF MakeRequest
  <2>2. /\ Ready(M, r) /\ Framed(S, M, r)
        /\ r # Sniff => ~M.req[r].aborted
    BY <1>2, <2>1, MaybeSniffReady DEF Framed, Others
  <2> QED
    BY <2>1, <2>2, ConnectOutcome, OutcomeVia
<1> QED
  BY <1>1, <1>2

-----------------------------------------------------------------------------
\* The callback of a sniff's request: whatever the reply, the flag is reset; if it is the list of
\* nodes, the pool is updated with connections nothing else refers to.
LEMMA SniffEndedTyped ==
  ASSUME NEW S, Typed(S), NEW reply, NEW T \in SniffEnded(S, reply)
  PROVE  Typed(T) /\ T.req = S.req /\ T.sniffing = FALSE
<1> DEFINE M == [S EXCEPT !.sniffing = FALSE, !.due = FALSE]
<1>1. S \in ClientType /\ PoolInv(S.pool) /\ Holds(S)
  BY DEF Typed
<1>2. M \in ClientType /\ M.req = S.req /\ M.pool = S.pool /\ M.sniffing = FALSE
  BY <1>1 DEF ClientType
<1>3. T = M \/ \E view \in Views :
                  \E created \in Injection(NewNodes(S.pool, view), Unreferenced(S)) :
                    T = [M EXCEPT !.pool = Updated(S.pool, view, created)]
  <2> DEFINE After(view) == {[M EXCEPT !.pool = Updated(S.pool, view, created)] :
                               created \in Injection(NewNodes(S.pool, view), Unreferenced(S))}
  <2>1. T \in IF reply # "ok" THEN {M} ELSE UNION {After(view) : view \in Views}
    BY Zenon DEF SniffEnded
  <2> HIDE DEF M
  <2>2. \A view \in Views : T \in After(view) =>
          \E created \in Injection(NewNodes(S.pool, view), Unreferenced(S)) :
            T = [M EXCEPT !.pool = Updated(S.pool, view, created)]
    OBVIOUS
  <2> HIDE DEF After
  <2>3. T = M \/ \E view \in Views : T \in After(view)
    BY <2>1
  <2> QED
    BY <2>2, <2>3
<1> HIDE DEF M
<1>4. CASE T = M
  BY <1>1, <1>2, <1>4 DEF Typed, Holds
<1>5. ASSUME NEW view \in Views, NEW created \in Injection(NewNodes(S.pool, view), Unreferenced(S)),
             T = [M EXCEPT !.pool = Updated(S.pool, view, created)]
      PROVE  Typed(T) /\ T.req = S.req /\ T.sniffing = FALSE
  <2>1. view \in SUBSET NodeId
    BY HostAssumption
  <2>2. /\ created \in [NewNodes(S.pool, view) -> Conn]
        /\ \A m, n \in NewNodes(S.pool, view) : created[m] = created[n] => m = n
        /\ \A n \in NewNodes(S.pool, view) : created[n] \notin S.pool.conns
    BY DEF Injection, IsInjective, Unreferenced
  <2>3. PoolInv(Updated(S.pool, view, created))
    BY <1>1, <2>1, <2>2, UpdatedInv
  <2>4. Updated(S.pool, view, created) \in PoolType
    BY <2>3 DEF PoolInv
  <2>5. /\ T \in ClientType /\ T.req = S.req /\ T.sniffing = FALSE
        /\ T.pool = Updated(S.pool, view, created)
    BY <1>2, <1>5, <2>4 DEF ClientType
  <2> QED
    BY <1>1, <2>3, <2>5 DEF Typed, Holds
<1> QED
  BY <1>3, <1>4, <1>5

LEMMA CallbackDone ==
  ASSUME NEW S, NEW r \in All, Ready(S, r), NEW reply \in Replies, NEW T \in Callback(S, r, reply)
  PROVE  /\ Typed(T) /\ Exclusive(T) /\ Others(S, T, r)
         /\ T.req[r].pc = "done" /\ T.req[r].seen = S.req[r].seen
         /\ T.req[r].answers = S.req[r].answers + 1 /\ T.req[r].aborted = S.req[r].aborted
<1> DEFINE q == [S.req[r] EXCEPT !.pc = "done", !.reply = reply,
                               !.answers = S.req[r].answers + 1, !.conn = None]
           M == [S EXCEPT !.req[r] = q]
<1>1. S \in ClientType /\ S.req[r] \in RequestType
  BY DEF Ready, Typed, ClientType
<1>2. q \in RequestType /\ q.pc = "done" /\ q.aborted = S.req[r].aborted
      /\ q.seen = S.req[r].seen /\ q.answers = S.req[r].answers + 1
  <2>1. S.req[r].answers + 1 \in Nat
    BY <1>1 DEF RequestType
  <2> QED
    BY <1>1, <2>1 DEF RequestType, Pcs
<1>3. T \in IF r = Sniff THEN SniffEnded(M, reply) ELSE {M}
  <2>1. [S EXCEPT !.req[r] = [@ EXCEPT !.pc = "done", !.reply = reply,
                                       !.answers = S.req[r].answers + 1, !.conn = None]] = M
    BY <1>1 DEF ClientType, RequestType
  <2> HIDE DEF M
  <2> QED
    BY <2>1 DEF Callback
<1> HIDE DEF q
<1>4. /\ M \in ClientType
      /\ M.req[r] = q /\ \A x \in All \ {r} : M.req[x] = S.req[x]
      /\ M.sniffing = S.sniffing /\ M.pool = S.pool
  BY <1>1, <1>2, WithRequest
<1> HIDE DEF M
<1>5. Typed(M)
  BY <1>2, <1>4 DEF Ready, Typed, Holds
<1>6. Typed(T) /\ T.req = M.req /\ Exclusive(T)
  <2>1. CASE r = Sniff
    BY <1>2, <1>3, <1>4, <1>5, <2>1, SniffEndedTyped DEF Exclusive
  <2>2. CASE r # Sniff
    BY <1>3, <1>4, <1>5, <2>2 DEF Ready, Exclusive, All
  <2> QED
    BY <2>1, <2>2
<1> QED
  BY <1>2, <1>4, <1>6 DEF Others, All

LEMMA CallbackOutcome ==
  ASSUME NEW S, NEW r \in All, Ready(S, r), NEW reply \in Replies, NEW T \in Callback(S, r, reply),
         S.req[r].pc # "idle"
  PROVE  Outcome(S, T, r)
<1>1. Tells(S.req[r], T.req[r])
  BY CallbackDone DEF Tells
<1> QED
  BY <1>1, CallbackDone DEF Outcome

\* An event is emitted with the callback.
LEMMA EmittedOutcome ==
  ASSUME NEW S, NEW r \in All, Ready(S, r), NEW reply \in Replies,
         NEW event \in {"request", "response"},
         r # Sniff => S.req[r].pc \in (IF event = "request" THEN {"compressing"} ELSE Reporting),
         NEW T \in Callback([S EXCEPT !.req[r].seen = event], r, reply)
  PROVE  Outcome(S, T, r)
<1> DEFINE q == [S.req[r] EXCEPT !.seen = event]
           M == [S EXCEPT !.req[r] = q]
<1>1. S \in ClientType /\ S.req[r] \in RequestType
  BY DEF Ready, Typed, ClientType
<1>2. q \in RequestType /\ q.pc = S.req[r].pc /\ q.conn = S.req[r].conn
      /\ q.aborted = S.req[r].aborted /\ q.seen = event /\ q.answers = S.req[r].answers
  BY <1>1 DEF RequestType, Events
<1>3. [S EXCEPT !.req[r].seen = event] = M
  BY <1>1 DEF ClientType
<1> HIDE DEF q
<1>4. /\ M \in ClientType
      /\ M.req[r] = q /\ \A x \in All \ {r} : M.req[x] = S.req[x]
      /\ M.sniffing = S.sniffing /\ M.pool = S.pool
  BY <1>1, <1>2, WithRequest
<1> HIDE DEF M
<1>5. Ready(M, r)
  BY <1>2, <1>4 DEF Ready, Typed, Holds, Exclusive, All
<1>6. Typed(T) /\ Exclusive(T) /\ Others(M, T, r)
      /\ T.req[r].pc = "done" /\ T.req[r].seen = event
      /\ T.req[r].answers = M.req[r].answers + 1 /\ T.req[r].aborted = M.req[r].aborted
  BY <1>2, <1>3, <1>4, <1>5, CallbackDone
<1>7. Others(S, T, r)
  BY <1>4, <1>6 DEF Others, All
<1>8. r # Sniff => Tells(S.req[r], T.req[r])
  BY <1>2, <1>4, <1>6 DEF Tells, Reporting
<1> QED
  BY <1>2, <1>4, <1>6, <1>7, <1>8 DEF Outcome

LEMMA RespondOutcome ==
  ASSUME NEW S, NEW r \in All, Ready(S, r), r # Sniff => S.req[r].pc \in Reporting,
         NEW reply \in Replies, NEW T \in Respond(S, r, reply)
  PROVE  Outcome(S, T, r)
BY EmittedOutcome DEF Respond

\* A new pool, and nothing else.
LEMMA WithPool ==
  ASSUME NEW S, NEW r \in All, Ready(S, r), NEW p, PoolInv(p)
  PROVE  LET T == [S EXCEPT !.pool = p]
         IN  Ready(T, r) /\ Framed(S, T, r) /\ T.req = S.req /\ T.pool = p
BY DEF Ready, Typed, Holds, Exclusive, Framed, Others, ClientType, PoolInv

LEMMA HeldConnection ==
  ASSUME NEW S, NEW r \in All, Ready(S, r), S.req[r].pc \in Reporting
  PROVE  S.req[r].conn \in Conn /\ PoolInv(S.pool)
BY DEF Ready, Typed, ClientType, RequestType, Holds, Reporting

LEMMA MarkedDeadReady ==
  ASSUME NEW S, NEW r \in All, Ready(S, r), S.req[r].pc \in Reporting, NEW T \in MarkedDead(S, r)
  PROVE  Ready(T, r) /\ Framed(S, T, r) /\ T.req = S.req
<1>1. PICK p \in MarkDead(S.pool, S.req[r].conn) : T = [S EXCEPT !.pool = p]
  BY DEF MarkedDead
<1>2. PoolInv(p)
  BY HeldConnection, MarkDeadInv
<1> QED
  BY <1>1, <1>2, WithPool

LEMMA MarkAliveReady ==
  ASSUME NEW S, NEW r \in All, Ready(S, r), S.req[r].pc \in Reporting
  PROVE  LET T == [S EXCEPT !.pool = MarkAlive(@, S.req[r].conn)]
         IN  Ready(T, r) /\ Framed(S, T, r)
<1>1. PoolInv(MarkAlive(S.pool, S.req[r].conn))
  BY HeldConnection, MarkAliveInv
<1> QED
  BY <1>1, WithPool

LEMMA RetryOrOutcome ==
  ASSUME NEW S, NEW r \in All, Ready(S, r), NEW otherwise,
         \A T \in otherwise : Outcome(S, T, r),
         NEW T \in RetryOr(S, r, otherwise)
  PROVE  Outcome(S, T, r)
<1>1. CASE ~(S.req[r].attempts < Retries(S.req[r].opts))
  BY <1>1 DEF RetryOr
<1>2. CASE S.req[r].attempts < Retries(S.req[r].opts)
  <2> DEFINE q == [S.req[r] EXCEPT !.attempts = S.req[r].attempts + 1]
             M == [S EXCEPT !.req[r] = q]
  <2>1. S \in ClientType /\ S.req[r] \in RequestType
    BY DEF Ready, Typed, ClientType
  <2>2. q \in RequestType /\ q.pc = S.req[r].pc /\ q.conn = S.req[r].conn
        /\ q.aborted = S.req[r].aborted
        /\ q.seen = S.req[r].seen /\ q.answers = S.req[r].answers
    BY <2>1 DEF RequestType
  <2>3. T \in MakeRequest(M, r)
    BY <1>2, <2>1 DEF RetryOr, ClientType
  <2> HIDE DEF q
  <2>4. /\ M \in ClientType
        /\ M.req[r] = q /\ \A x \in All \ {r} : M.req[x] = S.req[x]
        /\ M.sniffing = S.sniffing /\ M.pool = S.pool
    BY <2>1, <2>2, WithRequest
  <2> HIDE DEF M
  <2>5. Ready(M, r) /\ Framed(S, M, r)
    BY <2>2, <2>4 DEF Ready, Typed, Holds, Exclusive, Framed, Others, All
  <2> QED
    BY <2>3, <2>5, MakeRequestOutcome, OutcomeVia
<1> QED
  BY <1>1, <1>2

LEMMA OnConnectionErrorOutcome ==
  ASSUME NEW S, NEW r \in All, Ready(S, r), S.req[r].pc \in Reporting,
         NEW error \in {"connection", "timeout", "aborted"},
         NEW T \in OnConnectionError(S, r, error)
  PROVE  Outcome(S, T, r)
<1>1. CASE error = "aborted"
  BY <1>1, RespondOutcome DEF OnConnectionError, Replies
<1>2. CASE error # "aborted"
  <2>1. PICK M \in MarkedDead(S, r) :
          T \in UNION {RetryOr(N, r, Respond(N, r, error)) : N \in MaybeSniff(M, SniffOnFault)}
    BY <1>2 DEF OnConnectionError
  <2>2. PICK N \in MaybeSniff(M, SniffOnFault) : T \in RetryOr(N, r, Respond(N, r, error))
    BY <2>1
  <2>3. Ready(M, r) /\ Framed(S, M, r)
    BY <2>1, MarkedDeadReady
  <2>4. Ready(N, r) /\ Framed(M, N, r)
    BY <2>2, <2>3, MaybeSniffReady
  <2>5. \A X \in Respond(N, r, error) : Outcome(N, X, r)
    BY <2>3, <2>4, RespondOutcome DEF Framed, Replies
  <2>6. Outcome(N, T, r)
    BY <2>2, <2>4, <2>5, RetryOrOutcome
  <2> QED
    BY <2>3, <2>4, <2>6, OutcomeVia
<1> QED
  BY <1>1, <1>2

LEMMA OnBodyOutcome ==
  ASSUME NEW S, NEW r \in All, Ready(S, r), S.req[r].pc \in Reporting,
         NEW content \in Contents \ {"tooLarge"}, NEW T \in OnBody(S, r, content)
  PROVE  Outcome(S, T, r)
<1>1. CASE content = "undecodable"
  BY <1>1, RespondOutcome DEF OnBody, Replies
<1>2. CASE content = "gateway"
  <2>1. PICK M \in MarkedDead(S, r) : T \in RetryOr(M, r, Respond(M, r, "response"))
    BY <1>2 DEF OnBody
  <2>2. Ready(M, r) /\ Framed(S, M, r)
    BY <2>1, MarkedDeadReady
  <2>3. \A X \in Respond(M, r, "response") : Outcome(M, X, r)
    BY <2>2, RespondOutcome DEF Framed, Replies
  <2>4. Outcome(M, T, r)
    BY <2>1, <2>2, <2>3, RetryOrOutcome
  <2> QED
    BY <2>2, <2>4, OutcomeVia
<1> DEFINE M == [S EXCEPT !.pool = MarkAlive(@, S.req[r].conn)]
<1>3. Ready(M, r) /\ Framed(S, M, r)
  BY MarkAliveReady
<1>4. CASE content = "error"
  <2>1. T \in Respond(M, r, "response")
    BY <1>4 DEF OnBody
  <2> HIDE DEF M
  <2> QED
    BY <1>3, <2>1, RespondOutcome, OutcomeVia DEF Framed, Replies
<1>5. CASE content = "ok"
  <2>1. T \in Respond(M, r, "ok")
    BY <1>5 DEF OnBody
  <2> HIDE DEF M
  <2> QED
    BY <1>3, <2>1, RespondOutcome, OutcomeVia DEF Framed, Replies
<1> QED
  BY <1>1, <1>2, <1>4, <1>5, SwitchAssumption

-----------------------------------------------------------------------------
(***************************************************************************)
(* The invariant: types, the pool's own consistency, one sniff at a time,  *)
(* an aborted request is not at the sent stage, and what was told of a     *)
(* request is known from its stage.                                        *)
(***************************************************************************)
Underway == {"serialization", "request", "deserialization"}

Told(q) ==
  /\ q.pc = "idle" => q.seen = "nothing"
  /\ q.pc = "compressing" => q.seen = "serialization"
  /\ q.pc \in {"sent", "aborting"} => q.seen = "request"
  /\ q.pc \in {"reading", "inflating"} => q.seen = "deserialization"
  /\ q.pc = "failing" => q.seen \in Underway
  /\ q.answers = IF q.pc = "done" THEN 1 ELSE 0

Sound(S) ==
  /\ Typed(S) /\ Exclusive(S)
  /\ \A r \in Request : /\ S.req[r].pc = "idle" => ~S.req[r].aborted
                        /\ S.req[r].aborted => S.req[r].pc # "sent"
                        /\ Told(S.req[r])

\* A step of the lifecycle of a request.
Moves(a, b) ==
  \/ b.seen = a.seen /\ b.answers = a.answers
  \/ /\ a.answers = 0 /\ b.answers = 0
     /\ \/ a.seen = "nothing" /\ b.seen \in {"serialization", "request"}
        \/ a.seen \in Underway /\ b.seen = "request"
        \/ a.seen = "request" /\ b.seen = "deserialization"
  \/ /\ a.answers = 0 /\ b.answers = 1
     /\ \/ a.seen \in {"request", "deserialization"} /\ b.seen = "response"
        \/ a.seen \in Underway /\ b.seen = a.seen
        \/ a.seen = "serialization" /\ b.seen = "request"

\* What an action makes of the state: something is told of one request at most.
Stepped ==
  \E T : /\ Becomes(T) /\ Sound(T)
         /\ \A r \in Request : req[r].aborted => T.req[r].aborted
         /\ \E r \in All : Others(State, T, r) /\ (r # Sniff => Moves(req[r], T.req[r]))

LEMMA TellsMoves ==
  ASSUME NEW a, NEW b, Told(a), Tells(a, b), a.pc \notin {"idle", "done"}, a.pc \in Pcs
  PROVE  Told(b) /\ Moves(a, b)
BY DEF Told, Tells, Moves, Underway, Reporting, Pcs

LEMMA StateFields ==
  /\ State.req = req /\ State.sniffing = sniffing /\ State.due = due
  /\ State.pool = pool /\ State.pings = pings
BY DEF State

\* A state the client becomes is the next one.
LEMMA BecomesSound ==
  ASSUME NEW T, Becomes(T), Sound(T)
  PROVE  Sound(State)'
<1>1. T \in ClientType
  BY DEF Sound, Typed
<1>2. /\ req' = T.req /\ sniffing' = T.sniffing /\ due' = T.due /\ pool' = T.pool
      /\ pings' = T.pings
  BY DEF Becomes
<1>3. State' = T
  BY <1>1, <1>2 DEF State, ClientType
<1> QED
  BY <1>3 DEF Sound, Typed, Exclusive, Holds

\* A handler of r runs.
LEMMA HandlerSteps ==
  ASSUME Sound(State), NEW r \in All, InFlight(r), NEW T, Becomes(T), Outcome(State, T, r)
  PROVE  Stepped
<1>1. \A x \in Request : x # r => T.req[x] = State.req[x]
  BY DEF Outcome, Others
<1>2. r # Sniff => /\ T.req[r].aborted = State.req[r].aborted
                   /\ T.req[r].pc # "idle"
                   /\ State.req[r].aborted => T.req[r].pc # "sent"
                   /\ Tells(State.req[r], T.req[r])
  BY DEF Outcome
<1>3. r # Sniff => Told(T.req[r]) /\ Moves(req[r], T.req[r])
  <2> SUFFICES ASSUME r # Sniff PROVE Told(T.req[r]) /\ Moves(req[r], T.req[r])
    OBVIOUS
  <2>1. State.req[r] = req[r] /\ r \in Request /\ req[r] \in RequestType
    BY StateFields DEF Sound, Typed, ClientType, All
  <2>2. Told(req[r]) /\ req[r].pc \notin {"idle", "done"} /\ req[r].pc \in Pcs
    BY <2>1 DEF Sound, InFlight, RequestType
  <2> QED
    BY <1>2, <2>1, <2>2, TellsMoves
<1>4. Sound(T)
  BY <1>1, <1>2, <1>3, RequestAssumption DEF Sound, Outcome
<1>5. \A x \in Request : req[x].aborted => T.req[x].aborted
  BY <1>1, <1>2, RequestAssumption, StateFields
<1>6. Others(State, T, r)
  BY DEF Outcome
<1> QED
  BY <1>3, <1>4, <1>5, <1>6 DEF Stepped

\* A handler of a request under way may run.
LEMMA HandlerReady ==
  ASSUME Sound(State), NEW r \in All, InFlight(r)
  PROVE  Ready(State, r)
BY StateFields DEF Sound, Ready, Exclusive, InFlight

\* The request goes on waiting, with the connection it has.
LEMMA MovedOutcome ==
  ASSUME NEW S, NEW r \in All, Ready(S, r), NEW q \in RequestType,
         q.pc \notin {"idle", "done", "sent"}, q.aborted = S.req[r].aborted,
         q.pc \in Reporting => q.conn # None, r # Sniff => Tells(S.req[r], q)
  PROVE  Outcome(S, [S EXCEPT !.req[r] = q], r)
<1> DEFINE T == [S EXCEPT !.req[r] = q]
<1>1. S \in ClientType
  BY DEF Ready, Typed
<1>2. /\ T \in ClientType
      /\ T.req[r] = q /\ \A x \in All \ {r} : T.req[x] = S.req[x]
      /\ T.sniffing = S.sniffing /\ T.pool = S.pool
  BY <1>1, WithRequest
<1> HIDE DEF T
<1>3. Typed(T) /\ Exclusive(T)
  BY <1>2 DEF Ready, Typed, Holds, Exclusive, Reporting, All
<1>4. Outcome(S, T, r)
  BY <1>2, <1>3 DEF Outcome, Others, All
<1> QED
  BY <1>4 DEF T

-----------------------------------------------------------------------------
LEMMA InitSound == Init => Sound(State)
<1> SUFFICES ASSUME Init PROVE Sound(State)
  OBVIOUS
<1>1. PICK f \in Injection(InitialIds, Conn) :
        pool = [conns     |-> {f[i] : i \in InitialIds},
                dead      |-> <<>>,
                strategy  |-> Strategy,
                id        |-> [c \in Conn |-> IF c \in {f[i] : i \in InitialIds}
                                              THEN CHOOSE i \in InitialIds : f[i] = c
                                              ELSE CHOOSE i \in Id : TRUE],
                status    |-> [c \in Conn |-> "alive"],
                deadCount |-> [c \in Conn |-> 0],
                wait      |-> [c \in Conn |-> 0],
                usable    |-> [c \in Conn |-> TRUE]]
  BY DEF Init
<1> DEFINE made == {f[i] : i \in InitialIds}
           ids == [c \in Conn |-> IF c \in made THEN CHOOSE i \in InitialIds : f[i] = c
                                                ELSE CHOOSE i \in Id : TRUE]
<1>2. made \subseteq Conn /\ Strategy \in Strategies
  BY SwitchAssumption DEF Injection
<1>3. \A c \in made : c \in Conn => ids[c] \in InitialIds /\ f[ids[c]] = c
  OBVIOUS
<1>4. ids \in [Conn -> Id]
  <2>1. (CHOOSE i \in Id : TRUE) \in Id
    BY IdAssumption DEF Id
  <2>2. \A c \in Conn : ids[c] \in Id
    BY <1>3, <2>1, HostAssumption
  <2> QED
    BY <2>2
<1>5. PoolInv(pool)
  <2>1. \A c, d \in made : ids[c] = ids[d] => c = d
    BY <1>2, <1>3
  <2>2. pool = [conns |-> made, dead |-> <<>>, strategy |-> Strategy, id |-> ids,
                status |-> [c \in Conn |-> "alive"], deadCount |-> [c \in Conn |-> 0],
                wait |-> [c \in Conn |-> 0], usable |-> [c \in Conn |-> TRUE]]
    BY <1>1
  <2> HIDE DEF made, ids
  <2> QED
    BY <1>2, <1>4, <2>1, <2>2, NewPoolInv
<1>6. Idle(SniffOptions) \in RequestType /\ Idle(SniffOptions).pc = "idle"
      /\ ~Idle(SniffOptions).aborted /\ Told(Idle(SniffOptions))
  BY DEF Idle, RequestType, Pcs, Events, Replies, Told
<1>7. /\ req = [r \in All |-> Idle(SniffOptions)] /\ sniffing = FALSE /\ due = FALSE
      /\ pings = [c \in Conn |-> 0]
  BY DEF Init
<1>8. \A r \in All : req[r] \in RequestType /\ req[r].pc = "idle" /\ ~req[r].aborted /\ Told(req[r])
  BY <1>6, <1>7
<1>9. State \in ClientType
  BY <1>5, <1>7, <1>8 DEF State, ClientType, PoolInv
<1> QED
  BY <1>5, <1>7, <1>8, <1>9, StateFields DEF Sound, Typed, Exclusive, Holds, All

LEMMA IssueSteps ==
  ASSUME Sound(State), NEW r \in Request, Issue(r)
  PROVE  Stepped
<1>1. PICK o \in Options :
        LET S == [State EXCEPT !.req[r] = [Idle(o) EXCEPT !.seen = "serialization"]]
        IN  CASE o.body = "unserializable" ->
                   Becomes(Schedule([S EXCEPT !.req[r].seen = "request"], r, "serialization"))
              [] o.body = "gzip" -> Becomes([S EXCEPT !.req[r].pc = "compressing"])
              [] OTHER -> Handle(MakeRequest(S, r))
  BY DEF Issue
<1> DEFINE q == [Idle(o) EXCEPT !.seen = "serialization"]
           S == [State EXCEPT !.req[r] = q]
           u == [q EXCEPT !.seen = "request"]
           U == [S EXCEPT !.req[r] = u]
           g == [q EXCEPT !.pc = "compressing"]
           G == [S EXCEPT !.req[r] = g]
<1>2. /\ q \in RequestType /\ q.pc = "idle" /\ q.aborted = FALSE
      /\ q.seen = "serialization" /\ q.answers = 0
      /\ u \in RequestType /\ u.pc = "idle" /\ u.aborted = FALSE
      /\ u.seen = "request" /\ u.answers = 0
      /\ g \in RequestType /\ g.pc = "compressing" /\ g.aborted = FALSE
      /\ g.seen = "serialization" /\ g.answers = 0
  BY DEF Idle, RequestType, Pcs, Events, Replies
<1>3. State \in ClientType /\ r \in All /\ r # Sniff
  BY RequestAssumption DEF Sound, Typed, All
<1> HIDE DEF q
<1>4. /\ S \in ClientType
      /\ S.req[r] = q /\ \A x \in All \ {r} : S.req[x] = State.req[x]
      /\ S.sniffing = State.sniffing /\ S.pool = State.pool
  BY <1>2, <1>3, WithRequest
<1>5. [S EXCEPT !.req[r].seen = "request"] = U /\ [S EXCEPT !.req[r].pc = "compressing"] = G
  <2> HIDE DEF S
  <2> QED
    BY <1>3, <1>4 DEF ClientType
<1>6. \/ Becomes(Schedule(U, r, "serialization"))
      \/ Becomes(G)
      \/ \E T \in MakeRequest(S, r) : Becomes(T)
  <2> HIDE DEF U, G
  <2> QED
    BY <1>1, <1>5 DEF Handle, q
<1> HIDE DEF S, u, g
<1>7. /\ U \in ClientType
      /\ U.req[r] = u /\ \A x \in All \ {r} : U.req[x] = S.req[x]
      /\ U.sniffing = S.sniffing /\ U.pool = S.pool
  BY <1>2, <1>3, <1>4, WithRequest
<1>8. Ready(S, r)
  BY <1>2, <1>3, <1>4 DEF Sound, Ready, Typed, Holds, Exclusive, All
<1>9. Outcome(S, G, r)
  <2>1. Tells(S.req[r], g)
    BY <1>2, <1>4 DEF Tells
  <2> QED
    BY <1>2, <1>3, <1>4, <1>8, <2>1, MovedOutcome DEF Reporting
<1> HIDE DEF U, G
<1>10. Ready(U, r)
  BY <1>2, <1>3, <1>7, <1>8 DEF Ready, Typed, Holds, Exclusive, All
<1>11. PICK T : /\ Becomes(T)
                /\ \/ Outcome(S, T, r)
                   \/ Outcome(U, T, r) /\ T.req[r].pc = "failing"
  BY <1>3, <1>6, <1>8, <1>9, <1>10, ScheduleOutcome, MakeRequestOutcome DEF Replies
<1>12. Others(State, T, r) /\ Typed(T) /\ Exclusive(T)
  BY <1>4, <1>7, <1>11 DEF Outcome, Others, All
<1>13. T.req[r].pc # "idle" /\ ~T.req[r].aborted
  BY <1>2, <1>3, <1>4, <1>7, <1>11 DEF Outcome
<1>14. req[r].pc = "idle" /\ ~req[r].aborted /\ req[r].seen = "nothing" /\ req[r].answers = 0
  BY StateFields DEF Sound, Issue, Told
<1>15. Told(T.req[r]) /\ Moves(req[r], T.req[r])
  <2>1. CASE Outcome(S, T, r)
    <3>1. Tells(q, T.req[r])
      BY <1>3, <1>4, <2>1 DEF Outcome
    <3> QED
      BY <1>2, <1>14, <3>1 DEF Tells, Told, Moves, Underway, Reporting
  <2>2. CASE Outcome(U, T, r) /\ T.req[r].pc = "failing"
    <3>1. Tells(u, T.req[r])
      BY <1>3, <1>7, <2>2 DEF Outcome
    <3> QED
      BY <1>2, <1>14, <2>2, <3>1 DEF Tells, Told, Moves, Underway
  <2> QED
    BY <1>11, <2>1, <2>2
<1>16. Sound(T)
  BY <1>3, <1>12, <1>13, <1>15 DEF Sound, Others
<1>17. \A x \in Request : req[x].aborted => T.req[x].aborted
  BY <1>12, <1>14, StateFields DEF Others
<1> QED
  BY <1>3, <1>11, <1>12, <1>15, <1>16, <1>17 DEF Stepped

\* A request under way: what the runtime, or its own callbacks, make of it.
LEMMA HandlersStep ==
  ASSUME Sound(State), NEW r \in All, Http(r) \/ Local(r)
  PROVE  Stepped
<1>1. State.req[r] \in RequestType /\ req[r] = State.req[r]
  BY StateFields DEF Sound, Typed, ClientType
<1>2. InFlight(r)
  BY DEF Http, Local, ConnectionFault, Headers, BodyEnd, BodyFault, Aborted, Gzipped, Fail,
         Unzipped, InFlight
<1>3. Ready(State, r)
  BY <1>2, HandlerReady
<1> SUFFICES \E T : Becomes(T) /\ Outcome(State, T, r)
  BY <1>2, HandlerSteps
<1>4. CASE ConnectionFault(r)
  BY <1>1, <1>3, <1>4, OnConnectionErrorOutcome, SwitchAssumption
     DEF ConnectionFault, Handle, Reporting
<1>5. CASE Headers(r)
  <2> DEFINE q == [State.req[r] EXCEPT !.pc = "reading", !.seen = "deserialization"]
             T == [State EXCEPT !.req[r] = q]
  <2>1. req[r].pc = "sent" /\ req[r].conn # None
    BY <1>1, <1>3, <1>5 DEF Headers, Ready, Typed, Holds
  <2>2. [State EXCEPT !.req[r] = [@ EXCEPT !.pc = "reading", !.seen = "deserialization"]] = T
    BY <1>1 DEF State
  <2>3. \/ Handle(Respond(State, r, "ok"))
        \/ Handle(OnConnectionError(State, r, "aborted"))
        \/ Becomes(T)
    <3> HIDE DEF T
    <3> QED
      BY <1>5, <2>2 DEF Headers
  <2>4. q \in RequestType /\ q.pc = "reading" /\ q.conn # None
        /\ q.aborted = State.req[r].aborted /\ Tells(State.req[r], q)
    BY <1>1, <2>1 DEF RequestType, Pcs, Events, Tells
  <2> HIDE DEF q
  <2>5. Outcome(State, T, r)
    BY <1>3, <2>4, MovedOutcome
  <2> HIDE DEF T
  <2> QED
    BY <1>1, <1>3, <2>1, <2>3, <2>5, RespondOutcome, OnConnectionErrorOutcome
       DEF Handle, Replies, Reporting
<1>6. CASE BodyEnd(r)
  <2> DEFINE q == [State.req[r] EXCEPT !.pc = "inflating"]
             T == [State EXCEPT !.req[r] = q]
  <2>1. req[r].pc = "reading" /\ req[r].conn # None
    BY <1>1, <1>3, <1>6 DEF BodyEnd, Ready, Typed, Holds
  <2>2. [State EXCEPT !.req[r].pc = "inflating"] = T
    BY <1>1 DEF State
  <2>3. \/ \E content \in Contents \ {"tooLarge"} : Handle(OnBody(State, r, content))
        \/ Becomes(T)
    <3> HIDE DEF T
    <3> QED
      BY <1>6, <2>2 DEF BodyEnd
  <2>4. q \in RequestType /\ q.pc = "inflating" /\ q.conn # None
        /\ q.aborted = State.req[r].aborted /\ Tells(State.req[r], q)
    BY <1>1, <2>1 DEF RequestType, Pcs, Tells
  <2> HIDE DEF q
  <2>5. Outcome(State, T, r)
    BY <1>3, <2>4, MovedOutcome
  <2> HIDE DEF T
  <2> QED
    BY <1>1, <1>3, <2>1, <2>3, <2>5, OnBodyOutcome DEF Handle, Reporting
<1>7. CASE BodyFault(r)
  BY <1>1, <1>3, <1>7, OnConnectionErrorOutcome DEF BodyFault, Handle, Reporting
<1>8. CASE Aborted(r)
  BY <1>1, <1>3, <1>8, OnConnectionErrorOutcome DEF Aborted, Handle, Reporting
<1>9. CASE Gzipped(r)
  BY <1>1, <1>3, <1>9, MakeRequestOutcome, EmittedOutcome DEF Gzipped, Handle, Replies
<1>10. CASE Fail(r)
  <2>1. req[r].reply \in Replies
    BY <1>1 DEF RequestType
  <2> QED
    BY <1>1, <1>3, <1>10, <2>1, CallbackOutcome DEF Fail, Handle
<1>11. CASE Unzipped(r)
  BY <1>1, <1>3, <1>11, OnBodyOutcome DEF Unzipped, Handle, Reporting
<1> QED
  BY <1>4, <1>5, <1>6, <1>7, <1>8, <1>9, <1>10, <1>11 DEF Http, Local

LEMMA AbortSteps ==
  ASSUME Sound(State), NEW r \in Request, Abort(r)
  PROVE  Stepped
<1> DEFINE pc == IF req[r].pc = "sent" THEN "aborting" ELSE req[r].pc
           q == [State.req[r] EXCEPT !.aborted = TRUE, !.pc = pc]
           T == [State EXCEPT !.req[r] = q]
<1>1. State \in ClientType /\ r \in All /\ r # Sniff /\ State.req[r] \in RequestType
  BY RequestAssumption DEF Sound, Typed, ClientType, All
<1>2. Becomes(T)
  BY StateFields DEF Abort, State
<1>3. pc \in Pcs /\ pc \notin {"idle", "done", "sent"}
  BY <1>1, StateFields DEF Abort, InFlight, RequestType, Pcs
<1>4. pc \in Reporting => State.req[r].conn # None
  BY <1>1, StateFields DEF Reporting, Sound, Typed, Holds
<1>5. (State.req[r].pc = "sent" /\ pc = "aborting") \/ State.req[r].pc = pc
  BY StateFields
<1> HIDE DEF pc
<1>6. q \in RequestType /\ q.pc = pc /\ q.conn = State.req[r].conn /\ q.aborted = TRUE
      /\ q.seen = State.req[r].seen /\ q.answers = State.req[r].answers
  BY <1>1, <1>3 DEF RequestType
<1> HIDE DEF q
<1>7. /\ T \in ClientType
      /\ T.req[r] = q /\ \A x \in All \ {r} : T.req[x] = State.req[x]
      /\ T.sniffing = State.sniffing /\ T.pool = State.pool
  BY <1>1, <1>6, WithRequest
<1> HIDE DEF T
<1>8. Typed(T) /\ Exclusive(T)
  BY <1>1, <1>4, <1>6, <1>7 DEF Sound, Typed, Holds, Reporting, Exclusive, All
<1>9. Told(q)
  <2>1. Told(State.req[r])
    BY DEF Sound
  <2> QED
    BY <1>3, <1>6, <1>5, <2>1 DEF Told
<1>10. Sound(T)
  BY <1>3, <1>6, <1>7, <1>8, <1>9 DEF Sound, All
<1>11. \A x \in Request : req[x].aborted => T.req[x].aborted
  BY <1>6, <1>7, StateFields DEF All
<1>12. Others(State, T, r) /\ Moves(req[r], T.req[r])
  BY <1>6, <1>7, StateFields DEF Others, Moves, All
<1> QED
  BY <1>1, <1>2, <1>10, <1>11, <1>12 DEF Stepped

LEMMA UserSniffSteps ==
  ASSUME Sound(State), UserSniff
  PROVE  Stepped
<1>1. PICK T \in MaybeSniff(State, TRUE) : Becomes(T)
  BY DEF UserSniff, Handle
<1>2. Typed(T) /\ Exclusive(T) /\ \A x \in Request : T.req[x] = State.req[x]
  BY <1>1, StateFields, SniffStarted DEF UserSniff, Sound
<1>3. Sound(T) /\ \A x \in Request : req[x].aborted => T.req[x].aborted
  BY <1>2, StateFields DEF Sound
<1>4. Sniff \in All /\ Others(State, T, Sniff)
  BY <1>2 DEF Others, All
<1> QED
  BY <1>1, <1>3, <1>4 DEF Stepped

\* A ping is answered, or time goes by: that concerns the pool only.
LEMMA PoolSteps ==
  ASSUME Sound(State), NEW T \in ClientType, Becomes(T), PoolInv(T.pool),
         T.req = State.req, T.sniffing = State.sniffing
  PROVE  Stepped
<1>1. Sound(T)
  BY DEF Sound, Typed, Holds, Exclusive
<1>2. \A x \in Request : req[x].aborted => T.req[x].aborted
  BY StateFields
<1>3. Sniff \in All /\ Others(State, T, Sniff)
  BY DEF Others, All
<1> QED
  BY <1>1, <1>2, <1>3 DEF Stepped

LEMMA PongSteps ==
  ASSUME Sound(State), NEW c \in Conn, Pong(c)
  PROVE  Stepped
<1> DEFINE S == [State EXCEPT !.pings[c] = State.pings[c] - 1]
<1>1. State \in ClientType /\ PoolInv(pool)
  BY StateFields DEF Sound, Typed
<1>2. S \in ClientType /\ S.req = State.req /\ S.sniffing = State.sniffing
  <2>1. pings[c] \in Nat /\ pings[c] > 0 /\ State.pings[c] = pings[c]
    <3>1. State.pings \in [Conn -> Nat]
      BY <1>1 DEF ClientType
    <3> QED
      BY <3>1, StateFields DEF Pong
  <2>2. State.pings[c] - 1 \in Nat
    BY <2>1
  <2> QED
    BY <1>1, <2>2 DEF ClientType
<1>3. PICK T : /\ Becomes(T)
               /\ T = [S EXCEPT !.pool = MarkAlive(pool, c)]
                    \/ \E p \in MarkDead(pool, c) : T = [S EXCEPT !.pool = p]
  BY StateFields DEF Pong, Handle
<1>4. PICK p : PoolInv(p) /\ T = [S EXCEPT !.pool = p]
  BY <1>1, <1>3, MarkAliveInv, MarkDeadInv
<1> HIDE DEF S
<1>5. /\ T \in ClientType /\ PoolInv(T.pool)
      /\ T.req = State.req /\ T.sniffing = State.sniffing
  BY <1>2, <1>4 DEF ClientType, PoolInv
<1> QED
  BY <1>3, <1>5, PoolSteps

LEMMA TickSteps ==
  ASSUME Sound(State), Tick
  PROVE  Stepped
<1> DEFINE p == [pool EXCEPT !.wait = [c \in Conn |-> IF @[c] > 0 THEN @[c] - 1 ELSE 0]]
           T == [State EXCEPT !.pool = p]
<1>1. State \in ClientType /\ PoolInv(pool)
  BY StateFields DEF Sound, Typed
<1>2. PoolInv(p)
  BY <1>1, TickInv
<1>3. Becomes(T)
  BY StateFields DEF Tick, State
<1> HIDE DEF p
<1>4. /\ T \in ClientType /\ PoolInv(T.pool)
      /\ T.req = State.req /\ T.sniffing = State.sniffing
  BY <1>1, <1>2 DEF ClientType, PoolInv
<1> QED
  BY <1>3, <1>4, PoolSteps

LEMMA SniffTimerSteps ==
  ASSUME Sound(State), SniffTimer
  PROVE  Stepped
<1> DEFINE T == [State EXCEPT !.due = TRUE]
<1>1. State \in ClientType /\ PoolInv(State.pool)
  BY DEF Sound, Typed
<1>2. /\ T \in ClientType /\ PoolInv(T.pool)
      /\ T.req = State.req /\ T.sniffing = State.sniffing
  BY <1>1 DEF ClientType
<1>3. Becomes(T)
  BY DEF SniffTimer
<1> QED
  BY <1>2, <1>3, PoolSteps

LEMMA NextSteps ==
  ASSUME Sound(State), Next
  PROVE  Stepped
BY IssueSteps, AbortSteps, HandlersStep, SniffTimerSteps, UserSniffSteps, PongSteps, TickSteps
   DEF Next

LEMMA NextSound == Sound(State) /\ [Next]_vars => Sound(State)'
<1> SUFFICES ASSUME Sound(State), [Next]_vars PROVE Sound(State)'
  OBVIOUS
<1>1. CASE Next
  BY <1>1, NextSteps, BecomesSound DEF Stepped
<1>2. CASE UNCHANGED vars
  BY <1>2 DEF vars, State, Sound, Typed, Exclusive, Holds
<1> QED
  BY <1>1, <1>2

\* Every variable of Transport has its type, and who may report to a connection holds one.
THEOREM TransportTyped == Spec => []TypeOK
<1>1. Sound(State) => TypeOK
  BY StateFields DEF Sound, Typed, ClientType, Holds, TypeOK
<1> QED
  BY <1>1, InitSound, NextSound, PTL DEF Spec

\* _isSniffing is set exactly while the request of a sniff is under way.
THEOREM OneSniff == Spec => []SniffExclusive
<1>1. Sound(State) => SniffExclusive
  BY StateFields DEF Sound, Exclusive, SniffExclusive, InFlight
<1> QED
  BY <1>1, InitSound, NextSound, PTL DEF Spec

\* A request that was aborted is not sent again.
THEOREM AbortedStaysUnsent == Spec => NoSendAfterAbort
<1>1. Sound(State) /\ [Next]_vars =>
        [\A r \in Request : req[r].aborted => req'[r].pc # "sent"]_vars
  <2> SUFFICES ASSUME Sound(State), Next, NEW r \in Request, req[r].aborted
               PROVE  req'[r].pc # "sent"
    OBVIOUS
  <2>1. PICK T : /\ Becomes(T) /\ Sound(T)
                 /\ \A x \in Request : req[x].aborted => T.req[x].aborted
    BY NextSteps DEF Stepped
  <2>2. req' = T.req
    BY <2>1 DEF Becomes
  <2> QED
    BY <2>1, <2>2 DEF Sound
<1> QED
  BY <1>1, InitSound, NextSound, PTL DEF Spec, NoSendAfterAbort

\* What an observer sees follows RequestLifecycle: in particular each callback is called once.
THEOREM ImplementsLifecycle == Spec => FollowsLifecycle
<1> DEFINE seen == [r \in Request |-> req[r].seen]
           answers == [r \in Request |-> req[r].answers]
<1>1. Init => Lifecycle!Init
  <2> SUFFICES ASSUME Init PROVE Lifecycle!Init
    OBVIOUS
  <2>1. \A r \in Request : req[r].seen = "nothing" /\ req[r].answers = 0
    BY DEF Init, Idle, All
  <2> QED
    BY <2>1 DEF Lifecycle!Init
<1>2. Sound(State) /\ [Next]_vars => [Lifecycle!Next]_(Lifecycle!vars)
  <2> SUFFICES ASSUME Sound(State), [Next]_vars
               PROVE  Lifecycle!Next \/ UNCHANGED Lifecycle!vars
    OBVIOUS
  <2>1. CASE UNCHANGED vars
    BY <2>1 DEF vars, Lifecycle!vars
  <2>2. CASE Next
    <3>0. PICK T : /\ Becomes(T)
                   /\ \E r \in All : /\ Others(State, T, r)
                                     /\ r # Sniff => Moves(req[r], T.req[r])
      BY <2>2, NextSteps DEF Stepped
    <3>1. PICK r \in All : Others(State, T, r) /\ (r # Sniff => Moves(req[r], T.req[r]))
      BY <3>0
    <3>2. req' = T.req /\ \A x \in Request \ {r} : req'[x] = req[x]
      BY <3>0, <3>1, StateFields DEF Becomes, Others
    <3>3. CASE r = Sniff
      <4>1. \A x \in Request : req'[x] = req[x]
        BY <3>2, <3>3, RequestAssumption
      <4> QED
        BY <4>1 DEF Lifecycle!vars
    <3>4. CASE r # Sniff
      <4>1. r \in Request /\ Moves(req[r], req'[r])
        BY <3>1, <3>2, <3>4 DEF All
      <4>2. /\ seen' = [seen EXCEPT ![r] = req'[r].seen]
            /\ answers' = [answers EXCEPT ![r] = req'[r].answers]
            /\ seen[r] = req[r].seen /\ answers[r] = req[r].answers
        BY <3>2, <4>1
      <4> HIDE DEF seen, answers
      <4>3. req'[r].seen = req[r].seen /\ req'[r].answers = req[r].answers
              => seen' = seen /\ answers' = answers
        BY <3>2 DEF seen, answers
      <4>4. req'[r].answers = req[r].answers => answers' = answers
        BY <3>2 DEF answers
      <4>5. (seen' = seen /\ answers' = answers) \/ Lifecycle!Next
        BY <4>1, <4>2, <4>3, <4>4
           DEF Moves, Underway, Lifecycle!Next, Lifecycle!Issue, Lifecycle!Send,
               Lifecycle!Deserialize, Lifecycle!Respond, Lifecycle!GiveUp, Lifecycle!Emit,
               Lifecycle!Answer, seen, answers
      <4> QED
        BY <4>5 DEF Lifecycle!vars, seen, answers
    <3> QED
      BY <3>3, <3>4
  <2> QED
    BY <2>1, <2>2
<1> QED
  BY <1>1, <1>2, InitSound, NextSound, PTL DEF Spec, FollowsLifecycle, Lifecycle!Spec

-----------------------------------------------------------------------------
(***************************************************************************)
(* A cluster that stays as it is: the client is created with urls of nodes *)
(* V, and every sniff reports V.  Then no connection leaves the pool, and  *)
(* a request never reports to one that was replaced.  Without it the dead  *)
(* list and the statuses may disagree: see FixedTopology of                *)
(* ConnectionPool_proof.  No node of V is master only, so that the node    *)
(* filter lets all of them pass.                                           *)
(***************************************************************************)
FixedCluster(V) ==
  /\ V \in SUBSET (NodeId \ MasterOnly)
  /\ Views \subseteq {V}
  /\ InitialIds # {} /\ InitialIds \subseteq {UrlOf[n] : n \in V}

\* What holds between two handlers in such a cluster.
Calm(S, V) ==
  /\ Agree(S.pool) /\ S.pool.conns # {} /\ Covered(S.pool, V)
  /\ \A x \in All : S.req[x].conn \in S.pool.conns \cup {None} /\ S.req[x].reply # "noLiving"
  /\ \A c \in Conn : S.pings[c] > 0 => c \in S.pool.conns

\* The attempts of the other requests do not grow.
Elsewhere(S, T, r) == \A x \in All \ {r} : T.req[x].attempts \in {0, S.req[x].attempts}

KeepsDown(S, T) == \A c \in Conn : Down(S.pool, c) => Down(T.pool, c)

\* r is not sent to c, unless all connections are dead.
Avoids(T, r, c) == T.req[r].pc = "sent" /\ T.req[r].conn = c => AllDead(T.pool)

\* What a handler of r makes of a calm state.
Turned(S, T, r, V) ==
  /\ Calm(T, V) /\ Elsewhere(S, T, r)
  /\ T.req[r].attempts \in {0, S.req[r].attempts} \/ Avoids(T, r, S.req[r].conn)

LEMMA CalmRequest ==
  ASSUME NEW V, NEW S \in ClientType, Calm(S, V), NEW r \in All, NEW q \in RequestType,
         q.conn \in S.pool.conns \cup {None}, q.reply # "noLiving"
  PROVE  Calm([S EXCEPT !.req[r] = q], V)
<1> DEFINE T == [S EXCEPT !.req[r] = q]
<1>1. /\ T.req[r] = q /\ \A x \in All \ {r} : T.req[x] = S.req[x]
      /\ T.pool = S.pool /\ T.pings = S.pings
  BY WithRequest, ZenonT(30)
<1> HIDE DEF T
<1>2. Calm(T, V)
  BY <1>1 DEF Calm
<1> QED
  BY <1>2 DEF T

LEMMA ScheduleCalm ==
  ASSUME NEW V, NEW S, NEW r \in All, Ready(S, r), Calm(S, V),
         NEW error \in Replies \ {"noLiving"}
  PROVE  LET T == Schedule(S, r, error)
         IN  /\ Calm(T, V) /\ T.pool = S.pool
             /\ T.req[r].attempts = S.req[r].attempts /\ T.req[r].pc = "failing"
             /\ \A x \in All \ {r} : T.req[x] = S.req[x]
<1> DEFINE q == [S.req[r] EXCEPT !.pc = "failing", !.reply = error]
<1>1. S \in ClientType /\ S.req[r] \in RequestType
  BY DEF Ready, Typed, ClientType
<1>2. /\ q \in RequestType /\ q.conn = S.req[r].conn /\ q.reply = error
      /\ q.attempts = S.req[r].attempts /\ q.pc = "failing"
  BY <1>1 DEF RequestType, Pcs
<1>3. Schedule(S, r, error) = [S EXCEPT !.req[r] = q]
  BY <1>1 DEF Schedule, ClientType
<1> HIDE DEF q
<1>4. q.conn \in S.pool.conns \cup {None} /\ q.reply # "noLiving"
  BY <1>2 DEF Calm
<1> QED
  BY <1>1, <1>2, <1>3, <1>4, WithRequest, CalmRequest

\* A connection is found, and it is one that is not down unless all are.
LEMMA ConnectCalm ==
  ASSUME NEW V, NEW S, NEW r \in All, Ready(S, r), Calm(S, V), NEW T \in Connect(S, r)
  PROVE  /\ Calm(T, V) /\ KeepsDown(S, T)
         /\ T.req[r].attempts = S.req[r].attempts
         /\ \A x \in All \ {r} : T.req[x] = S.req[x]
         /\ \A c \in Conn : Down(S.pool, c) => Avoids(T, r, c)
<1> DEFINE p == Resurrected(S.pool)
           pings2 == [c \in Conn |-> IF c \in PingTarget(S.pool) THEN S.pings[c] + 1
                                                                ELSE S.pings[c]]
           M == [S EXCEPT !.pool = p, !.pings = pings2]
<1>1. S \in ClientType /\ PoolInv(S.pool) /\ S.req[r] \in RequestType
  BY DEF Ready, Typed, ClientType
<1>2. PoolInv(p) /\ p \in PoolType
  BY <1>1, ResurrectedInv DEF PoolInv
<1>3. Agree(p) /\ p.conns = S.pool.conns
  BY <1>1, ResurrectedAgree DEF Calm
<1>4. p.id = S.pool.id
  BY <1>1, ResurrectedFields DEF Resurrected
<1>5. Covered(p, V)
  BY <1>3, <1>4 DEF Calm, Covered, HasId
<1>6. pings2 \in [Conn -> Nat] /\ \A c \in Conn : pings2[c] > 0 => c \in p.conns
  <2>1. \A c \in PingTarget(S.pool) : c \in p.conns
    <3> SUFFICES ASSUME CanResurrect(S.pool) PROVE Head1(S.pool) \in p.conns
      BY DEF PingTarget
    <3>1. 1 \in DOMAIN S.pool.dead
      BY <1>1 DEF PoolInv, PoolType, CanResurrect
    <3> QED
      BY <1>1, <1>3, <3>1, FindInPool DEF PoolInv, Listed, Head1
  <2> QED
    BY <1>1, <1>3, <2>1 DEF ClientType, Calm
<1>7. T \in IF Candidates(p) = {} THEN {Schedule(M, r, "noLiving")}
            ELSE {[M EXCEPT !.req[r] = [@ EXCEPT !.pc = "sent", !.conn = c, !.seen = "request"]] :
                    c \in Candidates(p)}
  BY <1>1 DEF Connect, ClientType
<1>8. \A c \in Conn : Down(S.pool, c) => Down(p, c)
  BY <1>1, ResurrectedDown
<1> HIDE DEF p, pings2
<1>9. /\ M \in ClientType /\ M.req = S.req /\ M.pool = p /\ M.pings = pings2
  BY <1>1, <1>2, <1>6 DEF ClientType
<1> HIDE DEF M
<1>10. Calm(M, V)
  BY <1>3, <1>5, <1>6, <1>9 DEF Calm
<1>11. Candidates(p) # {}
  BY <1>2, <1>3, AgreeServes DEF Calm
<1>12. PICK c \in Candidates(p) :
         T = [M EXCEPT !.req[r] = [@ EXCEPT !.pc = "sent", !.conn = c, !.seen = "request"]]
  BY <1>7, <1>11
<1> DEFINE q == [M.req[r] EXCEPT !.pc = "sent", !.conn = c, !.seen = "request"]
<1>13. c \in p.conns /\ c \in Conn
  BY <1>2 DEF Candidates, PoolType
<1>14. /\ q \in RequestType /\ q.conn = c /\ q.attempts = S.req[r].attempts
       /\ q.reply = M.req[r].reply
  BY <1>1, <1>9, <1>13 DEF RequestType, Pcs, Events
<1>15. T = [M EXCEPT !.req[r] = q]
  BY <1>9, <1>12 DEF ClientType
<1> HIDE DEF q
<1>16. Calm(T, V)
  BY <1>9, <1>10, <1>13, <1>14, <1>15, CalmRequest DEF Calm
<1>17. T.req[r] = q /\ T.pool = p /\ \A x \in All \ {r} : T.req[x] = S.req[x]
  BY <1>9, <1>14, <1>15, WithRequest
<1>18. ASSUME NEW d \in Conn, Down(S.pool, d)
       PROVE  Avoids(T, r, d)
  <2> SUFFICES ASSUME d = c PROVE AllDead(p)
    BY <1>14, <1>17 DEF Avoids
  <2> QED
    BY <1>2, <1>3, <1>8, <1>18, DeadCandidate DEF Down
<1> QED
  BY <1>8, <1>14, <1>16, <1>17, <1>18 DEF KeepsDown

LEMMA SniffStartedCalm ==
  ASSUME NEW V, NEW S, Typed(S), Calm(S, V), ~S.sniffing, NEW T \in MaybeSniff(S, TRUE)
  PROVE  /\ Calm(T, V) /\ KeepsDown(S, T)
         /\ T.req[Sniff].attempts = 0
         /\ \A x \in Request : T.req[x] = S.req[x]
<1> DEFINE q == [Idle(SniffOptions) EXCEPT !.seen = "serialization"]
           M == [S EXCEPT !.sniffing = TRUE, !.req[Sniff] = q]
           N == [S EXCEPT !.sniffing = TRUE]
<1>1. T \in Connect(M, Sniff)
  BY DEF MaybeSniff
<1>2. /\ q \in RequestType /\ q.pc = "idle" /\ q.aborted = FALSE /\ q.attempts = 0
      /\ q.conn = None /\ q.reply # "noLiving"
  BY DEF Idle, RequestType, Pcs, Events, Replies
<1>3. /\ S \in ClientType /\ N \in ClientType /\ N.req = S.req /\ N.sniffing = TRUE
      /\ N.pool = S.pool /\ N.pings = S.pings
  BY DEF Typed, ClientType
<1>4. M = [N EXCEPT !.req[Sniff] = q]
  BY <1>3 DEF ClientType
<1> HIDE DEF q, M, N
<1>5. Sniff \in All
  BY DEF All
<1>6. /\ M \in ClientType
      /\ M.req[Sniff] = q /\ \A x \in All \ {Sniff} : M.req[x] = S.req[x]
      /\ M.sniffing = TRUE /\ M.pool = S.pool
  BY <1>2, <1>3, <1>4, <1>5, WithRequest
<1>7. Ready(M, Sniff)
  BY <1>2, <1>6 DEF Ready, Typed, Holds
<1>8. Calm(N, V)
  BY <1>3 DEF Calm
<1>9. Calm(M, V)
  BY <1>2, <1>3, <1>4, <1>5, <1>8, CalmRequest
<1>10. /\ Calm(T, V) /\ KeepsDown(M, T) /\ T.req[Sniff].attempts = M.req[Sniff].attempts
       /\ \A x \in All \ {Sniff} : T.req[x] = M.req[x]
  BY <1>1, <1>5, <1>7, <1>9, ConnectCalm
<1> QED
  BY <1>2, <1>6, <1>10, RequestAssumption DEF KeepsDown, All

\* sniff() within a handler of r: a new request for the sniff, or nothing.
LEMMA MaybeSniffCalm ==
  ASSUME NEW V, NEW S, NEW r \in All, Ready(S, r), Calm(S, V), NEW wanted,
         NEW T \in MaybeSniff(S, wanted)
  PROVE  /\ Calm(T, V) /\ KeepsDown(S, T) /\ Elsewhere(S, T, r)
         /\ T.req[r].conn = S.req[r].conn /\ T.req[r].attempts = S.req[r].attempts
<1>1. CASE ~(wanted /\ ~S.sniffing)
  <2>1. T = S
    BY <1>1 DEF MaybeSniff
  <2> QED
    BY <2>1 DEF KeepsDown, Elsewhere
<1>2. CASE wanted /\ ~S.sniffing
  <2>1. r # Sniff /\ r \in Request /\ Typed(S)
    BY <1>2 DEF Ready, All
  <2>2. T \in MaybeSniff(S, TRUE)
    BY <1>2 DEF MaybeSniff
  <2>3. /\ Calm(T, V) /\ KeepsDown(S, T) /\ T.req[Sniff].attempts = 0
        /\ \A x \in Request : T.req[x] = S.req[x]
    BY <1>2, <2>1, <2>2, SniffStartedCalm
  <2> QED
    BY <2>1, <2>3 DEF Elsewhere, All
<1> QED
  BY <1>1, <1>2

LEMMA MakeRequestCalm ==
  ASSUME NEW V, NEW S, NEW r \in All, Ready(S, r), Calm(S, V), NEW T \in MakeRequest(S, r)
  PROVE  /\ Calm(T, V) /\ Elsewhere(S, T, r)
         /\ T.req[r].attempts = S.req[r].attempts
         /\ \A c \in Conn : Down(S.pool, c) => Avoids(T, r, c)
<1>1. CASE S.req[r].aborted
  <2>1. T = Schedule(S, r, "aborted")
    BY <1>1 DEF MakeRequest
  <2> QED
    BY <2>1, ScheduleCalm DEF Replies, Elsewhere, Avoids
<1>2. CASE ~S.req[r].aborted
  <2>1. PICK M \in MaybeSniff(S, SniffInterval /\ S.due) : T \in Connect(M, r)
    BY <1>2 DEF MakeRequest
  <2>2. Ready(M, r)
    BY <2>1, MaybeSniffReady
  <2>3. /\ Calm(M, V) /\ KeepsDown(S, M) /\ Elsewhere(S, M, r)
        /\ M.req[r].attempts = S.req[r].attempts
    BY <2>1, MaybeSniffCalm
  <2>4. /\ Calm(T, V)
        /\ T.req[r].attempts = M.req[r].attempts
        /\ \A x \in All \ {r} : T.req[x] = M.req[x]
        /\ \A c \in Conn : Down(M.pool, c) => Avoids(T, r, c)
    BY <2>1, <2>2, <2>3, ConnectCalm
  <2> QED
    BY <2>3, <2>4 DEF Elsewhere, KeepsDown
<1> QED
  BY <1>1, <1>2

-----------------------------------------------------------------------------
\* A sniff reports what is known already: no connection leaves the pool.
LEMMA SniffEndedCalm ==
  ASSUME NEW V, FixedCluster(V), NEW S, Typed(S), Calm(S, V),
         NEW reply, NEW T \in SniffEnded(S, reply)
  PROVE  Calm(T, V)
<1> DEFINE M == [S EXCEPT !.sniffing = FALSE, !.due = FALSE]
<1>1. S \in ClientType /\ PoolInv(S.pool)
  BY DEF Typed
<1>2. /\ M \in ClientType /\ M.req = S.req /\ M.pool = S.pool /\ M.pings = S.pings
  BY <1>1 DEF ClientType
<1>3. T = M \/ \E view \in Views :
                  \E created \in Injection(NewNodes(S.pool, view), Unreferenced(S)) :
                    T = [M EXCEPT !.pool = Updated(S.pool, view, created)]
  <2> DEFINE After(view) == {[M EXCEPT !.pool = Updated(S.pool, view, created)] :
                               created \in Injection(NewNodes(S.pool, view), Unreferenced(S))}
  <2>1. T \in IF reply # "ok" THEN {M} ELSE UNION {After(view) : view \in Views}
    BY Zenon DEF SniffEnded
  <2> HIDE DEF M
  <2>2. \A view \in Views : T \in After(view) =>
          \E created \in Injection(NewNodes(S.pool, view), Unreferenced(S)) :
            T = [M EXCEPT !.pool = Updated(S.pool, view, created)]
    OBVIOUS
  <2> HIDE DEF After
  <2>3. T = M \/ \E view \in Views : T \in After(view)
    BY <2>1
  <2> QED
    BY <2>2, <2>3
<1> HIDE DEF M
<1>4. CASE T = M
  BY <1>2, <1>4 DEF Calm
<1>5. ASSUME V \in Views, NEW created \in Injection(NewNodes(S.pool, V), Unreferenced(S)),
             T = [M EXCEPT !.pool = Updated(S.pool, V, created)]
      PROVE  Calm(T, V)
  <2>1. /\ V \in SUBSET (NodeId \ MasterOnly) /\ V \in SUBSET NodeId
        /\ \A m, n \in V : UrlOf[m] = UrlOf[n] => m = n
    BY <1>5, HostAssumption DEF FixedCluster
  <2>2. /\ created \in [NewNodes(S.pool, V) -> Conn]
        /\ \A m, n \in NewNodes(S.pool, V) : created[m] = created[n] => m = n
        /\ \A n \in NewNodes(S.pool, V) : created[n] \notin S.pool.conns
    BY <1>5 DEF Injection, IsInjective, Unreferenced
  <2> DEFINE p == Updated(S.pool, V, created)
  <2>3. S.pool.conns \subseteq p.conns /\ Agree(p) /\ Covered(p, V)
    BY <1>1, <2>1, <2>2, UpdatedCovered DEF Calm
  <2> HIDE DEF p
  <2>4. T.pool = p /\ T.req = S.req /\ T.pings = S.pings
    BY <1>2, <1>5 DEF ClientType, p
  <2> QED
    BY <2>3, <2>4 DEF Calm
<1> QED
  BY <1>3, <1>4, <1>5 DEF FixedCluster

LEMMA CallbackCalm ==
  ASSUME NEW V, FixedCluster(V), NEW S, NEW r \in All, Ready(S, r), Calm(S, V),
         NEW reply \in Replies, reply # "noLiving", NEW T \in Callback(S, r, reply)
  PROVE  /\ Calm(T, V) /\ T.req[r].pc = "done" /\ T.req[r].attempts = S.req[r].attempts
         /\ \A x \in All \ {r} : T.req[x] = S.req[x]
<1> DEFINE q == [S.req[r] EXCEPT !.pc = "done", !.reply = reply,
                               !.answers = S.req[r].answers + 1, !.conn = None]
           M == [S EXCEPT !.req[r] = q]
<1>1. S \in ClientType /\ S.req[r] \in RequestType
  BY DEF Ready, Typed, ClientType
<1>2. /\ q \in RequestType /\ q.pc = "done" /\ q.conn = None /\ q.reply = reply
      /\ q.attempts = S.req[r].attempts
  <2>1. S.req[r].answers + 1 \in Nat
    BY <1>1 DEF RequestType
  <2> QED
    BY <1>1, <2>1 DEF RequestType, Pcs
<1>3. T \in IF r = Sniff THEN SniffEnded(M, reply) ELSE {M}
  <2>1. [S EXCEPT !.req[r] = [@ EXCEPT !.pc = "done", !.reply = reply,
                                       !.answers = S.req[r].answers + 1, !.conn = None]] = M
    BY <1>1 DEF ClientType, RequestType
  <2> HIDE DEF M
  <2> QED
    BY <2>1 DEF Callback
<1> HIDE DEF q
<1>4. /\ M \in ClientType
      /\ M.req[r] = q /\ \A x \in All \ {r} : M.req[x] = S.req[x]
      /\ M.sniffing = S.sniffing /\ M.pool = S.pool
  BY <1>1, <1>2, WithRequest
<1>5. Calm(M, V)
  BY <1>1, <1>2, CalmRequest
<1> HIDE DEF M
<1>6. Typed(M)
  BY <1>2, <1>4 DEF Ready, Typed, Holds
<1>7. Calm(T, V) /\ T.req = M.req
  BY <1>3, <1>5, <1>6, SniffEndedCalm, SniffEndedTyped
<1> QED
  BY <1>2, <1>4, <1>7

LEMMA RespondCalm ==
  ASSUME NEW V, FixedCluster(V), NEW S, NEW r \in All, Ready(S, r), Calm(S, V),
         NEW event \in Events,
         NEW reply \in Replies, reply # "noLiving",
         NEW T \in Callback([S EXCEPT !.req[r].seen = event], r, reply)
  PROVE  /\ Calm(T, V) /\ T.req[r].pc = "done" /\ T.req[r].attempts = S.req[r].attempts
         /\ \A x \in All \ {r} : T.req[x] = S.req[x]
<1> DEFINE q == [S.req[r] EXCEPT !.seen = event]
           M == [S EXCEPT !.req[r] = q]
<1>1. S \in ClientType /\ S.req[r] \in RequestType
  BY DEF Ready, Typed, ClientType
<1>2. /\ q \in RequestType /\ q.pc = S.req[r].pc /\ q.conn = S.req[r].conn
      /\ q.aborted = S.req[r].aborted /\ q.attempts = S.req[r].attempts
      /\ q.reply = S.req[r].reply
  BY <1>1 DEF RequestType
<1>3. [S EXCEPT !.req[r].seen = event] = M
  BY <1>1 DEF ClientType
<1> HIDE DEF q
<1>4. /\ M \in ClientType
      /\ M.req[r] = q /\ \A x \in All \ {r} : M.req[x] = S.req[x]
      /\ M.sniffing = S.sniffing /\ M.pool = S.pool
  BY <1>1, <1>2, WithRequest
<1>5. Calm(M, V)
  <2>1. q.conn \in S.pool.conns \cup {None} /\ q.reply # "noLiving"
    BY <1>2 DEF Calm
  <2> QED
    BY <1>1, <1>2, <2>1, CalmRequest
<1> HIDE DEF M
<1>6. Ready(M, r)
  BY <1>2, <1>4 DEF Ready, Typed, Holds, Exclusive, All
<1> QED
  BY <1>2, <1>3, <1>4, <1>5, <1>6, CallbackCalm

\* What emit('response') and the callback make of a calm state.
LEMMA RespondTurned ==
  ASSUME NEW V, FixedCluster(V), NEW S, NEW r \in All, Ready(S, r), Calm(S, V),
         NEW reply \in {"ok", "response", "undecodable", "connection", "timeout", "aborted"},
         NEW T \in Respond(S, r, reply)
  PROVE  Calm(T, V) /\ Elsewhere(S, T, r) /\ T.req[r].pc = "done"
         /\ T.req[r].attempts = S.req[r].attempts
<1>1. T \in Callback([S EXCEPT !.req[r].seen = "response"], r, reply)
  BY DEF Respond
<1>2. reply \in Replies /\ reply # "noLiving" /\ "response" \in Events
  BY DEF Replies, Events
<1>3. /\ Calm(T, V) /\ T.req[r].pc = "done" /\ T.req[r].attempts = S.req[r].attempts
      /\ \A x \in All \ {r} : T.req[x] = S.req[x]
  BY <1>1, <1>2, RespondCalm
<1> QED
  BY <1>3 DEF Elsewhere

-----------------------------------------------------------------------------
\* Another pool with the same connections in it.
LEMMA PoolCalm ==
  ASSUME NEW V, NEW S \in ClientType, Calm(S, V), NEW p \in PoolType, Agree(p),
         p.conns = S.pool.conns, p.id = S.pool.id
  PROVE  Calm([S EXCEPT !.pool = p], V)
<1> DEFINE T == [S EXCEPT !.pool = p]
<1>1. T.pool = p /\ T.req = S.req /\ T.pings = S.pings
  BY DEF ClientType
<1> HIDE DEF T
<1>2. Covered(p, V)
  BY DEF Calm, Covered, HasId
<1>3. Calm(T, V)
  BY <1>1, <1>2 DEF Calm
<1> QED
  BY <1>3 DEF T

\* The connection that a request reports to is in the pool.
LEMMA HeldIsCurrent ==
  ASSUME NEW V, NEW S, NEW r \in All, Ready(S, r), Calm(S, V), S.req[r].pc \in Reporting
  PROVE  S.req[r].conn \in S.pool.conns /\ S.req[r].conn \in Conn /\ PoolInv(S.pool)
<1>1. S.req[r].conn # None
  BY DEF Ready, Typed, Holds, Reporting
<1> QED
  BY <1>1, HeldConnection DEF Calm

LEMMA MarkedDeadCalm ==
  ASSUME NEW V, NEW S, NEW r \in All, Ready(S, r), Calm(S, V), S.req[r].pc \in Reporting,
         NEW T \in MarkedDead(S, r)
  PROVE  Calm(T, V) /\ T.req = S.req /\ Down(T.pool, S.req[r].conn)
<1> DEFINE c == S.req[r].conn
<1>1. c \in S.pool.conns /\ c \in Conn /\ PoolInv(S.pool)
  BY HeldIsCurrent
<1>2. PICK p \in MarkDead(S.pool, c) : T = [S EXCEPT !.pool = p]
  BY DEF MarkedDead
<1>3. S \in ClientType /\ S.pool \in PoolType
  BY <1>1 DEF Ready, Typed, PoolInv
<1> HIDE DEF c
<1>4. PoolInv(p) /\ p \in PoolType
  BY <1>1, <1>2, MarkDeadInv DEF PoolInv
<1>5. Agree(p)
  BY <1>1, <1>2, MarkDeadAgree DEF Calm
<1>6. p.conns = S.pool.conns /\ p.id = S.pool.id
  BY <1>1, <1>2, <1>3, MarkDeadFields
<1>7. Down(p, c)
  BY <1>1, <1>2, <1>3, MarkDeadIsDown
<1>8. Calm(T, V)
  BY <1>2, <1>3, <1>4, <1>5, <1>6, PoolCalm
<1>9. T.req = S.req /\ T.pool = p
  BY <1>2, <1>3 DEF ClientType
<1> QED
  BY <1>7, <1>8, <1>9 DEF c

LEMMA MarkAliveCalm ==
  ASSUME NEW V, NEW S, NEW r \in All, Ready(S, r), Calm(S, V), S.req[r].pc \in Reporting
  PROVE  LET T == [S EXCEPT !.pool = MarkAlive(@, S.req[r].conn)]
         IN  Calm(T, V) /\ T.req = S.req
<1> DEFINE c == S.req[r].conn
           p == MarkAlive(S.pool, c)
<1>1. c \in S.pool.conns /\ c \in Conn /\ PoolInv(S.pool)
  BY HeldIsCurrent
<1>2. S \in ClientType /\ S.pool \in PoolType
  BY <1>1 DEF Ready, Typed, PoolInv
<1> HIDE DEF c
<1>3. PoolInv(p) /\ p \in PoolType
  BY <1>1, MarkAliveInv DEF PoolInv
<1>4. Agree(p)
  BY <1>1, MarkAliveAgree DEF Calm
<1>5. p.conns = S.pool.conns /\ p.id = S.pool.id
  BY <1>1, <1>2, MarkAliveFields
<1> HIDE DEF p
<1>6. Calm([S EXCEPT !.pool = p], V)
  BY <1>2, <1>3, <1>4, <1>5, PoolCalm
<1>7. [S EXCEPT !.pool = p].req = S.req
  BY <1>2 DEF ClientType
<1> QED
  BY <1>6, <1>7 DEF p, c

\* A retry, with the connection that failed marked dead, does not go there if another is alive.
LEMMA RetryOrCalm ==
  ASSUME NEW V, NEW S, NEW r \in All, Ready(S, r), Calm(S, V),
         NEW c \in Conn, Down(S.pool, c),
         NEW otherwise,
         \A T \in otherwise : Calm(T, V) /\ Elsewhere(S, T, r) /\ T.req[r].pc = "done",
         NEW T \in RetryOr(S, r, otherwise)
  PROVE  Calm(T, V) /\ Elsewhere(S, T, r) /\ Avoids(T, r, c)
<1>1. CASE ~(S.req[r].attempts < Retries(S.req[r].opts))
  BY <1>1 DEF RetryOr, Avoids
<1>2. CASE S.req[r].attempts < Retries(S.req[r].opts)
  <2> DEFINE q == [S.req[r] EXCEPT !.attempts = S.req[r].attempts + 1]
             M == [S EXCEPT !.req[r] = q]
  <2>1. S \in ClientType /\ S.req[r] \in RequestType
    BY DEF Ready, Typed, ClientType
  <2>2. q \in RequestType /\ q.pc = S.req[r].pc /\ q.conn = S.req[r].conn
        /\ q.aborted = S.req[r].aborted /\ q.reply = S.req[r].reply
    BY <2>1 DEF RequestType
  <2>3. T \in MakeRequest(M, r)
    BY <1>2, <2>1 DEF RetryOr, ClientType
  <2> HIDE DEF q
  <2>4. /\ M \in ClientType
        /\ M.req[r] = q /\ \A x \in All \ {r} : M.req[x] = S.req[x]
        /\ M.sniffing = S.sniffing /\ M.pool = S.pool
    BY <2>1, <2>2, WithRequest
  <2>5. Calm(M, V)
    <3>1. q.conn \in S.pool.conns \cup {None} /\ q.reply # "noLiving"
      BY <2>2 DEF Calm
    <3> QED
      BY <2>1, <2>2, <3>1, CalmRequest
  <2> HIDE DEF M
  <2>6. Ready(M, r)
    BY <2>2, <2>4 DEF Ready, Typed, Holds, Exclusive, All
  <2>7. Calm(T, V) /\ Elsewhere(M, T, r) /\ Avoids(T, r, c)
    BY <2>3, <2>4, <2>5, <2>6, MakeRequestCalm
  <2> QED
    BY <2>4, <2>7 DEF Elsewhere
<1> QED
  BY <1>1, <1>2

LEMMA OnConnectionErrorTurned ==
  ASSUME NEW V, FixedCluster(V), NEW S, NEW r \in All, Ready(S, r), Calm(S, V),
         S.req[r].pc \in Reporting,
         NEW error \in {"connection", "timeout", "aborted"},
         NEW T \in OnConnectionError(S, r, error)
  PROVE  Turned(S, T, r, V)
<1>1. CASE error = "aborted"
  <2>1. T \in Respond(S, r, "aborted")
    BY <1>1 DEF OnConnectionError
  <2> QED
    BY <2>1, RespondTurned DEF Turned
<1>2. CASE error # "aborted"
  <2>1. PICK M \in MarkedDead(S, r) :
          T \in UNION {RetryOr(N, r, Respond(N, r, error)) : N \in MaybeSniff(M, SniffOnFault)}
    BY <1>2 DEF OnConnectionError
  <2>2. PICK N \in MaybeSniff(M, SniffOnFault) : T \in RetryOr(N, r, Respond(N, r, error))
    BY <2>1
  <2>3. Ready(M, r) /\ Calm(M, V) /\ M.req = S.req /\ Down(M.pool, S.req[r].conn)
        /\ S.req[r].conn \in Conn
    BY <2>1, MarkedDeadReady, MarkedDeadCalm, HeldIsCurrent
  <2>4. Ready(N, r)
    BY <2>2, <2>3, MaybeSniffReady
  <2>5. Calm(N, V) /\ Elsewhere(M, N, r) /\ Down(N.pool, S.req[r].conn)
    BY <2>2, <2>3, MaybeSniffCalm DEF KeepsDown
  <2>6. \A X \in Respond(N, r, error) : Calm(X, V) /\ Elsewhere(N, X, r) /\ X.req[r].pc = "done"
    BY <1>2, <2>4, <2>5, RespondTurned
  <2>7. Calm(T, V) /\ Elsewhere(N, T, r) /\ Avoids(T, r, S.req[r].conn)
    BY <2>2, <2>3, <2>4, <2>5, <2>6, RetryOrCalm
  <2> QED
    BY <2>3, <2>5, <2>7 DEF Turned, Elsewhere
<1> QED
  BY <1>1, <1>2

LEMMA OnBodyTurned ==
  ASSUME NEW V, FixedCluster(V), NEW S, NEW r \in All, Ready(S, r), Calm(S, V),
         S.req[r].pc \in Reporting,
         NEW content \in Contents \ {"tooLarge"}, NEW T \in OnBody(S, r, content)
  PROVE  Turned(S, T, r, V)
<1>1. ASSUME NEW M, Ready(M, r), Calm(M, V), M.req = S.req,
             NEW reply \in {"ok", "response", "undecodable"}, T \in Respond(M, r, reply)
      PROVE  Turned(S, T, r, V)
  <2>1. Calm(T, V) /\ Elsewhere(M, T, r) /\ T.req[r].attempts = M.req[r].attempts
    BY <1>1, RespondTurned
  <2> QED
    BY <1>1, <2>1 DEF Turned, Elsewhere
<1>2. CASE content = "undecodable"
  BY <1>1, <1>2 DEF OnBody
<1>3. CASE content = "gateway"
  <2>1. PICK M \in MarkedDead(S, r) : T \in RetryOr(M, r, Respond(M, r, "response"))
    BY <1>3 DEF OnBody
  <2>2. Ready(M, r) /\ Calm(M, V) /\ M.req = S.req /\ Down(M.pool, S.req[r].conn)
        /\ S.req[r].conn \in Conn
    BY <2>1, MarkedDeadReady, MarkedDeadCalm, HeldIsCurrent
  <2>3. \A X \in Respond(M, r, "response") :
          Calm(X, V) /\ Elsewhere(M, X, r) /\ X.req[r].pc = "done"
    BY <2>2, RespondTurned
  <2>4. Calm(T, V) /\ Elsewhere(M, T, r) /\ Avoids(T, r, S.req[r].conn)
    BY <2>1, <2>2, <2>3, RetryOrCalm
  <2> QED
    BY <2>2, <2>4 DEF Turned, Elsewhere
<1> DEFINE M == [S EXCEPT !.pool = MarkAlive(@, S.req[r].conn)]
<1>4. Ready(M, r) /\ Calm(M, V) /\ M.req = S.req
  BY MarkAliveReady, MarkAliveCalm
<1>5. content = "error" => T \in Respond(M, r, "response")
  BY DEF OnBody
<1>6. content = "ok" => T \in Respond(M, r, "ok")
  BY DEF OnBody
<1> HIDE DEF M
<1> QED
  BY <1>1, <1>2, <1>3, <1>4, <1>5, <1>6, SwitchAssumption

-----------------------------------------------------------------------------
\* What an action makes of a calm state.
TurnedTo(V) == \E T : Becomes(T) /\ \E r \in All : Turned(State, T, r, V)

\* The request goes on waiting, with the connection and the attempts it has.
LEMMA MovedTurned ==
  ASSUME NEW V, NEW S \in ClientType, Calm(S, V), NEW r \in All, NEW q \in RequestType,
         q.conn = S.req[r].conn, q.reply = S.req[r].reply, q.attempts = S.req[r].attempts
  PROVE  Turned(S, [S EXCEPT !.req[r] = q], r, V)
<1> DEFINE T == [S EXCEPT !.req[r] = q]
<1>1. T.req[r] = q /\ \A x \in All \ {r} : T.req[x] = S.req[x]
  BY WithRequest, ZenonT(30)
<1>2. q.conn \in S.pool.conns \cup {None} /\ q.reply # "noLiving"
  BY DEF Calm
<1>3. Calm(T, V)
  BY <1>2, CalmRequest
<1> HIDE DEF T
<1>4. Turned(S, T, r, V)
  BY <1>1, <1>3 DEF Turned, Elsewhere
<1> QED
  BY <1>4 DEF T

\* A step that concerns the pool, or the pings, only.
LEMMA PoolTurned ==
  ASSUME NEW V, NEW S, NEW T, Calm(S, V), T.req = S.req, Agree(T.pool),
         T.pool.conns = S.pool.conns, T.pool.id = S.pool.id,
         \A c \in Conn : T.pings[c] > 0 => S.pings[c] > 0
  PROVE  Turned(S, T, Sniff, V)
<1>1. Covered(T.pool, V)
  BY DEF Calm, Covered, HasId
<1> QED
  BY <1>1 DEF Turned, Calm, Elsewhere

LEMMA IssueTurned ==
  ASSUME NEW V, Sound(State), Calm(State, V), NEW r \in Request, Issue(r)
  PROVE  TurnedTo(V)
<1>1. PICK o \in Options :
        LET S == [State EXCEPT !.req[r] = [Idle(o) EXCEPT !.seen = "serialization"]]
        IN  CASE o.body = "unserializable" ->
                   Becomes(Schedule([S EXCEPT !.req[r].seen = "request"], r, "serialization"))
              [] o.body = "gzip" -> Becomes([S EXCEPT !.req[r].pc = "compressing"])
              [] OTHER -> Handle(MakeRequest(S, r))
  BY DEF Issue
<1> DEFINE q == [Idle(o) EXCEPT !.seen = "serialization"]
           S == [State EXCEPT !.req[r] = q]
           u == [q EXCEPT !.seen = "request"]
           U == [S EXCEPT !.req[r] = u]
           g == [q EXCEPT !.pc = "compressing"]
           G == [S EXCEPT !.req[r] = g]
<1>2. /\ q \in RequestType /\ q.pc = "idle" /\ q.aborted = FALSE
      /\ q.conn = None /\ q.attempts = 0 /\ q.reply = "none"
      /\ u \in RequestType /\ u.pc = "idle" /\ u.aborted = FALSE
      /\ u.conn = None /\ u.attempts = 0 /\ u.reply = "none"
      /\ g \in RequestType /\ g.conn = None /\ g.attempts = 0 /\ g.reply = "none"
  BY DEF Idle, RequestType, Pcs, Events, Replies
<1>3. State \in ClientType /\ r \in All /\ r # Sniff
  BY RequestAssumption DEF Sound, Typed, All
<1> HIDE DEF q
<1>4. /\ S \in ClientType
      /\ S.req[r] = q /\ \A x \in All \ {r} : S.req[x] = State.req[x]
      /\ S.sniffing = State.sniffing /\ S.pool = State.pool
  BY <1>2, <1>3, WithRequest
<1>5. [S EXCEPT !.req[r].seen = "request"] = U /\ [S EXCEPT !.req[r].pc = "compressing"] = G
  <2> HIDE DEF S
  <2> QED
    BY <1>3, <1>4 DEF ClientType
<1>6. \/ Becomes(Schedule(U, r, "serialization"))
      \/ Becomes(G)
      \/ \E T \in MakeRequest(S, r) : Becomes(T)
  <2> HIDE DEF U, G
  <2> QED
    BY <1>1, <1>5 DEF Handle, q
<1>7. Calm(S, V)
  BY <1>2, <1>3, CalmRequest
<1> HIDE DEF S, u, g
<1>8. /\ U \in ClientType
      /\ U.req[r] = u /\ \A x \in All \ {r} : U.req[x] = S.req[x]
      /\ U.sniffing = S.sniffing /\ U.pool = S.pool
  BY <1>2, <1>3, <1>4, WithRequest
<1>9. Calm(U, V) /\ Calm(G, V)
  BY <1>2, <1>3, <1>4, <1>7, CalmRequest
<1>10. G.req[r] = g /\ \A x \in All \ {r} : G.req[x] = S.req[x]
  BY <1>2, <1>3, <1>4, WithRequest
<1>11. Ready(S, r)
  BY <1>2, <1>3, <1>4 DEF Sound, Ready, Typed, Holds, Exclusive, All
<1> HIDE DEF U, G
<1>12. Ready(U, r)
  BY <1>2, <1>3, <1>8, <1>11 DEF Ready, Typed, Holds, Exclusive, All
<1>13. CASE Becomes(Schedule(U, r, "serialization"))
  <2> DEFINE T == Schedule(U, r, "serialization")
  <2>1. "serialization" \in Replies \ {"noLiving"}
    BY DEF Replies
  <2>2. /\ Calm(T, V) /\ T.req[r].attempts = U.req[r].attempts
        /\ \A x \in All \ {r} : T.req[x] = U.req[x]
    BY <1>3, <1>9, <1>12, <2>1, ScheduleCalm
  <2> HIDE DEF T
  <2>3. Turned(State, T, r, V)
    BY <1>2, <1>3, <1>4, <1>8, <2>2 DEF Turned, Elsewhere
  <2> QED
    BY <1>3, <1>13, <2>3 DEF TurnedTo, T
<1>14. CASE Becomes(G)
  <2>1. Turned(State, G, r, V)
    BY <1>2, <1>3, <1>4, <1>9, <1>10 DEF Turned, Elsewhere
  <2> QED
    BY <1>3, <1>14, <2>1 DEF TurnedTo
<1>15. ASSUME NEW T \in MakeRequest(S, r), Becomes(T) PROVE TurnedTo(V)
  <2>1. Calm(T, V) /\ Elsewhere(S, T, r) /\ T.req[r].attempts = S.req[r].attempts
    BY <1>3, <1>7, <1>11, <1>15, MakeRequestCalm
  <2>2. Turned(State, T, r, V)
    BY <1>2, <1>3, <1>4, <2>1 DEF Turned, Elsewhere
  <2> QED
    BY <1>3, <1>15, <2>2 DEF TurnedTo
<1> QED
  BY <1>6, <1>13, <1>14, <1>15

LEMMA HandlersTurned ==
  ASSUME NEW V, FixedCluster(V), Sound(State), Calm(State, V), NEW r \in All,
         Http(r) \/ Local(r)
  PROVE  TurnedTo(V)
<1>1. State.req[r] \in RequestType /\ req[r] = State.req[r] /\ State \in ClientType
  BY StateFields DEF Sound, Typed, ClientType
<1>2. InFlight(r)
  BY DEF Http, Local, ConnectionFault, Headers, BodyEnd, BodyFault, Aborted, Gzipped, Fail,
         Unzipped, InFlight
<1>3. Ready(State, r)
  BY <1>2, HandlerReady
<1> SUFFICES \E T : Becomes(T) /\ Turned(State, T, r, V)
  BY DEF TurnedTo
<1>4. CASE ConnectionFault(r)
  BY <1>1, <1>3, <1>4, OnConnectionErrorTurned, SwitchAssumption
     DEF ConnectionFault, Handle, Reporting
<1>5. CASE Headers(r)
  <2> DEFINE q == [State.req[r] EXCEPT !.pc = "reading", !.seen = "deserialization"]
             T == [State EXCEPT !.req[r] = q]
  <2>1. req[r].pc = "sent"
    BY <1>5 DEF Headers
  <2>2. [State EXCEPT !.req[r] = [@ EXCEPT !.pc = "reading", !.seen = "deserialization"]] = T
    BY <1>1 DEF State
  <2>3. \/ \E X \in Respond(State, r, "ok") : Becomes(X)
        \/ \E X \in OnConnectionError(State, r, "aborted") : Becomes(X)
        \/ Becomes(T)
    <3> HIDE DEF T
    <3> QED
      BY <1>5, <2>2 DEF Headers, Handle
  <2>4. q \in RequestType /\ q.conn = State.req[r].conn /\ q.reply = State.req[r].reply
        /\ q.attempts = State.req[r].attempts
    BY <1>1 DEF RequestType, Pcs, Events
  <2> HIDE DEF q
  <2>5. Turned(State, T, r, V)
    BY <1>1, <2>4, MovedTurned
  <2> HIDE DEF T
  <2>6. \A X \in Respond(State, r, "ok") : Turned(State, X, r, V)
    BY <1>3, RespondTurned DEF Turned
  <2>7. \A X \in OnConnectionError(State, r, "aborted") : Turned(State, X, r, V)
    BY <1>1, <1>3, <2>1, OnConnectionErrorTurned DEF Reporting
  <2> QED
    BY <2>3, <2>5, <2>6, <2>7
<1>6. CASE BodyEnd(r)
  <2> DEFINE q == [State.req[r] EXCEPT !.pc = "inflating"]
             T == [State EXCEPT !.req[r] = q]
  <2>1. req[r].pc = "reading"
    BY <1>6 DEF BodyEnd
  <2>2. [State EXCEPT !.req[r].pc = "inflating"] = T
    BY <1>1 DEF State
  <2>3. \/ \E content \in Contents \ {"tooLarge"} : \E X \in OnBody(State, r, content) : Becomes(X)
        \/ Becomes(T)
    <3> HIDE DEF T
    <3> QED
      BY <1>6, <2>2 DEF BodyEnd, Handle
  <2>4. q \in RequestType /\ q.conn = State.req[r].conn /\ q.reply = State.req[r].reply
        /\ q.attempts = State.req[r].attempts
    BY <1>1 DEF RequestType, Pcs
  <2> HIDE DEF q
  <2>5. Turned(State, T, r, V)
    BY <1>1, <2>4, MovedTurned
  <2> HIDE DEF T
  <2> QED
    BY <1>1, <1>3, <2>1, <2>3, <2>5, OnBodyTurned DEF Reporting
<1>7. CASE BodyFault(r)
  BY <1>1, <1>3, <1>7, OnConnectionErrorTurned DEF BodyFault, Handle, Reporting
<1>8. CASE Aborted(r)
  BY <1>1, <1>3, <1>8, OnConnectionErrorTurned DEF Aborted, Handle, Reporting
<1>9. CASE Gzipped(r)
  <2>1. \/ \E X \in MakeRequest(State, r) : Becomes(X)
        \/ \E X \in Callback([State EXCEPT !.req[r].seen = "request"], r, "gzip") : Becomes(X)
    BY <1>9 DEF Gzipped, Handle
  <2>2. \A X \in MakeRequest(State, r) : Turned(State, X, r, V)
    BY <1>3, MakeRequestCalm DEF Turned
  <2>3. "gzip" \in Replies /\ "gzip" # "noLiving" /\ "request" \in Events
    BY DEF Replies, Events
  <2>4. \A X \in Callback([State EXCEPT !.req[r].seen = "request"], r, "gzip") :
          /\ Calm(X, V) /\ X.req[r].attempts = State.req[r].attempts
          /\ \A x \in All \ {r} : X.req[x] = State.req[x]
    BY <1>3, <2>3, RespondCalm
  <2>5. \A X \in Callback([State EXCEPT !.req[r].seen = "request"], r, "gzip") :
          Turned(State, X, r, V)
    BY <2>4 DEF Turned, Elsewhere
  <2> QED
    BY <2>1, <2>2, <2>5
<1>10. CASE Fail(r)
  <2>1. req[r].reply \in Replies /\ req[r].reply # "noLiving"
    BY <1>1 DEF RequestType, Calm
  <2>2. PICK X \in Callback(State, r, req[r].reply) : Becomes(X)
    BY <1>10 DEF Fail, Handle
  <2>3. /\ Calm(X, V) /\ X.req[r].attempts = State.req[r].attempts
        /\ \A x \in All \ {r} : X.req[x] = State.req[x]
    BY <1>3, <2>1, <2>2, CallbackCalm
  <2> QED
    BY <2>2, <2>3 DEF Turned, Elsewhere
<1>11. CASE Unzipped(r)
  BY <1>1, <1>3, <1>11, OnBodyTurned DEF Unzipped, Handle, Reporting
<1> QED
  BY <1>4, <1>5, <1>6, <1>7, <1>8, <1>9, <1>10, <1>11 DEF Http, Local

LEMMA AbortTurned ==
  ASSUME NEW V, Sound(State), Calm(State, V), NEW r \in Request, Abort(r)
  PROVE  TurnedTo(V)
<1> DEFINE pc == IF req[r].pc = "sent" THEN "aborting" ELSE req[r].pc
           q == [State.req[r] EXCEPT !.aborted = TRUE, !.pc = pc]
           T == [State EXCEPT !.req[r] = q]
<1>1. State \in ClientType /\ r \in All /\ State.req[r] \in RequestType
  BY DEF Sound, Typed, ClientType, All
<1>2. Becomes(T)
  BY StateFields DEF Abort, State
<1>3. pc \in Pcs
  BY <1>1, StateFields DEF RequestType, Pcs
<1> HIDE DEF pc
<1>4. q \in RequestType /\ q.conn = State.req[r].conn /\ q.reply = State.req[r].reply
      /\ q.attempts = State.req[r].attempts
  BY <1>1, <1>3 DEF RequestType
<1> HIDE DEF q
<1>5. Turned(State, T, r, V)
  BY <1>1, <1>4, MovedTurned
<1> QED
  BY <1>1, <1>2, <1>5 DEF TurnedTo

LEMMA UserSniffTurned ==
  ASSUME NEW V, Sound(State), Calm(State, V), UserSniff
  PROVE  TurnedTo(V)
<1>1. PICK T \in MaybeSniff(State, TRUE) : Becomes(T)
  BY DEF UserSniff, Handle
<1>2. Typed(State) /\ ~State.sniffing /\ Sniff \in All
  BY StateFields DEF UserSniff, Sound, All
<1>3. /\ Calm(T, V) /\ T.req[Sniff].attempts = 0
      /\ \A x \in Request : T.req[x] = State.req[x]
  BY <1>1, <1>2, SniffStartedCalm
<1>4. Turned(State, T, Sniff, V)
  BY <1>3 DEF Turned, Elsewhere, All
<1> QED
  BY <1>1, <1>2, <1>4 DEF TurnedTo

LEMMA PongTurned ==
  ASSUME NEW V, Sound(State), Calm(State, V), NEW c \in Conn, Pong(c)
  PROVE  TurnedTo(V)
<1> DEFINE S == [State EXCEPT !.pings[c] = State.pings[c] - 1]
<1>1. State \in ClientType /\ PoolInv(pool) /\ pool \in PoolType
  BY StateFields DEF Sound, Typed, PoolInv
<1>2. State.pings \in [Conn -> Nat] /\ State.pings[c] > 0
  BY <1>1, StateFields DEF ClientType, Pong
<1>3. /\ S \in ClientType /\ S.req = State.req /\ S.pool = pool
      /\ \A d \in Conn : S.pings[d] > 0 => State.pings[d] > 0
  <2>1. State.pings[c] - 1 \in Nat
    BY <1>2
  <2> QED
    BY <1>1, <1>2, <2>1, StateFields DEF ClientType
<1>4. PICK T : /\ Becomes(T)
               /\ T = [S EXCEPT !.pool = MarkAlive(pool, c)]
                    \/ \E p \in MarkDead(pool, c) : T = [S EXCEPT !.pool = p]
  BY StateFields DEF Pong, Handle
<1> HIDE DEF S
<1>5. c \in pool.conns /\ Agree(pool)
  BY <1>2, StateFields DEF Calm
<1>6. PICK p : /\ Agree(p) /\ p.conns = pool.conns /\ p.id = pool.id
               /\ T = [S EXCEPT !.pool = p]
  <2>1. CASE T = [S EXCEPT !.pool = MarkAlive(pool, c)]
    BY <1>1, <1>5, <2>1, MarkAliveAgree, MarkAliveFields
  <2>2. ASSUME NEW p \in MarkDead(pool, c), T = [S EXCEPT !.pool = p]
        PROVE  Agree(p) /\ p.conns = pool.conns /\ p.id = pool.id
    BY <1>1, <1>5, MarkDeadAgree, MarkDeadFields
  <2> QED
    BY <1>4, <2>1, <2>2
<1>7. /\ T.req = State.req /\ T.pool = p
      /\ \A d \in Conn : T.pings[d] > 0 => State.pings[d] > 0
  BY <1>3, <1>6 DEF ClientType
<1>8. Turned(State, T, Sniff, V)
  BY <1>6, <1>7, PoolTurned, StateFields
<1> QED
  BY <1>4, <1>8 DEF TurnedTo, All

LEMMA TickTurned ==
  ASSUME NEW V, Sound(State), Calm(State, V), Tick
  PROVE  TurnedTo(V)
<1> DEFINE p == [pool EXCEPT !.wait = [c \in Conn |-> IF @[c] > 0 THEN @[c] - 1 ELSE 0]]
           T == [State EXCEPT !.pool = p]
<1>1. State \in ClientType /\ pool \in PoolType /\ Agree(pool)
  BY StateFields DEF Sound, Typed, PoolInv, Calm
<1>2. p.conns = pool.conns /\ p.id = pool.id /\ Agree(p)
  BY <1>1 DEF PoolType, Agree, DeadIds
<1>3. Becomes(T)
  BY StateFields DEF Tick, State
<1> HIDE DEF p
<1>4. T.req = State.req /\ T.pool = p /\ T.pings = State.pings
  BY <1>1 DEF ClientType
<1> HIDE DEF T
<1>5. Turned(State, T, Sniff, V)
  BY <1>2, <1>4, PoolTurned, StateFields
<1> QED
  BY <1>3, <1>5 DEF TurnedTo, All

LEMMA SniffTimerTurned ==
  ASSUME NEW V, Sound(State), Calm(State, V), SniffTimer
  PROVE  TurnedTo(V)
<1> DEFINE T == [State EXCEPT !.due = TRUE]
<1>1. /\ T.req = State.req /\ T.pool = State.pool /\ T.pings = State.pings
  BY DEF State
<1>2. Becomes(T)
  BY DEF SniffTimer
<1> HIDE DEF T
<1>3. Turned(State, T, Sniff, V)
  BY <1>1, PoolTurned DEF Calm
<1> QED
  BY <1>2, <1>3 DEF TurnedTo, All

LEMMA NextTurned ==
  ASSUME NEW V, FixedCluster(V), Sound(State), Calm(State, V), Next
  PROVE  TurnedTo(V)
BY IssueTurned, AbortTurned, HandlersTurned, SniffTimerTurned, UserSniffTurned, PongTurned,
   TickTurned
   DEF Next

LEMMA BecomesCalm ==
  ASSUME NEW V, NEW T, Becomes(T), Calm(T, V)
  PROVE  Calm(State, V)'
<1>1. req' = T.req /\ pool' = T.pool /\ pings' = T.pings
  BY DEF Becomes
<1>2. State.req' = T.req /\ State.pool' = T.pool /\ State.pings' = T.pings
  BY <1>1 DEF State
<1> QED
  BY <1>2 DEF Calm

LEMMA NextCalm ==
  ASSUME NEW V, FixedCluster(V)
  PROVE  Sound(State) /\ Calm(State, V) /\ [Next]_vars => Calm(State, V)'
<1> SUFFICES ASSUME Sound(State), Calm(State, V), [Next]_vars PROVE Calm(State, V)'
  OBVIOUS
<1>1. CASE Next
  <2>1. PICK T : Becomes(T) /\ Calm(T, V)
    BY <1>1, NextTurned DEF TurnedTo, Turned
  <2> QED
    BY <2>1, BecomesCalm
<1>2. CASE UNCHANGED vars
  BY <1>2 DEF vars, State, Calm
<1> QED
  BY <1>1, <1>2

LEMMA InitCalm ==
  ASSUME NEW V, FixedCluster(V)
  PROVE  Init => Calm(State, V)
<1> SUFFICES ASSUME Init PROVE Calm(State, V)
  OBVIOUS
<1>1. PICK f \in Injection(InitialIds, Conn) :
        pool = [conns     |-> {f[i] : i \in InitialIds},
                dead      |-> <<>>,
                strategy  |-> Strategy,
                id        |-> [c \in Conn |-> IF c \in {f[i] : i \in InitialIds}
                                              THEN CHOOSE i \in InitialIds : f[i] = c
                                              ELSE CHOOSE i \in Id : TRUE],
                status    |-> [c \in Conn |-> "alive"],
                deadCount |-> [c \in Conn |-> 0],
                wait      |-> [c \in Conn |-> 0],
                usable    |-> [c \in Conn |-> TRUE]]
  BY DEF Init
<1> DEFINE made == {f[i] : i \in InitialIds}
<1>2. made \subseteq Conn
  BY DEF Injection
<1>3. /\ pool.conns = made /\ pool.dead = <<>>
      /\ \A c \in made : pool.id[c] = CHOOSE i \in InitialIds : f[i] = c
      /\ \A c \in made : pool.status[c] = "alive" /\ pool.usable[c]
  BY <1>1, <1>2
<1>4. \A c \in made : pool.id[c] \in InitialIds
  BY <1>3
<1> HIDE DEF made
<1>5. made # {}
  BY DEF FixedCluster, made
<1>6. Agree(pool)
  BY <1>3 DEF Agree, DeadIds
<1>7. Covered(pool, V)
  <2> SUFFICES ASSUME NEW c \in made
               PROVE  \E n \in V : pool.id[c] = UrlOf[n] /\ ~HasId(pool, n)
    BY <1>3 DEF Covered
  <2>1. PICK n \in V : pool.id[c] = UrlOf[n]
    BY <1>4 DEF FixedCluster
  <2>2. \A d \in made : pool.id[d] # n
    BY <1>4, IdAssumption DEF FixedCluster
  <2> QED
    BY <1>3, <2>1, <2>2 DEF HasId
<1>8. /\ req = [r \in All |-> Idle(SniffOptions)] /\ pings = [c \in Conn |-> 0]
  BY DEF Init
<1>9. \A r \in All : req[r].conn = None /\ req[r].reply # "noLiving"
  BY <1>8 DEF Idle
<1> QED
  BY <1>3, <1>5, <1>6, <1>7, <1>8, <1>9, StateFields DEF Calm

(***************************************************************************)
(* While the cluster stays as the user configured it, no request is ever   *)
(* told that there is no connection: Transport.getConnection always gives  *)
(* one, a dead one if there is no other.                                   *)
(***************************************************************************)
THEOREM FixedClusterServes ==
  ASSUME NEW V, FixedCluster(V)
  PROVE  Spec => []NeverWithoutConnection
<1>1. Init => Calm(State, V)
  BY InitCalm
<1>2. Sound(State) /\ Calm(State, V) /\ [Next]_vars => Calm(State, V)'
  BY NextCalm
<1>3. Calm(State, V) => NeverWithoutConnection
  BY StateFields DEF Calm, NeverWithoutConnection
<1> QED
  BY <1>1, <1>2, <1>3, InitSound, NextSound, PTL DEF Spec

(***************************************************************************)
(* In such a cluster a retry, after an error of the connection or a 502,   *)
(* 503 or 504, goes to the connection that failed only if every connection *)
(* of the pool is dead: meta.connection was marked dead, with a timeout to *)
(* come, before makeRequest() asks the pool again.                         *)
(***************************************************************************)
THEOREM FixedClusterRetries ==
  ASSUME NEW V, FixedCluster(V)
  PROVE  Spec => RetryAvoidsFailed
<1>1. Sound(State) /\ Calm(State, V) /\ [Next]_vars =>
        [\A r \in All :
           req'[r].pc = "sent" /\ req'[r].attempts > req[r].attempts /\ req'[r].conn = req[r].conn
             => \A c \in pool'.conns \ {req[r].conn} : pool'.status[c] = "dead"]_vars
  <2> SUFFICES ASSUME Sound(State), Calm(State, V), Next, NEW r \in All,
                      req'[r].attempts > req[r].attempts, req'[r].conn = req[r].conn,
                      req'[r].pc = "sent"
               PROVE  AllDead(pool')
    BY DEF AllDead
  <2>1. PICK T : Becomes(T) /\ \E x \in All : Turned(State, T, x, V)
    BY NextTurned DEF TurnedTo
  <2>2. req' = T.req /\ pool' = T.pool
    BY <2>1 DEF Becomes
  <2>3. req[r].attempts \in Nat
    BY StateFields DEF Sound, Typed, ClientType, RequestType
  <2>4. T.req[r].attempts \notin {0, State.req[r].attempts}
    BY <2>2, <2>3, StateFields
  <2>5. Avoids(T, r, State.req[r].conn)
    BY <2>1, <2>4 DEF Turned, Elsewhere
  <2> QED
    BY <2>2, <2>5, StateFields DEF Avoids
<1>2. Init => Sound(State) /\ Calm(State, V)
  BY InitSound, InitCalm
<1>3. Sound(State) /\ Calm(State, V) /\ [Next]_vars => Sound(State)' /\ Calm(State, V)'
  BY NextSound, NextCalm
<1> QED
  BY <1>1, <1>2, <1>3, PTL DEF Spec, RetryAvoidsFailed
=============================================================================
