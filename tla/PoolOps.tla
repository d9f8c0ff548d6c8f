------------------------------ MODULE PoolOps ------------------------------
(***************************************************************************)
(* The methods of BaseConnectionPool and ConnectionPool, as operators that *)
(* map the pool they are called on to the pool (or the set of pools) they  *)
(* leave.  A pool is a record:                                             *)
(*   conns      the objects in `this.connections` (`size` is its number)   *)
(*   dead       `this.dead`, the sequence of ids waiting for resurrection  *)
(*   strategy   `this.resurrectStrategy`                                   *)
(*   id, status, deadCount, wait, usable                                   *)
(*              the fields of every Connection object, in the pool or not  *)
(*                                                                         *)
(* Abstractions.  The order of `connections` matters to the selector only, *)
(* so it is a set and a selector may return any candidate.  A resurrect    *)
(* timeout is kept as `wait`, the number of resurrectTimeout units (60s)   *)
(* still to go, 0 once it is due.  deadCount stops at Cutoff + 1: beyond   *)
(* it the delay no longer depends on it.  Roles are one bit, `usable`,     *)
(* what the default node filter answers.                                   *)
(***************************************************************************)
EXTENDS Integers, Sequences, FiniteSets

CONSTANTS
  Conn,        \* identities of Connection objects
  NodeId,      \* ids Elasticsearch gives to its nodes
  Href,        \* normalised node urls
  UrlOf,       \* the url at which a node publishes itself
  MasterOnly,  \* nodes that neither hold data nor ingest
  Cutoff       \* resurrectTimeoutCutoff

ASSUME IdAssumption ==
  /\ Href # {}
  /\ NodeId \cap Href = {}
  /\ UrlOf \in [NodeId -> Href]
  /\ MasterOnly \subseteq NodeId
ASSUME ConnAssumption == IsFiniteSet(Conn)
ASSUME CutoffAssumption == Cutoff \in 0..5

\* A connection given by its url alone has that url as its id; a sniffed one has the node's id.
Id == NodeId \cup Href

UrlOfId(i) == IF i \in NodeId THEN UrlOf[i] ELSE i

Statuses == {"alive", "dead"}
Strategies == {"none", "ping", "optimistic"}

\* Delays in units of resurrectTimeout, 2^min(deadCount - 1, Cutoff) for deadCount in 1..Cutoff + 1.
PowersOfTwo == <<1, 2, 4, 8, 16, 32>>
\* Mutation of Backoff: the delay in seconds.
BackoffInSeconds(count) == 60 * PowersOfTwo[count]

Backoff(count) == PowersOfTwo[count]

PoolType ==
  [conns     : SUBSET Conn,
   dead      : Seq(Id),
   strategy  : Strategies,
   id        : [Conn -> Id],
   status    : [Conn -> Statuses],
   deadCount : [Conn -> 0..Cutoff + 1],
   wait      : [Conn -> 0..32],
   usable    : [Conn -> BOOLEAN]]

-----------------------------------------------------------------------------
DeadIds(p) == {p.dead[k] : k \in DOMAIN p.dead}

HasId(p, i) == \E c \in p.conns : p.id[c] = i

\* this.connections.find(c => c.id === i)
Find(p, i) == CHOOSE c \in p.conns : p.id[c] = i

\* s without its first occurrence of i, if it has one: indexOf, then splice.
Spliced(s, i) ==
  IF \E k \in DOMAIN s : s[k] = i
  THEN LET first == CHOOSE k \in DOMAIN s :
                      s[k] = i /\ \A j \in DOMAIN s : s[j] = i => k <= j
       IN  [k \in 1..Len(s) - 1 |-> IF k < first THEN s[k] ELSE s[k + 1]]
  ELSE s

\* The results Array.sort may leave: the ids in any order that respects their timeouts.
Sorted(p, ids) ==
  {s \in [1..Cardinality(ids) -> ids] :
     /\ \A i \in ids : \E k \in DOMAIN s : s[k] = i
     /\ \A j, k \in DOMAIN s : j < k => /\ s[j] # s[k]
                                        /\ p.wait[Find(p, s[j])] <= p.wait[Find(p, s[k])]}

\* Mutation of MarkAlive: the id stays on the dead list.
MarkAliveNotSpliced(p, c) ==
  [p EXCEPT !.status[c] = "alive", !.deadCount[c] = 0, !.wait[c] = 0]

MarkAlive(p, c) ==
  [p EXCEPT !.dead         = Spliced(p.dead, p.id[c]),
            !.status[c]    = "alive",
            !.deadCount[c] = 0,
            !.wait[c]      = 0]

\* Mutation of MarkDead: it does not check that the id is still in the pool.
MarkDeadUnchecked(p, c) ==
  LET count == IF p.deadCount[c] > Cutoff THEN Cutoff + 1 ELSE p.deadCount[c] + 1
      q     == [p EXCEPT !.status[c] = "dead", !.deadCount[c] = count, !.wait[c] = Backoff(count)]
  IN  IF p.id[c] \in DeadIds(p) THEN {q} ELSE {[q EXCEPT !.dead = Append(@, p.id[c])]}

\* Mutation of MarkDead: the dead list is not sorted.
MarkDeadUnsorted(p, c) ==
  IF HasId(p, p.id[c]) THEN MarkDeadUnchecked(p, c)
  ELSE {[p EXCEPT !.status[c] = "dead"]}

\* Mutation of MarkDead: it does not check whether the id is on the dead list already.
MarkDeadTwice(p, c) ==
  {[q EXCEPT !.dead = <<p.id[c]>> \o p.dead] : q \in MarkDeadUnchecked(p, c)}

\* The set of pools markDead may leave: only the order of equal timeouts is open.
MarkDead(p, c) ==
  LET ids   == DeadIds(p) \cup (IF HasId(p, p.id[c]) THEN {p.id[c]} ELSE {})
      count == IF p.deadCount[c] > Cutoff THEN Cutoff + 1 ELSE p.deadCount[c] + 1
      q     == [p EXCEPT !.status[c]    = "dead",
                         !.deadCount[c] = count,
                         !.wait[c]      = Backoff(count)]
  IN  {[q EXCEPT !.dead = s] : s \in Sorted(q, ids)}

-----------------------------------------------------------------------------
\* resurrect(): it looks at the head of the dead list, and only once that is due.
Head1(p) == Find(p, p.dead[1])

CanResurrect(p) ==
  /\ p.strategy # "none"
  /\ Len(p.dead) > 0
  /\ p.wait[Head1(p)] = 0

\* The connection the ping strategy sends its HEAD request to, if any.
PingTarget(p) ==
  IF p.strategy = "ping" /\ CanResurrect(p) THEN {Head1(p)} ELSE {}

\* What resurrect() leaves synchronously; a ping only acts when it is answered.
Resurrected(p) ==
  IF p.strategy = "optimistic" /\ CanResurrect(p)
  THEN [p EXCEPT !.dead = Tail(p.dead), !.status[Head1(p)] = "alive"]
  ELSE p

\* Mutation of Candidates: dead connections are not served when no other is left.
CandidatesAliveOnly(p) == {c \in p.conns : p.usable[c] /\ p.status[c] = "alive"}

\* The connections getConnection() passes to the selector.
Candidates(p) ==
  {c \in p.conns : /\ p.usable[c]
                   /\ \/ Cardinality(p.conns) = Len(p.dead)
                      \/ p.status[c] = "alive"}

-----------------------------------------------------------------------------
(***************************************************************************)
(* update(nodes).  The new pool is the domain of `ids`, which gives each   *)
(* of its members its id; `fresh` are the members created by this call.    *)
(* Every member is marked alive (a created one starts alive), and          *)
(* ConnectionPool.update clears the dead list.                             *)
(***************************************************************************)
Rebuilt(p, ids, fresh, unusable) ==
  LET members == DOMAIN ids
      Reset(field, value) == [c \in Conn |-> IF c \in members THEN value ELSE field[c]]
  IN  [p EXCEPT !.conns     = members,
                !.dead      = <<>>,
                !.id        = [c \in Conn |-> IF c \in members THEN ids[c] ELSE @[c]],
                !.status    = Reset(@, "alive"),
                !.deadCount = Reset(@, 0),
                !.wait      = Reset(@, 0),
                !.usable    = [c \in Conn |-> IF c \in fresh THEN ids[c] \notin unusable
                                                             ELSE @[c]]]

\* Mutation of KeptAs: the url is looked up even when the id was found.
KeptAsEither(p, c, n) == p.id[c] = n \/ p.id[c] = UrlOf[n]

\* The node of a view that keeps c: by id, or else by url.
KeptAs(p, c, n) ==
  \/ p.id[c] = n
  \/ p.id[c] = UrlOf[n] /\ ~HasId(p, n)

\* Mutation of Kept: a connection known by its url is not renamed.
KeptById(p, view) == {c \in p.conns : p.id[c] \in view}

Kept(p, view) == {c \in p.conns : \E n \in view : KeptAs(p, c, n)}

NewNodes(p, view) == {n \in view : ~HasId(p, n) /\ ~HasId(p, UrlOf[n])}

\* `created` assigns to each new node the Connection object createConnection returns for it.
Updated(p, view, created) ==
  LET fresh == {created[n] : n \in DOMAIN created}
      ids   == [c \in Kept(p, view) \cup fresh |->
                  IF c \in fresh THEN CHOOSE n \in DOMAIN created : created[n] = c
                                 ELSE CHOOSE n \in view : KeptAs(p, c, n)]
  IN  Rebuilt(p, ids, fresh, MasterOnly)

\* addConnection refuses an id, or a url, that is already an id in the pool.
CanAdd(p, i) == ~HasId(p, i) /\ ~HasId(p, UrlOfId(i))

Added(p, i, c) ==
  Rebuilt(p, [d \in p.conns \cup {c} |-> IF d = c THEN i ELSE p.id[d]], {c}, {})

Removed(p, c) ==
  Rebuilt(p, [d \in {e \in p.conns : p.id[e] # p.id[c]} |-> p.id[d]], {}, {})
=============================================================================
