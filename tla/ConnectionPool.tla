--------------------------- MODULE ConnectionPool ---------------------------
(***************************************************************************)
(* A ConnectionPool and its callers.  JavaScript runs every method to      *)
(* completion, so each method is one action; what interleaves is the       *)
(* answers.  A request, and a ping sent by resurrect(), keeps a reference  *)
(* to a Connection object while it is in flight, and marks that object     *)
(* alive or dead when its answer comes, whatever the pool has become.      *)
(* Sniffing and the user change the topology in between.                   *)
(***************************************************************************)
EXTENDS PoolOps, Functions

CONSTANTS
  InitialIds,     \* the hosts the client is created with
  Views,          \* sets of nodes a sniff may report
  Addable,        \* hosts the user may add
  Removable,      \* hosts the user may remove
  InitStrategies, \* resurrect strategies to consider
  MaxCalls,       \* bound: requests in flight on one connection
  MaxPings,       \* bound: pings in flight on one connection
  MayEmpty        \* whether the client may be closed

ASSUME HostAssumption ==
  /\ InitialIds \subseteq Id
  /\ Addable \subseteq Id
  /\ Removable \subseteq Id
  /\ InitStrategies \subseteq Strategies
\* No two nodes publish the same address at the same time.
ASSUME ViewAssumption ==
  \A view \in Views : /\ view \subseteq NodeId
                      /\ \A m, n \in view : UrlOf[m] = UrlOf[n] => m = n
ASSUME BoundAssumption == MaxCalls \in Nat /\ MaxPings \in Nat

VARIABLES
  pool,      \* the pool, see PoolOps
  calls,     \* requests in flight, by the connection object they hold
  pings,     \* pings in flight, by the connection object they hold
  open,      \* connections created and not told to close
  emptying,  \* connections whose close() has not called empty() back yet
  phase      \* whether empty() was called, and whether it called back

vars == <<pool, calls, pings, open, emptying, phase>>

-----------------------------------------------------------------------------
\* The objects createConnection may return: identities nobody refers to.
Unreferenced ==
  {c \in Conn : c \notin pool.conns \cup open \cup emptying /\ calls[c] = 0 /\ pings[c] = 0}

AnyId == CHOOSE i \in Id : TRUE

\* The pool of a new client: one connection for each configured host, default roles.
Init ==
  /\ \E f \in Injection(InitialIds, Conn), s \in InitStrategies :
       LET made == {f[i] : i \in InitialIds}
       IN  /\ pool = [conns     |-> made,
                      dead      |-> <<>>,
                      strategy  |-> s,
                      id        |-> [c \in Conn |-> IF c \in made
                                                    THEN CHOOSE i \in InitialIds : f[i] = c
                                                    ELSE AnyId],
                      status    |-> [c \in Conn |-> "alive"],
                      deadCount |-> [c \in Conn |-> 0],
                      wait      |-> [c \in Conn |-> 0],
                      usable    |-> [c \in Conn |-> TRUE]]
           /\ open = made
  /\ calls = [c \in Conn |-> 0]
  /\ pings = [c \in Conn |-> 0]
  /\ emptying = {}
  /\ phase = "serving"

-----------------------------------------------------------------------------
\* getConnection(): resurrect first, then hand a candidate, if any, to a new request.
GetConnection ==
  /\ \A c \in PingTarget(pool) : pings[c] < MaxPings
  /\ pool' = Resurrected(pool)
  /\ pings' = [c \in Conn |-> IF c \in PingTarget(pool) THEN pings[c] + 1 ELSE pings[c]]
  /\ \/ \E c \in Candidates(pool') :
          /\ calls[c] < MaxCalls
          /\ calls' = [calls EXCEPT ![c] = @ + 1]
     \/ /\ Candidates(pool') = {}
        /\ UNCHANGED calls
  /\ UNCHANGED <<open, emptying, phase>>

EndCall(c) ==
  /\ calls[c] > 0
  /\ calls' = [calls EXCEPT ![c] = @ - 1]
  /\ UNCHANGED <<pings, open, emptying, phase>>

EndPing(c) ==
  /\ pings[c] > 0
  /\ pings' = [pings EXCEPT ![c] = @ - 1]
  /\ UNCHANGED <<calls, open, emptying, phase>>

\* The transport read a response that is not 502, 503 or 504.
CallOk(c) == EndCall(c) /\ pool' = MarkAlive(pool, c)

\* The transport met a connection error or read a 502, 503 or 504.
CallFault(c) == EndCall(c) /\ pool' \in MarkDead(pool, c)

\* An aborted, streamed or undecodable answer marks nothing.
CallUnmarked(c) == EndCall(c) /\ UNCHANGED pool

PingOk(c) == EndPing(c) /\ pool' = MarkAlive(pool, c)

PingFault(c) == EndPing(c) /\ pool' \in MarkDead(pool, c)

\* One resurrectTimeout unit goes by.
Tick ==
  /\ \E c \in Conn : pool.wait[c] > 0
  /\ pool' = [pool EXCEPT !.wait = [c \in Conn |-> IF @[c] > 0 THEN @[c] - 1 ELSE 0]]
  /\ UNCHANGED <<calls, pings, open, emptying, phase>>

-----------------------------------------------------------------------------
\* Mutation of OldConnections: the ids are compared before the renames.
OldConnectionsUnrenamed(old, new, ids) == {c \in old.conns : old.id[c] \notin ids}

\* The connections update() closes: those whose id, after its renames, no node it was given has.
OldConnections(old, new, ids) == {c \in old.conns : new.id[c] \notin ids}

\* The rest of update(): the old connections are closed, the created ones are open.
ClosesOld(ids) ==
  open' = (open \ OldConnections(pool, pool', ids)) \cup (pool'.conns \ pool.conns)

\* A sniff succeeded: update() with the nodes it reported.
Sniffed(view) ==
  \E created \in Injection(NewNodes(pool, view), Unreferenced) :
    /\ pool' = Updated(pool, view, created)
    /\ ClosesOld(view)
    /\ UNCHANGED <<calls, pings, emptying, phase>>

\* update() with the connections of the pool and a host, whose id may still be undefined.
AddConnection(i) ==
  /\ CanAdd(pool, i)
  /\ \E c \in Unreferenced : pool' = Added(pool, i, c)
  /\ ClosesOld({pool.id[c] : c \in pool.conns})
  /\ UNCHANGED <<calls, pings, emptying, phase>>

\* update() with the connections of the pool that have another id.
RemoveConnection(i) ==
  /\ \E c \in pool.conns : pool.id[c] = i /\ pool' = Removed(pool, c)
  /\ ClosesOld({pool.id[c] : c \in pool.conns} \ {i})
  /\ UNCHANGED <<calls, pings, emptying, phase>>

\* empty(callback): close every connection of the pool, call back after the last.
Empty ==
  /\ MayEmpty
  /\ phase = "serving"
  /\ phase' = "emptying"
  /\ emptying' = pool.conns
  /\ open' = open \ pool.conns
  /\ UNCHANGED <<pool, calls, pings>>

\* Mutation of Closed: the count is compared before it is decremented.
ClosedPostfix(c) ==
  /\ c \in emptying
  /\ emptying' = emptying \ {c}
  /\ UNCHANGED <<pool, calls, pings, open, phase>>

\* close() of one of them has called back.
Closed(c) ==
  /\ c \in emptying
  /\ emptying' = emptying \ {c}
  /\ IF emptying = {c}
     THEN /\ pool' = [pool EXCEPT !.conns = {}, !.dead = <<>>]
          /\ phase' = "emptied"
     ELSE UNCHANGED <<pool, phase>>
  /\ UNCHANGED <<calls, pings, open>>

-----------------------------------------------------------------------------
Answer ==
  \E c \in Conn : CallOk(c) \/ CallFault(c) \/ CallUnmarked(c) \/ PingOk(c) \/ PingFault(c)

Topology ==
  \/ \E view \in Views : Sniffed(view)
  \/ \E i \in Addable : AddConnection(i)
  \/ \E i \in Removable : RemoveConnection(i)

Closing == Empty \/ \E c \in Conn : Closed(c)

Next == GetConnection \/ Answer \/ Tick \/ Topology \/ Closing

Spec == Init /\ [][Next]_vars

(***************************************************************************)
(* Requests keep being made and each is answered in the end: a connection  *)
(* error, a timeout or a response.  Time passes.  close() polls until the  *)
(* connection is idle, and then calls back.                                *)
(***************************************************************************)
Fairness ==
  /\ WF_vars(GetConnection)
  /\ WF_vars(Tick)
  /\ \A c \in Conn : /\ WF_vars(CallOk(c) \/ CallFault(c) \/ CallUnmarked(c))
                     /\ WF_vars(PingOk(c) \/ PingFault(c))
                     /\ WF_vars(Closed(c))

FairSpec == Spec /\ Fairness

-----------------------------------------------------------------------------
(***************************************************************************)
(* Properties.                                                             *)
(***************************************************************************)

\* Every variable has its type; in particular no delay leaves the table of Backoff.
TypeOK ==
  /\ pool \in PoolType
  /\ calls \in [Conn -> Nat]
  /\ pings \in [Conn -> Nat]
  /\ open \subseteq Conn
  /\ emptying \subseteq Conn
  /\ phase \in {"serving", "emptying", "emptied"}

\* No two connections of the pool answer to the same id, through every rename and update, so the
\* find(c => c.id === id) that markDead, resurrect and update rely on is unambiguous.
UniqueIds == \A c, d \in pool.conns : pool.id[c] = pool.id[d] => c = d

\* The dead list holds ids of connections of the pool, each once: the lookups in markDead's
\* comparator and in resurrect never yield undefined, and dead.length can be compared to size.
DeadIdsInPool ==
  /\ \A i \in DeadIds(pool) : HasId(pool, i)
  /\ \A j, k \in DOMAIN pool.dead : pool.dead[j] = pool.dead[k] => j = k

\* resurrect() looks at the head of the dead list only, so no connection behind it may be due
\* earlier: its comment says the first element is always the one with the smaller timeout.
HeadIsEarliest ==
  \A k \in DOMAIN pool.dead :
    pool.wait[Find(pool, pool.dead[1])] <= pool.wait[Find(pool, pool.dead[k])]

\* The dead list and the statuses tell the same story: a connection that is not served for being
\* dead is on the list resurrect() works from, and the other way round.
DeadMatchesStatus ==
  \A c \in pool.conns : pool.status[c] = "dead" <=> pool.id[c] \in DeadIds(pool)

\* "Returns an alive connection if present, otherwise returns a dead connection": getConnection
\* finds a connection whenever the pool has one that the node filter accepts.
AlwaysServes ==
  (\E c \in pool.conns : pool.usable[c]) => Candidates(Resurrected(pool)) # {}

\* A sniff leaves a connection for each node it reported and for no other, whether it keeps the
\* connection by id, renames one known by its url, or creates one (UniqueIds says that there is
\* only one); and a node that stays keeps its Connection object, with its sockets.
PoolMatchesView ==
  [][\A view \in Views : Sniffed(view) =>
       /\ {pool'.id[c] : c \in pool'.conns} = view
       /\ \A c \in pool.conns : pool.id[c] \in view => c \in pool'.conns]_vars

\* update() looks for the connections to close by their ids, among the nodes it was given, and
\* after it has renamed some.  No connection is dropped from the pool without being told to close,
\* by update() or by empty(); and, until close(), no connection of the pool was told to.
NoConnectionLost ==
  /\ open \subseteq pool.conns
  /\ phase = "serving" => open = pool.conns

\* No node of the cluster fails any more, from some point on.
NodesRecover == <>[][\A c \in Conn : ~CallFault(c) /\ ~PingFault(c)]_vars

\* When the nodes recover, and requests keep coming, every connection leaves the dead list: under
\* ping and optimistic resurrection no node stays out of rotation behind another one.
DeadRecover ==
  (NodesRecover /\ pool.strategy # "none") => <>[](pool.dead = <<>>)

\* client.close() is answered: empty() calls back once the connections it closes did.
EmptyAnswered == phase = "emptying" ~> phase = "emptied"
=============================================================================
