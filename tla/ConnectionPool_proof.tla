------------------------ MODULE ConnectionPool_proof ------------------------
(***************************************************************************)
(* The pool stays consistent under every interleaving of requests, pings,  *)
(* sniffs and topology changes; and while the topology is fixed it never   *)
(* loses track of a dead connection and always serves.                     *)
(***************************************************************************)
EXTENDS ConnectionPool, PoolOps_proof

\* The inductive invariant: the pool's own consistency, next to the types of the rest.
IInv == TypeOK /\ PoolInv(pool)

\* What the constructor and the first addConnection leave.
LEMMA InitPool ==
  ASSUME Init
  PROVE  /\ PoolInv(pool) /\ open \subseteq Conn
         /\ pool.dead = <<>>
         /\ \A c \in Conn : pool.status[c] = "alive" /\ pool.usable[c]
<1>1. PICK f \in Injection(InitialIds, Conn), s \in InitStrategies :
        /\ pool = [conns     |-> {f[i] : i \in InitialIds},
                   dead      |-> <<>>,
                   strategy  |-> s,
                   id        |-> [c \in Conn |-> IF c \in {f[i] : i \in InitialIds}
                                                 THEN CHOOSE i \in InitialIds : f[i] = c
                                                 ELSE AnyId],
                   status    |-> [c \in Conn |-> "alive"],
                   deadCount |-> [c \in Conn |-> 0],
                   wait      |-> [c \in Conn |-> 0],
                   usable    |-> [c \in Conn |-> TRUE]]
        /\ open = {f[i] : i \in InitialIds}
  BY DEF Init
<1> DEFINE made == {f[i] : i \in InitialIds}
           ids == [c \in Conn |-> IF c \in made THEN CHOOSE i \in InitialIds : f[i] = c
                                                ELSE AnyId]
<1>2. made \subseteq Conn
  BY DEF Injection
<1>3. \A c \in made : ids[c] \in InitialIds /\ f[ids[c]] = c
  BY <1>2
<1>4. AnyId \in Id
  BY IdAssumption DEF AnyId, Id
<1>5. ids \in [Conn -> Id]
  <2>1. \A c \in Conn : c \in made => ids[c] \in Id
    BY <1>3, HostAssumption
  <2>2. \A c \in Conn : c \notin made => ids[c] \in Id
    BY <1>4
  <2> QED
    BY <2>1, <2>2
<1> HIDE DEF made, ids
<1>6. /\ pool.conns = made /\ pool.id = ids /\ pool.dead = <<>>
      /\ pool.status = [c \in Conn |-> "alive"] /\ pool.usable = [c \in Conn |-> TRUE]
      /\ pool \in PoolType
  <2>1. /\ [c \in Conn |-> "alive"] \in [Conn -> Statuses]
        /\ [c \in Conn |-> 0] \in [Conn -> 0..Cutoff + 1]
        /\ [c \in Conn |-> 0] \in [Conn -> 0..32]
    BY CutoffAssumption DEF Statuses
  <2>2. s \in Strategies /\ <<>> \in Seq(Id)
    BY HostAssumption
  <2>3. pool = [conns |-> made, dead |-> <<>>, strategy |-> s, id |-> ids,
                status |-> [c \in Conn |-> "alive"], deadCount |-> [c \in Conn |-> 0],
                wait |-> [c \in Conn |-> 0], usable |-> [c \in Conn |-> TRUE]]
    BY <1>1 DEF made, ids
  <2> QED
    BY <2>1, <2>2, <2>3, <1>2, <1>5 DEF PoolType
<1>7. Unique(pool)
  BY <1>3, <1>6 DEF Unique
<1>8. Listed(pool) /\ Ordered(pool)
  BY <1>6 DEF Listed, Ordered
<1> QED
  BY <1>1, <1>2, <1>6, <1>7, <1>8 DEF PoolInv, made

\* A new client satisfies the inductive invariant.
LEMMA InitIInv == Init => IInv
<1> SUFFICES ASSUME Init PROVE IInv
  OBVIOUS
<1>1. PoolInv(pool) /\ open \subseteq Conn
  BY InitPool
<1>2. calls \in [Conn -> Nat] /\ pings \in [Conn -> Nat] /\ emptying = {} /\ phase = "serving"
  BY DEF Init
<1> QED
  BY <1>1, <1>2 DEF IInv, TypeOK, PoolInv

\* The connections a sniff creates are different from each other and from those of the pool.
LEMMA CreatedApart ==
  ASSUME NEW view, NEW created \in Injection(NewNodes(pool, view), Unreferenced)
  PROVE  /\ created \in [NewNodes(pool, view) -> Conn]
         /\ \A m, n \in NewNodes(pool, view) : created[m] = created[n] => m = n
         /\ \A n \in NewNodes(pool, view) : created[n] \notin pool.conns
BY DEF Injection, IsInjective, Unreferenced

\* What update() closes and opens are connections.
LEMMA OpenTyped ==
  ASSUME open \subseteq Conn, PoolInv(pool'), NEW ids, ClosesOld(ids)
  PROVE  open' \subseteq Conn
<1>1. pool'.conns \subseteq Conn
  BY DEF PoolInv, PoolType
<1> QED
  BY <1>1 DEF ClosesOld

\* Every step of the pool and its callers preserves the inductive invariant.
LEMMA NextIInv == IInv /\ [Next]_vars => IInv'
<1> SUFFICES ASSUME IInv, [Next]_vars PROVE IInv'
  OBVIOUS
<1>0. /\ PoolInv(pool) /\ pool.conns \subseteq Conn
      /\ calls \in [Conn -> Nat] /\ pings \in [Conn -> Nat]
      /\ open \subseteq Conn /\ emptying \subseteq Conn
      /\ phase \in {"serving", "emptying", "emptied"}
  BY DEF IInv, TypeOK, PoolInv, PoolType
<1> USE DEF IInv, TypeOK
<1> SUFFICES /\ PoolInv(pool')
             /\ calls' \in [Conn -> Nat] /\ pings' \in [Conn -> Nat]
             /\ open' \subseteq Conn /\ emptying' \subseteq Conn
             /\ phase' \in {"serving", "emptying", "emptied"}
  BY DEF PoolInv
<1>1. CASE GetConnection
  <2>1. PoolInv(pool')
    BY <1>0, <1>1, ResurrectedInv DEF GetConnection
  <2>2. pings' \in [Conn -> Nat]
    BY <1>0, <1>1 DEF GetConnection
  <2>3. calls' \in [Conn -> Nat]
    BY <1>0, <1>1 DEF GetConnection
  <2> QED
    BY <1>0, <1>1, <2>1, <2>2, <2>3 DEF GetConnection
<1>2. ASSUME NEW c \in Conn, CallOk(c) \/ CallFault(c) \/ CallUnmarked(c)
      PROVE  PoolInv(pool') /\ EndCall(c)
  BY <1>0, <1>2, MarkAliveInv, MarkDeadInv DEF CallOk, CallFault, CallUnmarked
<1>3. ASSUME NEW c \in Conn, PingOk(c) \/ PingFault(c)
      PROVE  PoolInv(pool') /\ EndPing(c)
  BY <1>0, <1>3, MarkAliveInv, MarkDeadInv DEF PingOk, PingFault
<1>4. CASE Answer
  <2>1. CASE \E c \in Conn : CallOk(c) \/ CallFault(c) \/ CallUnmarked(c)
    <3>1. PICK c \in Conn : PoolInv(pool') /\ EndCall(c)
      BY <1>2, <2>1
    <3> QED
      BY <1>0, <3>1 DEF EndCall
  <2>2. CASE \E c \in Conn : PingOk(c) \/ PingFault(c)
    <3>1. PICK c \in Conn : PoolInv(pool') /\ EndPing(c)
      BY <1>3, <2>2
    <3> QED
      BY <1>0, <3>1 DEF EndPing
  <2> QED
    BY <1>4, <2>1, <2>2 DEF Answer
<1>5. CASE Tick
  BY <1>0, <1>5, TickInv DEF Tick
<1>6. ASSUME NEW view \in Views, Sniffed(view)
      PROVE  PoolInv(pool') /\ open' \subseteq Conn /\ UNCHANGED <<calls, pings, emptying, phase>>
  <2>1. PICK created \in Injection(NewNodes(pool, view), Unreferenced) :
          pool' = Updated(pool, view, created)
    BY <1>6 DEF Sniffed
  <2>2. PoolInv(pool')
    BY <1>0, <2>1, ViewAssumption, CreatedApart, UpdatedInv
  <2> QED
    BY <1>0, <1>6, <2>2, OpenTyped DEF Sniffed
<1>7. ASSUME NEW i \in Addable, AddConnection(i)
      PROVE  PoolInv(pool') /\ open' \subseteq Conn /\ UNCHANGED <<calls, pings, emptying, phase>>
  <2>1. i \in Id /\ CanAdd(pool, i)
    BY <1>7, HostAssumption DEF AddConnection
  <2>2. PICK c \in Unreferenced : pool' = Added(pool, i, c)
    BY <1>7 DEF AddConnection
  <2>3. c \in Conn /\ c \notin pool.conns
    BY DEF Unreferenced
  <2>4. PoolInv(pool')
    BY <1>0, <2>1, <2>2, <2>3, AddedInv
  <2> QED
    BY <1>0, <1>7, <2>4, OpenTyped DEF AddConnection
<1>8. ASSUME NEW i \in Removable, RemoveConnection(i)
      PROVE  PoolInv(pool') /\ open' \subseteq Conn /\ UNCHANGED <<calls, pings, emptying, phase>>
  <2>1. PoolInv(pool')
    BY <1>0, <1>8, RemovedInv DEF RemoveConnection
  <2> QED
    BY <1>0, <1>8, <2>1, OpenTyped DEF RemoveConnection
<1>9. CASE Empty
  BY <1>0, <1>9 DEF Empty
<1>10. ASSUME NEW c \in Conn, Closed(c)
       PROVE  /\ PoolInv(pool') /\ emptying' \subseteq Conn
              /\ phase' \in {"serving", "emptying", "emptied"}
              /\ UNCHANGED <<calls, pings, open>>
  <2>1. CASE emptying = {c}
    <3>1. pool' = [pool EXCEPT !.conns = {}, !.dead = <<>>]
      BY <1>10, <2>1 DEF Closed
    <3>2. pool \in PoolType /\ <<>> \in Seq(Id)
      BY <1>0 DEF PoolInv
    <3>3. pool'.conns = {} /\ pool'.dead = <<>> /\ pool' \in PoolType
      BY <3>1, <3>2 DEF PoolType
    <3>4. PoolInv(pool')
      BY <3>3 DEF PoolInv, Unique, Listed, Ordered
    <3> QED
      BY <1>0, <1>10, <2>1, <3>4 DEF Closed
  <2>2. CASE emptying # {c}
    BY <1>0, <1>10, <2>2 DEF Closed
  <2> QED
    BY <2>1, <2>2
<1>11. CASE UNCHANGED vars
  BY <1>0, <1>11 DEF vars
<1> QED
  BY <1>0, <1>1, <1>4, <1>5, <1>6, <1>7, <1>8, <1>9, <1>10, <1>11 DEF Next, Topology, Closing

-----------------------------------------------------------------------------
\* What the invariant of the pool says of the head of the dead list.
LEMMA HeadEarliest == IInv => HeadIsEarliest
<1> SUFFICES ASSUME IInv, NEW k \in DOMAIN pool.dead
             PROVE  pool.wait[Find(pool, pool.dead[1])] <= pool.wait[Find(pool, pool.dead[k])]
  BY DEF HeadIsEarliest
<1>1. pool.dead \in Seq(Id) /\ pool.wait \in [Conn -> 0..32] /\ pool.conns \subseteq Conn
  BY DEF IInv, PoolInv, PoolType
<1>2. k \in Int /\ k >= 1 /\ 1 \in DOMAIN pool.dead
  BY <1>1
<1>3. Find(pool, pool.dead[1]) \in Conn
  BY <1>1, <1>2, FindInPool DEF IInv, PoolInv, Listed
<1>4. CASE k = 1
  <2>1. pool.wait[Find(pool, pool.dead[1])] \in 0..32
    BY <1>1, <1>3
  <2> QED
    BY <1>4, <2>1
<1>5. CASE k > 1
  BY <1>2, <1>5 DEF IInv, PoolInv, Ordered
<1> QED
  BY <1>2, <1>4, <1>5

\* Every variable of the pool and its callers has its type; no delay leaves the table of Backoff.
THEOREM PoolTyped == Spec => []TypeOK
<1>1. IInv => TypeOK
  BY DEF IInv
<1> QED
  BY <1>1, InitIInv, NextIInv, PTL DEF Spec

\* Whatever the interleaving of answers, pings, sniffs, additions, removals and a close, an id
\* names at most one connection of the pool.
THEOREM IdsStayUnique == Spec => []UniqueIds
<1>1. IInv => UniqueIds
  BY DEF IInv, PoolInv, Unique, UniqueIds
<1> QED
  BY <1>1, InitIInv, NextIInv, PTL DEF Spec

\* The dead list holds ids of connections of the pool, each once, so that no lookup in markDead or
\* resurrect yields undefined.
THEOREM DeadIdsStayInPool == Spec => []DeadIdsInPool
<1>1. IInv => DeadIdsInPool
  BY DEF IInv, PoolInv, Listed, DeadIdsInPool, DeadIds
<1> QED
  BY <1>1, InitIInv, NextIInv, PTL DEF Spec

\* No connection of the dead list is due before its head, the only one resurrect() looks at.
THEOREM HeadStaysEarliest == Spec => []HeadIsEarliest
BY HeadEarliest, InitIInv, NextIInv, PTL DEF Spec

\* What update() makes of the pool when a sniff has reported a view.
LEMMA SniffedMembers ==
  ASSUME IInv, NEW view \in Views,
         NEW created \in Injection(NewNodes(pool, view), Unreferenced),
         pool' = Updated(pool, view, created)
  PROVE  /\ {pool'.id[c] : c \in pool'.conns} = view
         /\ \A c \in pool.conns : c \in pool'.conns <=> pool'.id[c] \in view
         /\ \A c \in pool.conns : pool.id[c] \in view => c \in pool'.conns
<1>1. /\ view \in SUBSET NodeId
      /\ \A m, n \in view : UrlOf[m] = UrlOf[n] => m = n
  BY ViewAssumption
<1>2. /\ created \in [NewNodes(pool, view) -> Conn]
      /\ \A m, n \in NewNodes(pool, view) : created[m] = created[n] => m = n
      /\ \A n \in NewNodes(pool, view) : created[n] \notin pool.conns
  BY CreatedApart
<1>3. PoolInv(pool)
  BY DEF IInv
<1> QED
  BY <1>1, <1>2, <1>3, UpdatedIds, UpdatedMembers

\* After a successful sniff the pool has a connection for each node of the view that this sniff
\* reported and for no other, and the nodes that stay keep their Connection objects.
THEOREM SniffLeavesView == Spec => PoolMatchesView
<1>1. IInv /\ [Next]_vars =>
        [\A view \in Views : Sniffed(view) =>
           /\ {pool'.id[c] : c \in pool'.conns} = view
           /\ \A c \in pool.conns : pool.id[c] \in view => c \in pool'.conns]_vars
  <2> SUFFICES ASSUME IInv, NEW view \in Views, Sniffed(view)
               PROVE  /\ {pool'.id[c] : c \in pool'.conns} = view
                      /\ \A c \in pool.conns : pool.id[c] \in view => c \in pool'.conns
    OBVIOUS
  <2>1. PICK created \in Injection(NewNodes(pool, view), Unreferenced) :
          pool' = Updated(pool, view, created)
    BY DEF Sniffed
  <2> QED
    BY <2>1, SniffedMembers
<1> QED
  BY <1>1, InitIInv, NextIInv, PTL DEF Spec, PoolMatchesView

-----------------------------------------------------------------------------
(***************************************************************************)
(* A fixed topology: no sniff succeeds and the user neither adds nor       *)
(* removes hosts.  What fails without it is that a request in flight may   *)
(* hold a connection object which is no longer the pool's one for that id. *)
(***************************************************************************)
FixedTopology == Views = {} /\ Addable = {} /\ Removable = {}

\* Every request and ping holds a connection of the pool, unless empty() cleared it.
Current ==
  \A c \in Conn : calls[c] > 0 \/ pings[c] > 0 => c \in pool.conns \/ pool.conns = {}

FInv == IInv /\ Agree(pool) /\ Current

\* In a new client no connection is dead, so list and statuses agree.
LEMMA InitFInv == Init => FInv
<1> SUFFICES ASSUME Init PROVE FInv
  OBVIOUS
<1>1. IInv
  BY InitIInv
<1>2. Agree(pool)
  <2>1. pool.dead = <<>> /\ pool.conns \subseteq Conn
        /\ \A c \in Conn : pool.status[c] = "alive" /\ pool.usable[c]
    BY InitPool DEF PoolInv, PoolType
  <2> QED
    BY <2>1 DEF Agree, DeadIds
<1>3. Current
  BY DEF Init, Current
<1> QED
  BY <1>1, <1>2, <1>3 DEF FInv

\* While the topology is fixed, every step keeps the list and the statuses in agreement.
LEMMA NextFInv ==
  ASSUME FixedTopology
  PROVE  FInv /\ [Next]_vars => FInv'
<1> SUFFICES ASSUME FInv, [Next]_vars PROVE FInv'
  OBVIOUS
<1>0. /\ IInv' /\ PoolInv(pool) /\ Agree(pool) /\ Current
      /\ pool \in PoolType /\ pool.conns \subseteq Conn
      /\ calls \in [Conn -> Nat] /\ pings \in [Conn -> Nat]
  BY NextIInv DEF FInv, IInv, TypeOK, PoolInv, PoolType
<1> SUFFICES Agree(pool') /\ Current'
  BY <1>0 DEF FInv
<1>1. CASE GetConnection
  <2>1. pool' = Resurrected(pool)
    BY <1>1 DEF GetConnection
  <2>2. Agree(pool') /\ pool'.conns = pool.conns
    BY <1>0, <2>1, ResurrectedAgree
  <2>3. ASSUME NEW c \in Conn, c \in PingTarget(pool)
        PROVE  c \in pool.conns
    <3>1. Len(pool.dead) > 0 /\ pool.dead \in Seq(Id) /\ c = Head1(pool)
      BY <1>0, <2>3 DEF PingTarget, CanResurrect, PoolType
    <3>2. 1 \in DOMAIN pool.dead
      BY <3>1
    <3> QED
      BY <1>0, <3>1, <3>2, FindInPool DEF PoolInv, Listed, Head1
  <2>4. \A c \in Conn : pings'[c] > 0 => pings[c] > 0 \/ c \in pool.conns
    BY <1>0, <1>1, <2>3 DEF GetConnection
  <2>5. \A c \in Conn : calls'[c] > 0 => calls[c] > 0 \/ c \in pool.conns
    <3>1. CASE \E c \in Candidates(pool') : calls' = [calls EXCEPT ![c] = @ + 1]
      <4>1. PICK d \in Candidates(pool') : calls' = [calls EXCEPT ![d] = @ + 1]
        BY <3>1
      <4>2. d \in pool.conns
        BY <2>2 DEF Candidates
      <4> QED
        BY <1>0, <4>1, <4>2
    <3>2. CASE UNCHANGED calls
      BY <3>2
    <3> QED
      BY <1>1, <3>1, <3>2 DEF GetConnection
  <2> QED
    BY <1>0, <2>2, <2>4, <2>5 DEF Current
<1>2. ASSUME NEW c \in Conn, calls[c] > 0 \/ pings[c] > 0
      PROVE  /\ Agree(MarkAlive(pool, c)) /\ MarkAlive(pool, c).conns = pool.conns
             /\ \A q \in MarkDead(pool, c) : Agree(q) /\ q.conns = pool.conns
  <2>1. c \in pool.conns \/ pool.conns = {}
    BY <1>0, <1>2 DEF Current
  <2>2. Agree(MarkAlive(pool, c))
    BY <1>0, <2>1, MarkAliveAgree
  <2>3. MarkAlive(pool, c).conns = pool.conns
    BY <1>0, MarkAliveFields
  <2>4. \A q \in MarkDead(pool, c) : Agree(q)
    BY <1>0, <2>1, MarkDeadAgree
  <2>5. \A q \in MarkDead(pool, c) : q.conns = pool.conns
    BY <1>0, MarkDeadFields
  <2> QED
    BY <2>2, <2>3, <2>4, <2>5
<1>3. CASE Answer
  <2>1. PICK c \in Conn : CallOk(c) \/ CallFault(c) \/ CallUnmarked(c) \/ PingOk(c) \/ PingFault(c)
    BY <1>3 DEF Answer
  <2>2. /\ calls[c] > 0 \/ pings[c] > 0
        /\ \/ pool' = MarkAlive(pool, c)
           \/ pool' \in MarkDead(pool, c)
           \/ pool' = pool
        /\ EndCall(c) \/ EndPing(c)
    BY <2>1 DEF CallOk, CallFault, CallUnmarked, PingOk, PingFault, EndCall, EndPing
  <2>3. Agree(pool') /\ pool'.conns = pool.conns
    BY <1>0, <1>2, <2>2
  <2>4. \A d \in Conn : calls'[d] > 0 \/ pings'[d] > 0 => calls[d] > 0 \/ pings[d] > 0
    BY <1>0, <2>2 DEF EndCall, EndPing
  <2> QED
    BY <1>0, <2>3, <2>4 DEF Current
<1>4. CASE Tick
  <2>1. /\ pool'.conns = pool.conns /\ pool'.id = pool.id /\ pool'.dead = pool.dead
        /\ pool'.status = pool.status /\ pool'.usable = pool.usable
        /\ UNCHANGED <<calls, pings>>
    BY <1>0, <1>4 DEF Tick, PoolType
  <2> QED
    BY <1>0, <2>1 DEF Agree, DeadIds, Current
<1>5. CASE Topology
  BY <1>5 DEF FixedTopology, Topology
<1>6. CASE Empty
  BY <1>0, <1>6 DEF Empty, Current
<1>7. ASSUME NEW c \in Conn, Closed(c)
      PROVE  Agree(pool') /\ Current'
  <2>1. CASE emptying = {c}
    <3>1. pool'.conns = {}
      BY <1>0, <1>7, <2>1 DEF Closed, PoolType
    <3> QED
      BY <3>1 DEF Agree, Current
  <2>2. CASE emptying # {c}
    BY <1>0, <1>7, <2>2 DEF Closed, Current
  <2> QED
    BY <2>1, <2>2
<1>8. CASE UNCHANGED vars
  BY <1>0, <1>8 DEF vars, Current
<1> QED
  BY <1>1, <1>3, <1>4, <1>5, <1>6, <1>7, <1>8 DEF Next, Closing

\* In a fixed topology the dead list holds exactly the ids of the dead connections.
THEOREM FixedTopologyAgrees ==
  ASSUME FixedTopology
  PROVE  Spec => []DeadMatchesStatus
<1>1. FInv => DeadMatchesStatus
  BY DEF FInv, Agree, DeadMatchesStatus
<1>2. FInv /\ [Next]_vars => FInv'
  BY NextFInv
<1> QED
  BY <1>1, <1>2, InitFInv, PTL DEF Spec

\* In a fixed topology getConnection() finds a connection as long as the pool has one: no client
\* is told NoLivingConnectionsError because the pool forgot a dead node.
THEOREM FixedTopologyServes ==
  ASSUME FixedTopology
  PROVE  Spec => []AlwaysServes
<1>1. FInv => AlwaysServes
  <2> SUFFICES ASSUME FInv, pool.conns # {} PROVE Candidates(Resurrected(pool)) # {}
    BY DEF AlwaysServes
  <2>1. PoolInv(pool) /\ Agree(pool)
    BY DEF FInv, IInv
  <2> QED
    BY <2>1, ResurrectedInv, ResurrectedAgree, AgreeServes
<1>2. FInv /\ [Next]_vars => FInv'
  BY NextFInv
<1> QED
  BY <1>1, <1>2, InitFInv, PTL DEF Spec

-----------------------------------------------------------------------------
(***************************************************************************)
(* Connections told to close.  empty() drops whatever is in the pool when  *)
(* the last of the connections it closed calls back; so no sniff and no    *)
(* addition may come in between.                                           *)
(***************************************************************************)
\* Until empty() is called the pool and the open connections are the same; after that nobody is
\* open.
Kept_OK ==
  /\ phase = "serving" => open = pool.conns
  /\ phase # "serving" => open = {} /\ MayEmpty
  /\ emptying # {} => phase # "serving"

CInv == IInv /\ Kept_OK

\* What an answer, a resurrection or the clock makes of the pool has the same connections.
LEMMA SameConnections ==
  ASSUME IInv, GetConnection \/ Answer \/ Tick
  PROVE  pool'.conns = pool.conns /\ UNCHANGED <<open, phase, emptying>>
<1>1. PoolInv(pool) /\ pool \in PoolType
  BY DEF IInv, PoolInv
<1>2. CASE GetConnection
  <2>1. pool' = Resurrected(pool)
    BY <1>2 DEF GetConnection
  <2>2. CASE pool.strategy = "optimistic" /\ CanResurrect(pool)
    BY <1>1, <1>2, <2>1, <2>2, ResurrectedFields DEF GetConnection
  <2>3. CASE ~(pool.strategy = "optimistic" /\ CanResurrect(pool))
    BY <1>2, <2>1, <2>3 DEF GetConnection, Resurrected
  <2> QED
    BY <2>2, <2>3
<1>3. CASE Answer
  <2>1. PICK c \in Conn : /\ EndCall(c) \/ EndPing(c)
                          /\ \/ pool' = MarkAlive(pool, c)
                             \/ pool' \in MarkDead(pool, c)
                             \/ pool' = pool
    BY <1>3 DEF Answer, CallOk, CallFault, CallUnmarked, PingOk, PingFault
  <2>2. MarkAlive(pool, c).conns = pool.conns
    BY <1>1, MarkAliveFields
  <2>3. \A q \in MarkDead(pool, c) : q.conns = pool.conns
    BY <1>1, MarkDeadFields
  <2>4. pool'.conns = pool.conns
    BY <2>1, <2>2, <2>3
  <2> QED
    BY <2>1, <2>4 DEF EndCall, EndPing
<1>4. CASE Tick
  BY <1>1, <1>4 DEF Tick, PoolType
<1> QED
  BY <1>2, <1>3, <1>4

\* The members and the ids a Rebuilt pool has.
LEMMA RebuiltMembers ==
  ASSUME NEW p \in PoolType, NEW ids, NEW fresh, NEW unusable
  PROVE  /\ Rebuilt(p, ids, fresh, unusable).conns = DOMAIN ids
         /\ Rebuilt(p, ids, fresh, unusable).id =
              [c \in Conn |-> IF c \in DOMAIN ids THEN ids[c] ELSE p.id[c]]
BY DEF Rebuilt, PoolType

\* update() closes, by their ids, the connections it drops and no other; addConnection and
\* removeConnection go through it.
LEMMA TopologyKeeps ==
  ASSUME IInv, open = pool.conns, Topology
  PROVE  open' = pool'.conns /\ UNCHANGED <<phase, emptying>>
<1>1. pool \in PoolType /\ pool.conns \subseteq Conn
  BY DEF IInv, PoolInv, PoolType
<1>2. ASSUME NEW view \in Views, Sniffed(view)
      PROVE  open' = pool'.conns /\ UNCHANGED <<phase, emptying>>
  <2>1. PICK created \in Injection(NewNodes(pool, view), Unreferenced) :
          pool' = Updated(pool, view, created)
    BY <1>2 DEF Sniffed
  <2>2. OldConnections(pool, pool', view) = pool.conns \ pool'.conns
    BY <2>1, SniffedMembers DEF OldConnections
  <2> QED
    BY <1>2, <2>2 DEF Sniffed, ClosesOld
<1>3. ASSUME NEW i \in Addable, AddConnection(i)
      PROVE  open' = pool'.conns /\ UNCHANGED <<phase, emptying>>
  <2>1. PICK c \in Unreferenced : pool' = Added(pool, i, c)
    BY <1>3 DEF AddConnection
  <2> DEFINE ids == [d \in pool.conns \cup {c} |-> IF d = c THEN i ELSE pool.id[d]]
  <2>2. c \notin pool.conns
    BY DEF Unreferenced
  <2>3. pool' = Rebuilt(pool, ids, {c}, {}) /\ DOMAIN ids = pool.conns \cup {c}
    BY <2>1 DEF Added
  <2>4. \A d \in pool.conns : ids[d] = pool.id[d]
    BY <2>2
  <2> HIDE DEF ids
  <2>5. pool'.conns = pool.conns \cup {c} /\ \A d \in pool.conns : pool'.id[d] = pool.id[d]
    <3>1. /\ pool'.conns = DOMAIN ids
          /\ pool'.id = [d \in Conn |-> IF d \in DOMAIN ids THEN ids[d] ELSE pool.id[d]]
      BY <1>1, <2>3, RebuiltMembers
    <3> QED
      BY <1>1, <2>3, <2>4, <3>1
  <2>6. OldConnections(pool, pool', {pool.id[d] : d \in pool.conns}) = {}
    BY <2>5 DEF OldConnections
  <2> QED
    BY <1>3, <2>5, <2>6 DEF AddConnection, ClosesOld
<1>4. ASSUME NEW i \in Removable, RemoveConnection(i)
      PROVE  open' = pool'.conns /\ UNCHANGED <<phase, emptying>>
  <2>1. PICK c \in pool.conns : pool.id[c] = i /\ pool' = Removed(pool, c)
    BY <1>4 DEF RemoveConnection
  <2> DEFINE stay == {e \in pool.conns : pool.id[e] # i}
             ids == [d \in stay |-> pool.id[d]]
  <2>2. pool' = Rebuilt(pool, ids, {}, {}) /\ DOMAIN ids = stay
    BY <2>1 DEF Removed
  <2>3. \A d \in stay : ids[d] = pool.id[d]
    OBVIOUS
  <2> HIDE DEF ids
  <2>4. pool'.conns = stay /\ \A d \in pool.conns : pool'.id[d] = pool.id[d]
    <3>1. /\ pool'.conns = DOMAIN ids
          /\ pool'.id = [d \in Conn |-> IF d \in DOMAIN ids THEN ids[d] ELSE pool.id[d]]
      BY <1>1, <2>2, RebuiltMembers
    <3> QED
      BY <1>1, <2>2, <2>3, <3>1
  <2>5. OldConnections(pool, pool', {pool.id[d] : d \in pool.conns} \ {i}) = pool.conns \ stay
    BY <2>4 DEF OldConnections
  <2> QED
    BY <1>4, <2>4, <2>5 DEF RemoveConnection, ClosesOld
<1> QED
  BY <1>2, <1>3, <1>4 DEF Topology

LEMMA InitCInv == Init => CInv
<1> SUFFICES ASSUME Init PROVE CInv
  OBVIOUS
<1>1. phase = "serving" /\ open = pool.conns /\ emptying = {}
  BY DEF Init
<1> QED
  BY <1>1, InitIInv DEF CInv, Kept_OK

LEMMA NextCInv ==
  ASSUME MayEmpty => FixedTopology
  PROVE  CInv /\ [Next]_vars => CInv'
<1> SUFFICES ASSUME CInv, [Next]_vars PROVE Kept_OK'
  BY NextIInv DEF CInv
<1>1. CASE GetConnection \/ Answer \/ Tick
  BY <1>1, SameConnections DEF CInv, Kept_OK
<1>2. CASE Topology
  <2>1. ~MayEmpty
    BY <1>2 DEF FixedTopology, Topology
  <2> QED
    BY <1>2, <2>1, TopologyKeeps DEF CInv, Kept_OK
<1>3. CASE Empty
  BY <1>3 DEF Empty, CInv, Kept_OK
<1>4. ASSUME NEW c \in Conn, Closed(c) PROVE Kept_OK'
  BY <1>4 DEF Closed, CInv, Kept_OK
<1>5. CASE UNCHANGED vars
  BY <1>5 DEF vars, CInv, Kept_OK
<1> QED
  BY <1>1, <1>2, <1>3, <1>4, <1>5 DEF Next, Closing

\* However sniffs rename, keep and replace connections, those that update() closes, which it looks
\* for by id, are those it drops; if the client is not closed while its nodes may still change.
THEOREM NoneLost ==
  ASSUME MayEmpty => FixedTopology
  PROVE  Spec => []NoConnectionLost
<1>1. CInv => NoConnectionLost
  BY DEF CInv, Kept_OK, NoConnectionLost
<1>2. CInv /\ [Next]_vars => CInv'
  BY NextCInv
<1> QED
  BY <1>1, <1>2, InitCInv, PTL DEF Spec
=============================================================================
