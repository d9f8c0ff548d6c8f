--------------------------- MODULE PoolOps_proof ---------------------------
(***************************************************************************)
(* What each method of the pool preserves, for every set of connections,   *)
(* nodes and urls and whatever connection object it is called with; and,   *)
(* for connections of the pool, which of them markDead, getConnection and  *)
(* update leave down.                                                      *)
(***************************************************************************)
EXTENDS PoolOps, FiniteSetTheorems, TLAPS

\* Ids are unique in the pool.
Unique(p) == \A c, d \in p.conns : p.id[c] = p.id[d] => c = d

\* The dead list holds ids of the pool, each once.
Listed(p) ==
  /\ \A k \in DOMAIN p.dead : HasId(p, p.dead[k])
  /\ \A j, k \in DOMAIN p.dead : p.dead[j] = p.dead[k] => j = k

\* The dead list is in the order of the resurrect timeouts.
Ordered(p) ==
  \A j, k \in DOMAIN p.dead :
    j < k => p.wait[Find(p, p.dead[j])] <= p.wait[Find(p, p.dead[k])]

PoolInv(p) == p \in PoolType /\ Unique(p) /\ Listed(p) /\ Ordered(p)

\* Statuses and dead list agree, and nothing is filtered out.
Agree(p) ==
  /\ \A c \in p.conns : p.status[c] = "dead" <=> p.id[c] \in DeadIds(p)
  /\ \A c \in p.conns : p.usable[c]

-----------------------------------------------------------------------------
\* Where ids are unique, looking a connection up by its id finds it.
LEMMA FindById ==
  ASSUME NEW p, Unique(p), NEW c \in p.conns
  PROVE  Find(p, p.id[c]) = c
BY DEF Unique, Find

\* A lookup by an id of the pool yields a connection of the pool that has it.
LEMMA FindInPool ==
  ASSUME NEW p, NEW i, HasId(p, i)
  PROVE  Find(p, i) \in p.conns /\ p.id[Find(p, i)] = i
BY DEF HasId, Find

\* A delay of the table is a number of units in range.
LEMMA BackoffRange ==
  ASSUME NEW count \in 1..Cutoff + 1
  PROVE  Backoff(count) \in 1..32
BY CutoffAssumption DEF Backoff, PowersOfTwo

\* Splicing an element out of a list without repetitions removes it, keeps the others, and
\* leaves each of them at its place or one place earlier.
LEMMA SplicedList ==
  ASSUME NEW s \in Seq(Id), NEW i,
         \A j, k \in DOMAIN s : s[j] = s[k] => j = k
  PROVE  LET r == Spliced(s, i)
         IN  /\ r \in Seq(Id)
             /\ \A k \in DOMAIN r : r[k] # i
             /\ \A j \in DOMAIN s : s[j] # i => \E k \in DOMAIN r : r[k] = s[j]
             /\ \A j, k \in DOMAIN r : j < k =>
                  \E m, n \in DOMAIN s : m < n /\ r[j] = s[m] /\ r[k] = s[n]
             /\ \A k \in DOMAIN r : \E n \in DOMAIN s : r[k] = s[n]
<1> DEFINE r == Spliced(s, i)
<1>1. CASE ~ \E k \in DOMAIN s : s[k] = i
  <2>1. r = s
    BY <1>1 DEF Spliced
  <2> QED
    BY <1>1, <2>1
<1>2. CASE \E k \in DOMAIN s : s[k] = i
  <2> DEFINE first == CHOOSE k \in DOMAIN s :
                        s[k] = i /\ \A j \in DOMAIN s : s[j] = i => k <= j
  <2>1. first \in DOMAIN s /\ s[first] = i
    <3>1. PICK k \in DOMAIN s : s[k] = i
      BY <1>2
    <3>2. \A j \in DOMAIN s : s[j] = i => k <= j
      BY <3>1
    <3> QED
      BY <3>1, <3>2
  <2>2. \A k \in DOMAIN s : k # first => s[k] # i
    BY <2>1
  <2>3. r = [k \in 1..Len(s) - 1 |-> IF k < first THEN s[k] ELSE s[k + 1]]
    BY <1>2 DEF Spliced
  <2> HIDE DEF first, r
  <2>4. DOMAIN s = 1..Len(s) /\ Len(s) \in Nat /\ first \in 1..Len(s)
    BY <2>1
  <2>5. DOMAIN r = 1..Len(s) - 1
    BY <2>3
  <2>6. \A k \in DOMAIN r : /\ k < first => r[k] = s[k] /\ k \in DOMAIN s
                            /\ k >= first => r[k] = s[k + 1] /\ k + 1 \in DOMAIN s
    BY <2>3, <2>4, <2>5
  <2>7. r \in Seq(Id)
    <3>1. \A k \in 1..Len(s) - 1 : r[k] \in Id
      BY <2>4, <2>5, <2>6
    <3>2. Len(s) - 1 \in Nat
      BY <2>4
    <3> QED
      BY <2>3, <3>1, <3>2, Z3
  <2>8. \A k \in DOMAIN r : r[k] # i
    BY <2>2, <2>4, <2>5, <2>6
  <2>9. ASSUME NEW j \in DOMAIN s, s[j] # i
        PROVE  \E k \in DOMAIN r : r[k] = s[j]
    <3>1. CASE j < first
      BY <3>1, <2>4, <2>5, <2>6
    <3>2. CASE j > first
      <4>1. j - 1 \in DOMAIN r /\ j - 1 >= first
        BY <3>2, <2>4, <2>5
      <4>2. r[j - 1] = s[j]
        BY <4>1, <2>4, <2>6
      <4> QED
        BY <4>1, <4>2
    <3> QED
      BY <3>1, <3>2, <2>1, <2>4, <2>9
  <2>10. ASSUME NEW j \in DOMAIN r, NEW k \in DOMAIN r, j < k
         PROVE  \E m, n \in DOMAIN s : m < n /\ r[j] = s[m] /\ r[k] = s[n]
    <3> DEFINE At(x) == IF x < first THEN x ELSE x + 1
    <3>1. At(j) \in DOMAIN s /\ At(k) \in DOMAIN s /\ At(j) < At(k)
      BY <2>4, <2>5, <2>10
    <3>2. r[j] = s[At(j)] /\ r[k] = s[At(k)]
      BY <2>4, <2>5, <2>6
    <3> QED
      BY <3>1, <3>2
  <2>11. \A k \in DOMAIN r : \E n \in DOMAIN s : r[k] = s[n]
    BY <2>4, <2>5, <2>6
  <2> QED
    BY <2>7, <2>8, <2>9, <2>10, <2>11 DEF r
<1> QED
  BY <1>1, <1>2

-----------------------------------------------------------------------------
\* The fields markAlive leaves.
LEMMA MarkAliveFields ==
  ASSUME NEW p \in PoolType, NEW c \in Conn
  PROVE  LET q == MarkAlive(p, c)
         IN  /\ q.conns = p.conns /\ q.id = p.id /\ q.usable = p.usable
             /\ q.strategy = p.strategy
             /\ q.dead = Spliced(p.dead, p.id[c])
             /\ q.status = [p.status EXCEPT ![c] = "alive"]
             /\ q.deadCount = [p.deadCount EXCEPT ![c] = 0]
             /\ q.wait = [p.wait EXCEPT ![c] = 0]
             /\ (q.dead \in Seq(Id) => q \in PoolType)
<1>1. /\ Cutoff \in Int
      /\ p.status \in [Conn -> Statuses] /\ p.deadCount \in [Conn -> 0..Cutoff + 1]
      /\ p.wait \in [Conn -> 0..32]
  BY CutoffAssumption DEF PoolType
<1>2. /\ [p.status EXCEPT ![c] = "alive"] \in [Conn -> Statuses]
      /\ [p.deadCount EXCEPT ![c] = 0] \in [Conn -> 0..Cutoff + 1]
      /\ [p.wait EXCEPT ![c] = 0] \in [Conn -> 0..32]
  BY <1>1, CutoffAssumption DEF Statuses
<1> QED
  BY <1>1, <1>2 DEF MarkAlive, PoolType

\* markAlive preserves the invariant, whether or not c is still in the pool.
LEMMA MarkAliveInv ==
  ASSUME NEW p, PoolInv(p), NEW c \in Conn
  PROVE  PoolInv(MarkAlive(p, c))
<1> DEFINE q == MarkAlive(p, c)
           r == Spliced(p.dead, p.id[c])
<1>1. p \in PoolType /\ p.dead \in Seq(Id) /\ p.conns \subseteq Conn
  BY DEF PoolInv, PoolType
<1>2. /\ q.conns = p.conns /\ q.id = p.id /\ q.dead = r
      /\ q.wait = [p.wait EXCEPT ![c] = 0]
      /\ (q.dead \in Seq(Id) => q \in PoolType)
  BY <1>1, MarkAliveFields
<1>3. /\ r \in Seq(Id)
      /\ \A k \in DOMAIN r : r[k] # p.id[c]
      /\ \A j, k \in DOMAIN r : j < k =>
           \E m, n \in DOMAIN p.dead : m < n /\ r[j] = p.dead[m] /\ r[k] = p.dead[n]
      /\ \A k \in DOMAIN r : \E n \in DOMAIN p.dead : r[k] = p.dead[n]
  BY <1>1, SplicedList, SMTT(20) DEF PoolInv, Listed
<1>4. p.wait \in [Conn -> 0..32]
  BY <1>1 DEF PoolType
<1> HIDE DEF q, r
<1>5. Unique(q)
  BY <1>2 DEF PoolInv, Unique
<1>6. DOMAIN r = 1..Len(r) /\ DOMAIN p.dead = 1..Len(p.dead)
  BY <1>1, <1>3
<1>7. Listed(q)
  <2>1. \A k \in DOMAIN q.dead : HasId(q, q.dead[k])
    BY <1>2, <1>3 DEF PoolInv, Listed, HasId
  <2>2. ASSUME NEW j \in DOMAIN r, NEW k \in DOMAIN r, r[j] = r[k], j < k
        PROVE  FALSE
    <3>1. PICK m, n \in DOMAIN p.dead : m < n /\ r[j] = p.dead[m] /\ r[k] = p.dead[n]
      BY <1>3, <2>2
    <3>2. m = n
      BY <2>2, <3>1 DEF PoolInv, Listed
    <3> QED
      BY <3>1, <3>2, <1>6
  <2>3. \A j, k \in DOMAIN r : j \in Int /\ k \in Int
    BY <1>6
  <2>4. \A j, k \in DOMAIN r : r[j] = r[k] => j = k
    BY <2>2, <2>3
  <2> QED
    BY <2>1, <2>4, <1>2 DEF Listed
<1>8. Ordered(q)
  <2> SUFFICES ASSUME NEW j \in DOMAIN r, NEW k \in DOMAIN r, j < k
               PROVE  q.wait[Find(q, r[j])] <= q.wait[Find(q, r[k])]
    BY <1>2 DEF Ordered
  <2>1. PICK m, n \in DOMAIN p.dead : m < n /\ r[j] = p.dead[m] /\ r[k] = p.dead[n]
    BY <1>3
  <2>2. \A i : Find(q, i) = Find(p, i)
    BY <1>2 DEF Find
  <2>3. \A x \in DOMAIN r : HasId(p, r[x]) /\ r[x] # p.id[c]
    BY <1>3 DEF PoolInv, Listed
  <2>4. \A x \in DOMAIN r : /\ Find(p, r[x]) \in Conn
                            /\ Find(p, r[x]) # c
    BY <2>3, <1>1, FindInPool
  <2>5. p.wait[Find(p, r[j])] <= p.wait[Find(p, r[k])]
    BY <2>1 DEF PoolInv, Ordered
  <2> QED
    BY <2>2, <2>4, <2>5, <1>2, <1>4
<1> QED
  BY <1>2, <1>3, <1>5, <1>7, <1>8 DEF PoolInv, q

-----------------------------------------------------------------------------
\* A result of Array.sort is a list of exactly the given ids, each once, in order.
LEMMA SortedList ==
  ASSUME NEW p, NEW ids \in SUBSET Id, IsFiniteSet(ids), NEW s \in Sorted(p, ids)
  PROVE  /\ s \in Seq(Id)
         /\ \A k \in DOMAIN s : s[k] \in ids
         /\ \A i \in ids : \E k \in DOMAIN s : s[k] = i
         /\ \A j, k \in DOMAIN s : s[j] = s[k] => j = k
         /\ \A j, k \in DOMAIN s : j < k =>
              p.wait[Find(p, s[j])] <= p.wait[Find(p, s[k])]
<1>1. Cardinality(ids) \in Nat
  BY FS_CardinalityType
<1>2. /\ s \in [1..Cardinality(ids) -> ids]
      /\ \A i \in ids : \E k \in DOMAIN s : s[k] = i
      /\ \A j, k \in DOMAIN s : j < k => /\ s[j] # s[k]
                                         /\ p.wait[Find(p, s[j])] <= p.wait[Find(p, s[k])]
  BY DEF Sorted
<1>3. s \in Seq(Id)
  BY <1>1, <1>2
<1>4. \A j, k \in DOMAIN s : j \in Int /\ k \in Int
  BY <1>1, <1>2
<1> QED
  BY <1>2, <1>3, <1>4

\* The fields markDead leaves.
LEMMA MarkDeadFields ==
  ASSUME NEW p \in PoolType, NEW c \in Conn, NEW q \in MarkDead(p, c)
  PROVE  /\ q.conns = p.conns /\ q.id = p.id /\ q.usable = p.usable
         /\ q.strategy = p.strategy
         /\ q.status = [p.status EXCEPT ![c] = "dead"]
         /\ q.dead \in Sorted(q, DeadIds(p) \cup
                                 (IF HasId(p, p.id[c]) THEN {p.id[c]} ELSE {}))
         /\ (q.dead \in Seq(Id) => q \in PoolType)
<1> DEFINE ids == DeadIds(p) \cup (IF HasId(p, p.id[c]) THEN {p.id[c]} ELSE {})
           count == IF p.deadCount[c] > Cutoff THEN Cutoff + 1 ELSE p.deadCount[c] + 1
           m == [p EXCEPT !.status[c]    = "dead",
                          !.deadCount[c] = count,
                          !.wait[c]      = Backoff(count)]
<1>1. PICK s \in Sorted(m, ids) : q = [m EXCEPT !.dead = s]
  BY DEF MarkDead
<1>2. /\ Cutoff \in Int
      /\ p.status \in [Conn -> Statuses] /\ p.deadCount \in [Conn -> 0..Cutoff + 1]
      /\ p.wait \in [Conn -> 0..32]
  BY CutoffAssumption DEF PoolType
<1>3. count \in 1..Cutoff + 1
  BY <1>2, CutoffAssumption
<1>4. Backoff(count) \in 0..32
  <2> HIDE DEF count
  <2> QED
    BY <1>3, BackoffRange
<1> HIDE DEF count
<1>5. /\ m.conns = p.conns /\ m.id = p.id
      /\ m.wait = [p.wait EXCEPT ![c] = Backoff(count)]
  BY DEF PoolType
<1>6. /\ q.conns = p.conns /\ q.id = p.id /\ q.usable = p.usable
      /\ q.strategy = p.strategy
      /\ q.status = [p.status EXCEPT ![c] = "dead"]
      /\ q.deadCount = [p.deadCount EXCEPT ![c] = count]
      /\ q.wait = [p.wait EXCEPT ![c] = Backoff(count)]
      /\ q.dead = s
  BY <1>1 DEF PoolType
<1>7. /\ [p.status EXCEPT ![c] = "dead"] \in [Conn -> Statuses]
      /\ [p.deadCount EXCEPT ![c] = count] \in [Conn -> 0..Cutoff + 1]
      /\ [p.wait EXCEPT ![c] = Backoff(count)] \in [Conn -> 0..32]
  BY <1>2, <1>3, <1>4, CutoffAssumption DEF Statuses
<1>8. Sorted(q, ids) = Sorted(m, ids)
  <2>1. q.wait = m.wait /\ \A i : Find(q, i) = Find(m, i)
    BY <1>5, <1>6 DEF Find
  <2> HIDE DEF ids, m
  <2> QED
    BY <2>1 DEF Sorted
<1>9. q.dead \in Seq(Id) => q \in PoolType
  BY <1>1, <1>7 DEF PoolType
<1> QED
  BY <1>1, <1>6, <1>8, <1>9

\* The ids of the dead list are finitely many ids.
LEMMA DeadIdsFinite ==
  ASSUME NEW p \in PoolType, NEW S, IsFiniteSet(S)
  PROVE  /\ IsFiniteSet(DeadIds(p) \cup S)
         /\ DeadIds(p) \subseteq Id
<1>1. p.dead \in Seq(Id)
  BY DEF PoolType
<1>2. DOMAIN p.dead = 1..Len(p.dead) /\ Len(p.dead) \in Nat
  BY <1>1
<1>3. p.dead \in Surjection(1..Len(p.dead), DeadIds(p))
  BY <1>1, <1>2 DEF Surjection, DeadIds
<1>4. IsFiniteSet(1..Len(p.dead))
  BY <1>2, FS_Interval, 1 \in Int, Len(p.dead) \in Int
<1>5. IsFiniteSet(DeadIds(p))
  BY <1>3, <1>4, FS_Surjection
<1>6. IsFiniteSet(DeadIds(p) \cup S)
  BY <1>5, FS_Union
<1> QED
  BY <1>1, <1>6 DEF DeadIds

\* markDead preserves the invariant, whether or not c is still in the pool.
LEMMA MarkDeadInv ==
  ASSUME NEW p, PoolInv(p), NEW c \in Conn, NEW q \in MarkDead(p, c)
  PROVE  /\ PoolInv(q)
         /\ DeadIds(q) = DeadIds(p) \cup (IF HasId(p, p.id[c]) THEN {p.id[c]} ELSE {})
<1> DEFINE ids == DeadIds(p) \cup (IF HasId(p, p.id[c]) THEN {p.id[c]} ELSE {})
<1>1. p \in PoolType /\ p.id \in [Conn -> Id]
  BY DEF PoolInv, PoolType
<1>2. IsFiniteSet(IF HasId(p, p.id[c]) THEN {p.id[c]} ELSE {})
  BY FS_EmptySet, FS_Singleton
<1>3. IsFiniteSet(ids) /\ ids \in SUBSET Id
  BY <1>1, <1>2, DeadIdsFinite
<1>4. /\ q.conns = p.conns /\ q.id = p.id
      /\ q.dead \in Sorted(q, ids)
      /\ (q.dead \in Seq(Id) => q \in PoolType)
  BY <1>1, MarkDeadFields
<1>5. \A i \in ids : HasId(p, i)
  BY DEF DeadIds, PoolInv, Listed
<1> HIDE DEF ids
<1>6. /\ q.dead \in Seq(Id)
      /\ \A k \in DOMAIN q.dead : q.dead[k] \in ids
      /\ \A i \in ids : \E k \in DOMAIN q.dead : q.dead[k] = i
      /\ \A j, k \in DOMAIN q.dead : q.dead[j] = q.dead[k] => j = k
      /\ \A j, k \in DOMAIN q.dead : j < k =>
           q.wait[Find(q, q.dead[j])] <= q.wait[Find(q, q.dead[k])]
  BY <1>3, <1>4, SortedList
<1>7. DeadIds(q) = ids
  BY <1>6 DEF DeadIds
<1>8. Unique(q) /\ Ordered(q)
  BY <1>4, <1>6 DEF PoolInv, Unique, Ordered
<1>9. Listed(q)
  BY <1>4, <1>5, <1>6 DEF Listed, HasId
<1> QED
  BY <1>4, <1>6, <1>7, <1>8, <1>9 DEF PoolInv, ids

-----------------------------------------------------------------------------
\* The fields resurrect leaves when it takes the head off the list at once.
LEMMA ResurrectedFields ==
  ASSUME NEW p, PoolInv(p), p.strategy = "optimistic", CanResurrect(p)
  PROVE  LET q == Resurrected(p)
         IN  /\ q.conns = p.conns /\ q.id = p.id /\ q.usable = p.usable /\ q.wait = p.wait
             /\ q.strategy = p.strategy
             /\ q.dead = Tail(p.dead)
             /\ Head1(p) \in p.conns /\ p.id[Head1(p)] = p.dead[1]
             /\ q.status = [p.status EXCEPT ![Head1(p)] = "alive"]
             /\ q \in PoolType
<1>1. p \in PoolType /\ p.dead \in Seq(Id) /\ Len(p.dead) > 0
  BY DEF PoolInv, PoolType, CanResurrect
<1>2. 1 \in DOMAIN p.dead
  BY <1>1
<1>3. Head1(p) \in p.conns /\ p.id[Head1(p)] = p.dead[1]
  BY <1>2, FindInPool DEF PoolInv, Listed, Head1
<1>4. Head1(p) \in Conn /\ p.status \in [Conn -> Statuses]
  BY <1>1, <1>3 DEF PoolType
<1>5. [p.status EXCEPT ![Head1(p)] = "alive"] \in [Conn -> Statuses]
  BY <1>4 DEF Statuses
<1>6. Tail(p.dead) \in Seq(Id)
  BY <1>1
<1>7. Resurrected(p) = [p EXCEPT !.dead = Tail(p.dead), !.status[Head1(p)] = "alive"]
  BY DEF Resurrected
<1> QED
  BY <1>1, <1>3, <1>5, <1>6, <1>7 DEF PoolType

\* resurrect preserves the invariant; under the optimistic strategy it takes the head, and only
\* the head, off the list.
LEMMA ResurrectedInv ==
  ASSUME NEW p, PoolInv(p)
  PROVE  PoolInv(Resurrected(p))
<1> DEFINE q == Resurrected(p)
<1>1. CASE ~(p.strategy = "optimistic" /\ CanResurrect(p))
  BY <1>1 DEF Resurrected
<1>2. CASE p.strategy = "optimistic" /\ CanResurrect(p)
  <2>1. /\ q.conns = p.conns /\ q.id = p.id /\ q.wait = p.wait
        /\ q.dead = Tail(p.dead) /\ q \in PoolType
    BY <1>2, ResurrectedFields
  <2>2. p.dead \in Seq(Id) /\ Len(p.dead) > 0
    BY <1>2 DEF PoolInv, PoolType, CanResurrect
  <2> HIDE DEF q
  <2>3. /\ DOMAIN q.dead = 1..Len(p.dead) - 1
        /\ \A k \in DOMAIN q.dead : k + 1 \in DOMAIN p.dead /\ q.dead[k] = p.dead[k + 1]
    BY <2>1, <2>2
  <2>4. \A i : Find(q, i) = Find(p, i) /\ (HasId(p, i) => HasId(q, i))
    BY <2>1 DEF Find, HasId
  <2>5. \A j, k \in DOMAIN q.dead : /\ j \in Int /\ k \in Int
                                    /\ j < k => j + 1 < k + 1
                                    /\ j + 1 = k + 1 => j = k
    BY <2>2, <2>3
  <2>6. Unique(q)
    BY <2>1 DEF PoolInv, Unique
  <2>7. Listed(q)
    BY <2>3, <2>4, <2>5 DEF PoolInv, Listed
  <2>8. Ordered(q)
    BY <2>1, <2>3, <2>4, <2>5 DEF PoolInv, Ordered
  <2> QED
    BY <2>1, <2>6, <2>7, <2>8 DEF PoolInv, q
<1> QED
  BY <1>1, <1>2

-----------------------------------------------------------------------------
\* update leaves a pool of the given connections with the given ids and no dead one.
LEMMA RebuiltInv ==
  ASSUME NEW p \in PoolType, NEW S \in SUBSET Conn, NEW ids \in [S -> Id],
         \A c, d \in S : ids[c] = ids[d] => c = d,
         NEW fresh \in SUBSET S, NEW unusable
  PROVE  LET q == Rebuilt(p, ids, fresh, unusable)
         IN  PoolInv(q) /\ q.conns = S
<1> DEFINE q == Rebuilt(p, ids, fresh, unusable)
           id == [c \in Conn |-> IF c \in S THEN ids[c] ELSE p.id[c]]
           status == [c \in Conn |-> IF c \in S THEN "alive" ELSE p.status[c]]
           count == [c \in Conn |-> IF c \in S THEN 0 ELSE p.deadCount[c]]
           wait == [c \in Conn |-> IF c \in S THEN 0 ELSE p.wait[c]]
           usable == [c \in Conn |-> IF c \in fresh THEN ids[c] \notin unusable
                                                    ELSE p.usable[c]]
<1>1. /\ p.id \in [Conn -> Id] /\ p.status \in [Conn -> Statuses]
      /\ p.deadCount \in [Conn -> 0..Cutoff + 1] /\ p.wait \in [Conn -> 0..32]
      /\ p.usable \in [Conn -> BOOLEAN]
  BY DEF PoolType
<1>2. /\ id \in [Conn -> Id] /\ status \in [Conn -> Statuses] /\ wait \in [Conn -> 0..32]
  BY <1>1 DEF Statuses
<1>3. count \in [Conn -> 0..Cutoff + 1]
  BY <1>1, CutoffAssumption
<1>4. usable \in [Conn -> BOOLEAN]
  BY <1>1
<1>5. q = [p EXCEPT !.conns = S, !.dead = <<>>, !.id = id, !.status = status,
                    !.deadCount = count, !.wait = wait, !.usable = usable]
  <2>1. DOMAIN ids = S
    OBVIOUS
  <2> QED
    BY <2>1 DEF Rebuilt
<1> HIDE DEF q, status, count, wait, usable
<1>6. /\ q.conns = S /\ q.dead = <<>> /\ q.id = id
      /\ q.status = status /\ q.usable = usable
      /\ q \in PoolType
  <2>1. <<>> \in Seq(Id)
    OBVIOUS
  <2> HIDE DEF id
  <2> QED
    BY <2>1, <1>2, <1>3, <1>4, <1>5 DEF PoolType
<1>7. Unique(q)
  BY <1>6 DEF Unique
<1>8. Listed(q) /\ Ordered(q)
  BY <1>6 DEF Listed, Ordered
<1> QED
  BY <1>6, <1>7, <1>8 DEF PoolInv, q

\* A sniff leaves no id twice, whichever connections it keeps by id, renames or creates.
LEMMA UpdatedInv ==
  ASSUME NEW p, PoolInv(p), NEW view \in SUBSET NodeId,
         NEW created \in [NewNodes(p, view) -> Conn],
         \A m, n \in NewNodes(p, view) : created[m] = created[n] => m = n,
         \A n \in NewNodes(p, view) : created[n] \notin p.conns
  PROVE  PoolInv(Updated(p, view, created))
<1> DEFINE fresh == {created[n] : n \in DOMAIN created}
           kept == Kept(p, view)
           NodeOf(c) == IF c \in fresh THEN CHOOSE n \in DOMAIN created : created[n] = c
                                       ELSE CHOOSE n \in view : KeptAs(p, c, n)
           ids == [c \in kept \cup fresh |-> NodeOf(c)]
<1>1. p \in PoolType /\ p.conns \subseteq Conn
  BY DEF PoolInv, PoolType
<1>2. kept \subseteq p.conns /\ fresh \subseteq Conn /\ kept \cap fresh = {}
  BY DEF Kept
<1>3. DOMAIN created = NewNodes(p, view) /\ NewNodes(p, view) \subseteq view
  BY DEF NewNodes
<1>4. \A c \in fresh : NodeOf(c) \in NewNodes(p, view) /\ created[NodeOf(c)] = c
  BY <1>3
<1>5. \A c \in kept : NodeOf(c) \in view /\ KeptAs(p, c, NodeOf(c))
  BY <1>2 DEF Kept
<1> HIDE DEF NodeOf, fresh, kept
<1>6. \A c \in kept : HasId(p, NodeOf(c)) \/ HasId(p, UrlOf[NodeOf(c)])
  BY <1>2, <1>5 DEF KeptAs, HasId
<1>7. ASSUME NEW c \in kept \cup fresh, NEW d \in kept \cup fresh, NodeOf(c) = NodeOf(d)
      PROVE  c = d
  <2>1. CASE c \in fresh /\ d \in fresh
    BY <1>4, <1>7, <2>1
  <2>2. CASE c \in kept /\ d \in kept
    <3> DEFINE n == NodeOf(c)
    <3>1. c \in p.conns /\ d \in p.conns /\ KeptAs(p, c, n) /\ KeptAs(p, d, n)
      BY <1>2, <1>5, <1>7, <2>2
    <3>2. p.id[c] = p.id[d]
      BY <3>1 DEF KeptAs, HasId
    <3> QED
      BY <3>1, <3>2 DEF PoolInv, Unique
  <2>3. CASE c \in fresh /\ d \in kept
    BY <1>4, <1>6, <1>7, <2>3 DEF NewNodes
  <2>4. CASE c \in kept /\ d \in fresh
    BY <1>4, <1>6, <1>7, <2>4 DEF NewNodes
  <2> QED
    BY <2>1, <2>2, <2>3, <2>4, <1>7
<1>8. ids \in [kept \cup fresh -> Id]
  BY <1>3, <1>4, <1>5 DEF Id
<1>9. Updated(p, view, created) = Rebuilt(p, ids, fresh, MasterOnly)
  BY DEF Updated, fresh, kept, NodeOf
<1> HIDE DEF ids
<1>10. \A c, d \in kept \cup fresh : ids[c] = ids[d] => c = d
  BY <1>7 DEF ids
<1>11. kept \cup fresh \in SUBSET Conn /\ fresh \in SUBSET (kept \cup fresh)
  BY <1>1, <1>2
<1> QED
  BY <1>1, <1>8, <1>9, <1>10, <1>11, RebuiltInv

\* addConnection preserves the invariant, given what it refuses.
LEMMA AddedInv ==
  ASSUME NEW p, PoolInv(p), NEW i \in Id, CanAdd(p, i), NEW c \in Conn, c \notin p.conns
  PROVE  PoolInv(Added(p, i, c))
<1> DEFINE S == p.conns \cup {c}
           ids == [d \in S |-> IF d = c THEN i ELSE p.id[d]]
<1>1. p \in PoolType /\ p.conns \subseteq Conn /\ p.id \in [Conn -> Id]
  BY DEF PoolInv, PoolType
<1>2. ids \in [S -> Id] /\ S \in SUBSET Conn /\ {c} \in SUBSET S
  BY <1>1
<1>3. \A d, e \in S : ids[d] = ids[e] => d = e
  BY DEF PoolInv, Unique, CanAdd, HasId
<1> QED
  BY <1>1, <1>2, <1>3, RebuiltInv DEF Added

\* removeConnection preserves the invariant.
LEMMA RemovedInv ==
  ASSUME NEW p, PoolInv(p), NEW c \in p.conns
  PROVE  PoolInv(Removed(p, c))
<1> DEFINE S == {e \in p.conns : p.id[e] # p.id[c]}
           ids == [d \in S |-> p.id[d]]
<1>1. p \in PoolType /\ p.conns \subseteq Conn /\ p.id \in [Conn -> Id]
  BY DEF PoolInv, PoolType
<1>2. ids \in [S -> Id] /\ S \in SUBSET Conn /\ {} \in SUBSET S
  BY <1>1
<1>3. \A d, e \in S : ids[d] = ids[e] => d = e
  BY DEF PoolInv, Unique
<1> QED
  BY <1>1, <1>2, <1>3, RebuiltInv DEF Removed

\* A pool of alive connections with different ids.
LEMMA NewPoolInv ==
  ASSUME NEW made \in SUBSET Conn, NEW ids \in [Conn -> Id], NEW strategy \in Strategies,
         \A c, d \in made : ids[c] = ids[d] => c = d
  PROVE  PoolInv([conns |-> made, dead |-> <<>>, strategy |-> strategy, id |-> ids,
                  status |-> [c \in Conn |-> "alive"], deadCount |-> [c \in Conn |-> 0],
                  wait |-> [c \in Conn |-> 0], usable |-> [c \in Conn |-> TRUE]])
<1> DEFINE p == [conns |-> made, dead |-> <<>>, strategy |-> strategy, id |-> ids,
                 status |-> [c \in Conn |-> "alive"], deadCount |-> [c \in Conn |-> 0],
                 wait |-> [c \in Conn |-> 0], usable |-> [c \in Conn |-> TRUE]]
<1>1. /\ [c \in Conn |-> "alive"] \in [Conn -> Statuses]
      /\ [c \in Conn |-> 0] \in [Conn -> 0..Cutoff + 1]
      /\ [c \in Conn |-> 0] \in [Conn -> 0..32]
      /\ <<>> \in Seq(Id)
  BY CutoffAssumption DEF Statuses
<1>2. p \in PoolType
  BY <1>1 DEF PoolType
<1>3. Unique(p) /\ Listed(p) /\ Ordered(p)
  BY DEF Unique, Listed, Ordered
<1> QED
  BY <1>2, <1>3 DEF PoolInv

\* Time going by shortens every delay and keeps their order.
LEMMA TickInv ==
  ASSUME NEW p, PoolInv(p),
         NEW q, q = [p EXCEPT !.wait = [c \in Conn |-> IF @[c] > 0 THEN @[c] - 1 ELSE 0]]
  PROVE  PoolInv(q)
<1> DEFINE wait == [c \in Conn |-> IF p.wait[c] > 0 THEN p.wait[c] - 1 ELSE 0]
<1>1. p \in PoolType /\ p.wait \in [Conn -> 0..32] /\ p.conns \subseteq Conn
  BY DEF PoolInv, PoolType
<1>2. wait \in [Conn -> 0..32]
  BY <1>1
<1>3. \A c, d \in Conn : p.wait[c] <= p.wait[d] => wait[c] <= wait[d]
  BY <1>1
<1>4. q = [p EXCEPT !.wait = wait]
  OBVIOUS
<1> HIDE DEF wait
<1>5. q.conns = p.conns /\ q.id = p.id /\ q.dead = p.dead /\ q.wait = wait /\ q \in PoolType
  BY <1>1, <1>2, <1>4 DEF PoolType
<1>6. \A i : Find(q, i) = Find(p, i) /\ (HasId(p, i) => HasId(q, i) /\ Find(p, i) \in Conn)
  BY <1>1, <1>5, FindInPool DEF Find, HasId
<1>7. Unique(q) /\ Listed(q)
  BY <1>5, <1>6 DEF PoolInv, Unique, Listed
<1>8. Ordered(q)
  BY <1>3, <1>5, <1>6 DEF PoolInv, Listed, Ordered
<1> QED
  BY <1>5, <1>7, <1>8 DEF PoolInv

\* A sniff leaves exactly the reported nodes in the pool, if no two of them share an address.
LEMMA UpdatedIds ==
  ASSUME NEW p, PoolInv(p), NEW view \in SUBSET NodeId,
         \A m, n \in view : UrlOf[m] = UrlOf[n] => m = n,
         NEW created \in [NewNodes(p, view) -> Conn],
         \A m, n \in NewNodes(p, view) : created[m] = created[n] => m = n,
         \A n \in NewNodes(p, view) : created[n] \notin p.conns
  PROVE  LET q == Updated(p, view, created)
         IN  {q.id[c] : c \in q.conns} = view
<1> DEFINE fresh == {created[n] : n \in DOMAIN created}
           kept == Kept(p, view)
           NodeOf(c) == IF c \in fresh THEN CHOOSE n \in DOMAIN created : created[n] = c
                                       ELSE CHOOSE n \in view : KeptAs(p, c, n)
           ids == [c \in kept \cup fresh |-> NodeOf(c)]
           q == Updated(p, view, created)
<1>1. p \in PoolType /\ p.conns \subseteq Conn
  BY DEF PoolInv, PoolType
<1>2. kept \subseteq p.conns /\ fresh \subseteq Conn /\ kept \cap fresh = {}
  BY DEF Kept
<1>3. DOMAIN created = NewNodes(p, view) /\ NewNodes(p, view) \subseteq view
  BY DEF NewNodes
<1>4. \A n \in NewNodes(p, view) : created[n] \in fresh /\ NodeOf(created[n]) = n
  <2> SUFFICES ASSUME NEW n \in NewNodes(p, view)
               PROVE  created[n] \in fresh /\ NodeOf(created[n]) = n
    OBVIOUS
  <2>1. created[n] \in fresh
    BY <1>3
  <2>2. NodeOf(created[n]) \in DOMAIN created /\ created[NodeOf(created[n])] = created[n]
    BY <2>1, <1>3
  <2> QED
    BY <2>1, <2>2, <1>3
<1>5. \A c \in fresh : NodeOf(c) \in view
  BY <1>3
<1>6. \A c \in kept : NodeOf(c) \in view /\ KeptAs(p, c, NodeOf(c))
  BY <1>2 DEF Kept
<1>7. q.conns = kept \cup fresh /\ \A c \in kept \cup fresh : q.id[c] = NodeOf(c)
  <2>1. q = Rebuilt(p, ids, fresh, MasterOnly)
    BY DEF Updated
  <2>2. DOMAIN ids = kept \cup fresh /\ \A c \in kept \cup fresh : ids[c] = NodeOf(c)
    OBVIOUS
  <2> HIDE DEF ids, NodeOf, kept, fresh, q
  <2>3. /\ q.conns = DOMAIN ids
        /\ q.id = [c \in Conn |-> IF c \in DOMAIN ids THEN ids[c] ELSE p.id[c]]
    BY <2>1, <1>1 DEF Rebuilt, PoolType
  <2> QED
    BY <2>2, <2>3, <1>1, <1>2
<1> HIDE DEF NodeOf, fresh, kept, q
<1>8. ASSUME NEW n \in view
      PROVE  \E c \in kept \cup fresh : NodeOf(c) = n
  <2>1. CASE n \in NewNodes(p, view)
    BY <1>4, <2>1
  <2>2. CASE HasId(p, n)
    <3>1. PICK c \in p.conns : p.id[c] = n
      BY <2>2 DEF HasId
    <3>2. c \in kept
      BY <3>1 DEF kept, Kept, KeptAs
    <3>3. KeptAs(p, c, NodeOf(c)) /\ NodeOf(c) \in view
      BY <3>2, <1>6
    <3>4. UrlOf[NodeOf(c)] \in Href /\ n \in NodeId
      BY <3>3, IdAssumption
    <3>5. NodeOf(c) = n
      BY <3>1, <3>3, <3>4, IdAssumption DEF KeptAs
    <3> QED
      BY <3>2, <3>5
  <2>3. CASE ~HasId(p, n) /\ HasId(p, UrlOf[n])
    <3>1. PICK c \in p.conns : p.id[c] = UrlOf[n]
      BY <2>3 DEF HasId
    <3>2. c \in kept
      BY <2>3, <3>1 DEF kept, Kept, KeptAs
    <3>3. KeptAs(p, c, NodeOf(c)) /\ NodeOf(c) \in view
      BY <3>2, <1>6
    <3>4. UrlOf[n] \in Href /\ NodeOf(c) \in NodeId
      BY <3>3, IdAssumption
    <3>5. UrlOf[NodeOf(c)] = UrlOf[n]
      BY <3>1, <3>3, <3>4, IdAssumption DEF KeptAs
    <3> QED
      BY <3>2, <3>3, <3>5
  <2> QED
    BY <2>1, <2>2, <2>3 DEF NewNodes
<1> QED
  BY <1>5, <1>6, <1>7, <1>8 DEF q

\* Of the connections it had, update leaves those whose id, after the renames, a reported node has;
\* among them is every one that had such an id before.
LEMMA UpdatedMembers ==
  ASSUME NEW p, PoolInv(p), NEW view \in SUBSET NodeId,
         \A m, n \in view : UrlOf[m] = UrlOf[n] => m = n,
         NEW created \in [NewNodes(p, view) -> Conn],
         \A m, n \in NewNodes(p, view) : created[m] = created[n] => m = n,
         \A n \in NewNodes(p, view) : created[n] \notin p.conns
  PROVE  LET q == Updated(p, view, created)
         IN  \A c \in p.conns : /\ c \in q.conns <=> q.id[c] \in view
                                /\ p.id[c] \in view => c \in q.conns
<1> DEFINE fresh == {created[n] : n \in DOMAIN created}
           kept == Kept(p, view)
           ids == [c \in kept \cup fresh |->
                     IF c \in fresh THEN CHOOSE n \in DOMAIN created : created[n] = c
                                    ELSE CHOOSE n \in view : KeptAs(p, c, n)]
           q == Updated(p, view, created)
<1>1. p \in PoolType /\ p.conns \subseteq Conn
  BY DEF PoolInv, PoolType
<1>2. q = Rebuilt(p, ids, fresh, MasterOnly) /\ DOMAIN ids = kept \cup fresh
  BY DEF Updated
<1>3. \A c \in p.conns : p.id[c] \in view => c \in kept
  BY DEF Kept, KeptAs
<1>4. {q.id[c] : c \in q.conns} = view
  BY UpdatedIds
<1> HIDE DEF ids, fresh, kept, q
<1>5. /\ q.conns = kept \cup fresh
      /\ \A c \in Conn : c \notin q.conns => q.id[c] = p.id[c]
  BY <1>1, <1>2 DEF Rebuilt, PoolType
<1> SUFFICES ASSUME NEW c \in p.conns
             PROVE  /\ c \in q.conns <=> q.id[c] \in view
                    /\ p.id[c] \in view => c \in q.conns
  BY DEF q
<1> QED
  BY <1>1, <1>3, <1>4, <1>5

-----------------------------------------------------------------------------
(***************************************************************************)
(* Agreement of the statuses with the dead list survives as long as the    *)
(* connection object an answer is about is the one the pool has under its  *)
(* id, or the pool is empty.                                               *)
(***************************************************************************)
LEMMA MarkAliveAgree ==
  ASSUME NEW p, PoolInv(p), Agree(p), NEW c \in Conn, c \in p.conns \/ p.conns = {}
  PROVE  Agree(MarkAlive(p, c))
<1> DEFINE q == MarkAlive(p, c)
           r == Spliced(p.dead, p.id[c])
<1>1. p \in PoolType /\ p.dead \in Seq(Id) /\ p.conns \subseteq Conn
      /\ p.status \in [Conn -> Statuses]
  BY DEF PoolInv, PoolType
<1>2. /\ q.conns = p.conns /\ q.id = p.id /\ q.dead = r /\ q.usable = p.usable
      /\ q.status = [p.status EXCEPT ![c] = "alive"]
  BY <1>1, MarkAliveFields
<1>3. /\ \A k \in DOMAIN r : r[k] # p.id[c]
      /\ \A j \in DOMAIN p.dead : p.dead[j] # p.id[c] => \E k \in DOMAIN r : r[k] = p.dead[j]
      /\ \A k \in DOMAIN r : \E n \in DOMAIN p.dead : r[k] = p.dead[n]
  BY <1>1, SplicedList, SMTT(20) DEF PoolInv, Listed
<1> HIDE DEF q, r
<1>4. DeadIds(q) = DeadIds(p) \ {p.id[c]}
  BY <1>2, <1>3 DEF DeadIds
<1>5. ASSUME NEW d \in p.conns
      PROVE  q.status[d] = "dead" <=> p.id[d] \in DeadIds(q)
  <2>1. c \in p.conns
    OBVIOUS
  <2>2. CASE d = c
    BY <2>2, <1>1, <1>2, <1>4
  <2>3. CASE d # c
    <3>1. p.id[d] # p.id[c]
      BY <2>1, <2>3 DEF PoolInv, Unique
    <3> QED
      BY <2>3, <3>1, <1>1, <1>2, <1>4 DEF Agree
  <2> QED
    BY <2>2, <2>3
<1> QED
  BY <1>2, <1>5 DEF Agree, q

\* markDead of a connection of the pool keeps the list and the statuses in agreement.
LEMMA MarkDeadAgree ==
  ASSUME NEW p, PoolInv(p), Agree(p), NEW c \in Conn, c \in p.conns \/ p.conns = {},
         NEW q \in MarkDead(p, c)
  PROVE  Agree(q)
<1>1. p \in PoolType /\ p.conns \subseteq Conn /\ p.status \in [Conn -> Statuses]
  BY DEF PoolInv, PoolType
<1>2. /\ q.conns = p.conns /\ q.id = p.id /\ q.usable = p.usable
      /\ q.status = [p.status EXCEPT ![c] = "dead"]
  BY <1>1, MarkDeadFields
<1>3. DeadIds(q) = DeadIds(p) \cup (IF HasId(p, p.id[c]) THEN {p.id[c]} ELSE {})
  BY MarkDeadInv
<1>4. ASSUME NEW d \in p.conns
      PROVE  q.status[d] = "dead" <=> p.id[d] \in DeadIds(q)
  <2>1. c \in p.conns /\ DeadIds(q) = DeadIds(p) \cup {p.id[c]}
    BY <1>3 DEF HasId
  <2>2. CASE d = c
    BY <2>1, <2>2, <1>1, <1>2
  <2>3. CASE d # c
    <3>1. p.id[d] # p.id[c]
      BY <2>1, <2>3 DEF PoolInv, Unique
    <3> QED
      BY <2>1, <2>3, <3>1, <1>1, <1>2 DEF Agree
  <2> QED
    BY <2>2, <2>3
<1> QED
  BY <1>2, <1>4 DEF Agree

\* The optimistic resurrection keeps the list and the statuses in agreement.
LEMMA ResurrectedAgree ==
  ASSUME NEW p, PoolInv(p), Agree(p)
  PROVE  Agree(Resurrected(p)) /\ Resurrected(p).conns = p.conns
<1> DEFINE q == Resurrected(p)
<1>1. CASE ~(p.strategy = "optimistic" /\ CanResurrect(p))
  BY <1>1 DEF Resurrected
<1>2. CASE p.strategy = "optimistic" /\ CanResurrect(p)
  <2> DEFINE h == Head1(p)
  <2>1. /\ q.conns = p.conns /\ q.id = p.id /\ q.usable = p.usable
        /\ q.dead = Tail(p.dead) /\ h \in p.conns /\ p.id[h] = p.dead[1]
        /\ q.status = [p.status EXCEPT ![h] = "alive"]
    BY <1>2, ResurrectedFields
  <2>2. p.dead \in Seq(Id) /\ Len(p.dead) > 0 /\ p.conns \subseteq Conn
        /\ p.status \in [Conn -> Statuses]
    BY <1>2 DEF PoolInv, PoolType, CanResurrect
  <2> HIDE DEF q, h
  <2>3. /\ DOMAIN q.dead = 1..Len(p.dead) - 1
        /\ \A k \in DOMAIN q.dead : k + 1 \in DOMAIN p.dead /\ q.dead[k] = p.dead[k + 1]
        /\ \A k \in DOMAIN p.dead : k # 1 => k - 1 \in DOMAIN q.dead /\ q.dead[k - 1] = p.dead[k]
        /\ 1 \in DOMAIN p.dead
        /\ \A k \in DOMAIN q.dead : k + 1 # 1
    BY <2>1, <2>2
  <2>4. DeadIds(q) = DeadIds(p) \ {p.id[h]}
    <3>1. \A k \in DOMAIN q.dead : q.dead[k] # p.dead[1]
      BY <2>3 DEF PoolInv, Listed
    <3>2. ASSUME NEW k \in DOMAIN p.dead, p.dead[k] # p.dead[1]
          PROVE  p.dead[k] \in DeadIds(q)
      BY <2>3, <3>2 DEF DeadIds
    <3> QED
      BY <2>1, <2>3, <3>1, <3>2 DEF DeadIds
  <2>5. ASSUME NEW d \in p.conns
        PROVE  q.status[d] = "dead" <=> p.id[d] \in DeadIds(q)
    <3>1. CASE d = h
      BY <3>1, <2>1, <2>2, <2>4
    <3>2. CASE d # h
      <4>1. p.id[d] # p.id[h]
        BY <2>1, <3>2 DEF PoolInv, Unique
      <4> QED
        BY <3>2, <4>1, <2>1, <2>2, <2>4 DEF Agree
    <3> QED
      BY <3>1, <3>2
  <2> QED
    BY <2>1, <2>5 DEF Agree, q
<1> QED
  BY <1>1, <1>2

\* Where they agree, a pool that is not empty serves a request: if no connection is alive then
\* every id is on the dead list, each once, so dead.length is size.
LEMMA AgreeServes ==
  ASSUME NEW p, PoolInv(p), Agree(p), p.conns # {}
  PROVE  Candidates(p) # {}
<1>1. p \in PoolType /\ p.dead \in Seq(Id) /\ p.conns \subseteq Conn
      /\ p.status \in [Conn -> Statuses]
  BY DEF PoolInv, PoolType
<1>2. CASE \E c \in p.conns : p.status[c] = "alive"
  BY <1>2 DEF Agree, Candidates
<1>3. CASE \A c \in p.conns : p.status[c] # "alive"
  <2> DEFINE n == Len(p.dead)
             f == [k \in 1..n |-> Find(p, p.dead[k])]
  <2>1. n \in Nat /\ DOMAIN p.dead = 1..n
    BY <1>1
  <2>2. \A c \in p.conns : \E k \in 1..n : p.dead[k] = p.id[c]
    <3>1. \A c \in p.conns : p.status[c] = "dead"
      BY <1>1, <1>3 DEF Statuses
    <3> QED
      BY <2>1, <3>1 DEF Agree, DeadIds
  <2>3. \A k \in 1..n : f[k] \in p.conns /\ p.id[f[k]] = p.dead[k]
    BY <2>1, FindInPool DEF PoolInv, Listed
  <2>4. f \in [1..n -> p.conns]
    BY <2>3
  <2> HIDE DEF f, n
  <2>5. \A j, k \in 1..n : f[j] = f[k] => j = k
    BY <2>1, <2>3 DEF PoolInv, Listed
  <2>6. \A c \in p.conns : \E k \in 1..n : f[k] = c
    BY <2>2, <2>3 DEF PoolInv, Unique
  <2>7. f \in Bijection(1..n, p.conns)
    BY <2>4, <2>5, <2>6 DEF Bijection, Injection, Surjection, IsInjective
  <2>8. IsFiniteSet(1..n) /\ Cardinality(1..n) = n
    BY <2>1, FS_Interval, 1 \in Int, n \in Int
  <2>9. Cardinality(p.conns) = n
    BY <2>7, <2>8, FS_Bijection DEF ExistsBijection
  <2> QED
    BY <2>9 DEF Candidates, Agree, n
<1> QED
  BY <1>2, <1>3

-----------------------------------------------------------------------------
(***************************************************************************)
(* A connection that was just marked dead is not revived, nor chosen while *)
(* another one is alive.                                                   *)
(***************************************************************************)
Down(p, c) == p.status[c] = "dead" /\ p.wait[c] > 0

AllDead(p) == \A d \in p.conns : p.status[d] = "dead"

LEMMA MarkDeadIsDown ==
  ASSUME NEW p \in PoolType, NEW c \in Conn, NEW q \in MarkDead(p, c)
  PROVE  Down(q, c)
<1> DEFINE ids == DeadIds(p) \cup (IF HasId(p, p.id[c]) THEN {p.id[c]} ELSE {})
           count == IF p.deadCount[c] > Cutoff THEN Cutoff + 1 ELSE p.deadCount[c] + 1
           m == [p EXCEPT !.status[c]    = "dead",
                          !.deadCount[c] = count,
                          !.wait[c]      = Backoff(count)]
<1>1. PICK s \in Sorted(m, ids) : q = [m EXCEPT !.dead = s]
  BY DEF MarkDead
<1>2. /\ Cutoff \in Int
      /\ p.status \in [Conn -> Statuses] /\ p.deadCount \in [Conn -> 0..Cutoff + 1]
      /\ p.wait \in [Conn -> 0..32]
  BY CutoffAssumption DEF PoolType
<1>3. count \in 1..Cutoff + 1
  BY <1>2, CutoffAssumption
<1> HIDE DEF count
<1>4. Backoff(count) > 0
  BY <1>3, BackoffRange
<1>5. q.status[c] = "dead" /\ q.wait[c] = Backoff(count)
  BY <1>1, <1>2 DEF PoolType
<1> QED
  BY <1>4, <1>5 DEF Down

LEMMA ResurrectedDown ==
  ASSUME NEW p, PoolInv(p), NEW c \in Conn, Down(p, c)
  PROVE  Down(Resurrected(p), c)
<1>1. CASE ~(p.strategy = "optimistic" /\ CanResurrect(p))
  BY <1>1 DEF Resurrected
<1>2. CASE p.strategy = "optimistic" /\ CanResurrect(p)
  <2>1. /\ Resurrected(p).wait = p.wait
        /\ Resurrected(p).status = [p.status EXCEPT ![Head1(p)] = "alive"]
    BY <1>2, ResurrectedFields
  <2>2. Head1(p) # c
    BY <1>2 DEF CanResurrect, Down
  <2> QED
    BY <2>1, <2>2 DEF Down, PoolInv, PoolType
<1> QED
  BY <1>1, <1>2

\* A dead connection is a candidate only if all of them are dead.
LEMMA DeadCandidate ==
  ASSUME NEW p, PoolInv(p), Agree(p), NEW c \in Candidates(p), p.status[c] = "dead"
  PROVE  AllDead(p)
<1> DEFINE n == Len(p.dead)
           f == [k \in 1..n |-> Find(p, p.dead[k])]
<1>1. p \in PoolType /\ p.dead \in Seq(Id) /\ p.conns \subseteq Conn
  BY DEF PoolInv, PoolType
<1>2. n \in Nat /\ DOMAIN p.dead = 1..n /\ Cardinality(p.conns) = n
  BY <1>1 DEF Candidates
<1>3. \A k \in 1..n : f[k] \in p.conns /\ p.id[f[k]] = p.dead[k]
  BY <1>2, FindInPool DEF PoolInv, Listed
<1>4. f \in [1..n -> p.conns]
  BY <1>3
<1> HIDE DEF f, n
<1>5. f \in Injection(1..n, p.conns)
  <2>1. \A j, k \in 1..n : f[j] = f[k] => j = k
    BY <1>2, <1>3 DEF PoolInv, Listed
  <2> QED
    BY <1>4, <2>1 DEF Injection, IsInjective
<1>6. IsFiniteSet(p.conns)
  BY <1>1, ConnAssumption, FS_Subset
<1>7. Cardinality(1..n) = n
  BY <1>2, FS_Interval, 1 \in Int, n \in Int
<1>8. f \in Surjection(1..n, p.conns)
  BY <1>2, <1>5, <1>6, <1>7, FS_Injection
<1>9. \A d \in p.conns : \E k \in 1..n : f[k] = d
  BY <1>8 DEF Surjection
<1>10. ASSUME NEW d \in p.conns
       PROVE  p.id[d] \in DeadIds(p)
  <2>1. PICK k \in 1..n : f[k] = d
    BY <1>9
  <2>2. k \in DOMAIN p.dead /\ p.id[d] = p.dead[k]
    BY <1>2, <1>3, <2>1
  <2> QED
    BY <2>2 DEF DeadIds
<1> QED
  BY <1>10 DEF AllDead, Agree

-----------------------------------------------------------------------------
(***************************************************************************)
(* The nodes of a cluster that stays as it is: every connection is to one  *)
(* of the nodes V, by its id or, as long as that is not known, by its url. *)
(***************************************************************************)
Covered(p, V) ==
  \A c \in p.conns : \/ p.id[c] \in V
                     \/ \E n \in V : p.id[c] = UrlOf[n] /\ ~HasId(p, n)

\* A sniff that reports V keeps every connection, and leaves them all alive and in use.
LEMMA UpdatedCovered ==
  ASSUME NEW V \in SUBSET (NodeId \ MasterOnly),
         \A m, n \in V : UrlOf[m] = UrlOf[n] => m = n,
         NEW p, PoolInv(p), Agree(p), Covered(p, V),
         NEW created \in [NewNodes(p, V) -> Conn],
         \A m, n \in NewNodes(p, V) : created[m] = created[n] => m = n,
         \A n \in NewNodes(p, V) : created[n] \notin p.conns
  PROVE  LET q == Updated(p, V, created)
         IN  p.conns \subseteq q.conns /\ Agree(q) /\ Covered(q, V)
<1> DEFINE fresh == {created[n] : n \in DOMAIN created}
           NodeOf(c) == IF c \in fresh THEN CHOOSE n \in DOMAIN created : created[n] = c
                                       ELSE CHOOSE n \in V : KeptAs(p, c, n)
           ids == [c \in Kept(p, V) \cup fresh |-> NodeOf(c)]
           q == Updated(p, V, created)
<1>1. p \in PoolType /\ p.conns \subseteq Conn
  BY DEF PoolInv, PoolType
<1>2. Kept(p, V) = p.conns
  BY DEF Kept, KeptAs, Covered
<1>3. DOMAIN created = NewNodes(p, V) /\ NewNodes(p, V) \subseteq V /\ fresh \subseteq Conn
  BY DEF NewNodes
<1>4. \A c \in fresh : NodeOf(c) \in V
  BY <1>3
<1>5. fresh \cap p.conns = {}
  OBVIOUS
<1>6. q = Rebuilt(p, ids, fresh, MasterOnly)
  BY DEF Updated
<1>7. DOMAIN ids = p.conns \cup fresh /\ \A c \in fresh : ids[c] \in V
  BY <1>2, <1>4
<1> HIDE DEF NodeOf, fresh, ids
<1>8. /\ q.conns = p.conns \cup fresh
      /\ q.dead = <<>>
      /\ \A c \in q.conns : q.status[c] = "alive"
      /\ q.usable = [c \in Conn |-> IF c \in fresh THEN ids[c] \notin MasterOnly ELSE p.usable[c]]
  BY <1>1, <1>3, <1>6, <1>7 DEF Rebuilt, PoolType
<1>9. \A c \in q.conns : q.usable[c]
  BY <1>1, <1>3, <1>7, <1>8 DEF Agree
<1>10. {q.id[c] : c \in q.conns} = V
  BY UpdatedIds
<1> HIDE DEF q
<1>11. DeadIds(q) = {}
  BY <1>8 DEF DeadIds
<1>12. Agree(q)
  BY <1>8, <1>9, <1>11 DEF Agree
<1>13. Covered(q, V)
  BY <1>10 DEF Covered
<1> QED
  BY <1>8, <1>12, <1>13 DEF q
=============================================================================
