---------------------------- MODULE Helpers_proof ----------------------------
(***************************************************************************)
(* What Scroll_proof and Bulk_proof show of a helper, for an application   *)
(* that uses one of the three; and the proofs about the multi search       *)
(* helper, whose invariant MsearchInv says that                            *)
(*   - the lines and the callbacks of each batch belong together;          *)
(*   - each search that was asked is at one place (Has): in the stream,    *)
(*     loaded, taken by a flush, in an operation, or answered;             *)
(*   - the semaphore counts right, and nothing is under way when the       *)
(*     promise of iterate() is settled.                                    *)
(***************************************************************************)
EXTENDS MCHelpers, Bulk_proof, SequenceTheorems, TLAPS

P == INSTANCE Scroll_proof

\* MCHelpers and Scroll_proof instantiate the same module.
LEMMA SameInit == S!ScrollAssumption /\ S!Init => P!ScrollAssumption /\ P!Init
  BY DEF S!ScrollAssumption, P!ScrollAssumption, S!Init, P!Init

LEMMA SameNext == S!Next <=> P!Next
  BY Zenon DEF S!Next, P!Next, S!Start, P!Start, S!NextPage, P!NextPage, S!Leave, P!Leave,
       S!SearchAnswered, P!SearchAnswered, S!ScrollAnswered, P!ScrollAnswered,
       S!ScrollLost, P!ScrollLost, S!ScrollMissing, P!ScrollMissing, S!Busy, P!Busy,
       S!Fails, P!Fails, S!Wake, P!Wake, S!Expire, P!Expire, S!CallClear, P!CallClear,
       S!ClearAnswered, P!ClearAnswered, S!EndCleared, P!EndCleared, S!server, P!server,
       S!generator, P!generator, S!Stages, P!Stages, S!Searching, P!Searching,
       S!Scrolling, P!Scrolling, S!LoopEnds, P!LoopEnds, S!WhileHits, P!WhileHits,
       S!Cleared, P!Cleared

\* No step of an application takes the invariant of the scroll helper away: what it does to the
\* variables of Scroll is a step of Scroll, or nothing.
LEMMA ScrollInvKept == HelpersSpec => []P!ScrollInv
<1>1. P!ScrollAssumption
  BY HelpersAssumption DEF S!ScrollAssumption, P!ScrollAssumption
<1>2. HelpersInit => P!ScrollInv
  BY HelpersAssumption, SameInit, P!ScrollInvInit DEF HelpersInit
<1>3. P!ScrollInv /\ [HelpersNext]_allVars => P!ScrollInv'
  <2> SUFFICES ASSUME P!ScrollInv, [HelpersNext]_allVars PROVE P!ScrollInv'
    OBVIOUS
  <2>1. S!Next \/ UNCHANGED scrollVars
    BY Zenon DEF HelpersNext, InBulk, InMsearch, InScroll, allVars
  <2>2. UNCHANGED scrollVars => UNCHANGED P!vars
    BY DEF scrollVars, P!vars, P!server, P!generator
  <2>3. [P!Next]_(P!vars)
    BY <2>1, <2>2, SameNext, Zenon
  <2> QED
    BY <1>1, <2>3, P!ScrollInvStep, Zenon
<1> QED
  BY <1>2, <1>3, PTL DEF HelpersSpec

\* The scroll helper yields all pages, in order, and asks for a context that is there, if the
\* consumer does not clear it and no answer is lost that brought a new id.
THEOREM PagesAlwaysComplete == HelpersSpec => []PagesComplete
<1>1. P!ScrollInv => PagesComplete
  BY DEF P!ScrollInv, P!InOrder, P!Followed, P!IsCleared, PagesComplete, S!PagesComplete
<1> QED
  BY <1>1, ScrollInvKept, PTL

\* A generator at its end has cleared its context, or the consumer does, if no clear() fails or
\* sends an id the server has replaced.
THEOREM ContextAlwaysCleared == HelpersSpec => []ContextCleared
<1>1. P!ScrollInv => ContextCleared
  BY DEF P!ScrollInv, P!Provided, P!Outdated, ContextCleared, S!ContextCleared, S!Outdated
<1> QED
  BY <1>1, ScrollInvKept, PTL

\* Nor does any step take an invariant of the bulk helper away: what it does to the variables of
\* Bulk is a step of Bulk, or nothing.
LEMMA BulkSteps == [HelpersNext]_allVars => [Next]_vars
  BY Zenon DEF HelpersNext, InBulk, InMsearch, InScroll, allVars

\* So the semaphore counts right.
LEMMA CountedKept == HelpersSpec => []Counted
<1>1. HelpersInit => Counted
  BY InitGood DEF HelpersInit
<1> QED
  BY <1>1, BulkSteps, NextGood, PTL DEF HelpersSpec

\* The slots of the bulk helper are counted whichever helper the application uses.
THEOREM SlotsCountedHere == HelpersSpec => []SlotsCounted
<1>1. Counted => SlotsCounted
  BY CountedIsRight
<1> QED
  BY <1>1, CountedKept, PTL

\* A bulk helper that has resolved is quiet whichever helper the application uses.
THEOREM ResolvedIsQuietHere == HelpersSpec => []QuietWhenResolved
<1>1. Counted => QuietWhenResolved
  BY CountedIsQuiet
<1> QED
  BY <1>1, CountedKept, PTL

\* Every variable of the bulk helper has its type whichever helper the application uses.
THEOREM BulkTypedHere == HelpersSpec => []TypeOK
<1>1. HelpersInit => Sound
  BY InitSound DEF HelpersInit
<1> QED
  BY <1>1, BulkSteps, NextSound, SoundIsTyped, PTL DEF HelpersSpec

\* Nor does any step misplace a document of the bulk helper.
LEMMA DocumentsKept ==
  ASSUME "delete" \notin Operations
  PROVE  HelpersSpec => []KeptSound
<1>1. HelpersInit => KeptSound
  BY InitKept DEF HelpersInit
<1> QED
  BY <1>1, BulkSteps, NextKept, PTL DEF HelpersSpec

\* No document of the bulk helper is in two places whichever helper the application uses.
THEOREM DocumentsApartHere ==
  ASSUME "delete" \notin Operations
  PROVE  HelpersSpec => []NoDocumentTwice
BY DocumentsKept, KeptApart, PTL

\* The bulk helper accounts for all documents whichever helper the application uses, unless a call
\* of semaphore() has displaced another.
THEOREM DocumentsAccountedHere ==
  ASSUME "delete" \notin Operations
  PROVE  HelpersSpec => [](NobodyDisplaced => AllAccounted)
BY DocumentsKept, KeptAccounted, PTL

-----------------------------------------------------------------------------
\* The multi search helper has a semaphore of its own, and the same processes.
LEMMA SameSemaphore ==
  /\ \A s, p, n : M!Acquired(s, p, n) = Acquired(s, p, n)
  /\ \A s, p : M!Resumed(s, p) = Resumed(s, p)
  /\ \A s : M!Released(s) = Released(s)
  /\ M!Unused = Unused /\ M!Flush = Flush
BY Zenon DEF M!Acquired, Acquired, M!Resumed, Resumed, M!Released, Released, M!Unused, Unused,
       M!Flush, Flush

LEMMA SameRanks ==
  /\ \A A : M!IsFiniteSet(A) <=> IsFiniteSet(A)
  /\ \A A : M!Cardinality(A) = Cardinality(A)
  /\ \A I, n : M!Nth(I, n) = Nth(I, n)
<1>1. ASSUME NEW A PROVE M!IsFiniteSet(A) <=> IsFiniteSet(A)
  BY DEF M!IsFiniteSet, IsFiniteSet
<1>2. ASSUME NEW A PROVE M!Cardinality(A) = Cardinality(A)
  BY DEF M!Cardinality, Cardinality
<1>3. ASSUME NEW I, NEW i PROVE M!Rank(I, i) = Rank(I, i)
  BY <1>2 DEF M!Rank, Rank
<1>4. ASSUME NEW I, NEW n PROVE M!Nth(I, n) = Nth(I, n)
  BY <1>3 DEF M!Nth, Nth
<1> QED
  BY <1>1, <1>2, <1>4

LEMMA MsearchConstants ==
  /\ Loop \in Process /\ MsearchSettings \subseteq M!MsearchSettingType
  /\ MaxSearches \in Nat /\ PerOperation \in Nat \ {0}
  /\ IsFiniteSet(Process) /\ IsFiniteSet(Slot)
  /\ \A o \in MsearchSettings : Cardinality(Slot) > o.concurrency /\ o.concurrency \in Nat \ {0}
                                /\ o.retries \in Nat
<1>1. M!MsearchAssumption
  BY HelpersAssumption
<1> QED
  BY <1>1, SameRanks DEF M!MsearchAssumption, M!MsearchSettingType

\* The lines of the searches c, in their order; a batch is determined by its callbacks.
LinesFor(c) ==
  [k \in 1..(2 * Len(c)) |->
     [search |-> c[(k + 1) \div 2], part |-> IF k % 2 = 1 THEN "header" ELSE "body"]]

BatchOf(c) == [body |-> LinesFor(c), callbacks |-> c]

Distinct(c) == c \in Seq(M!Search) /\ \A i, j \in DOMAIN c : c[i] = c[j] => i = j

Matched(b) == b = BatchOf(b.callbacks) /\ Distinct(b.callbacks)

Searches(b) == Range(b.callbacks)

LEMMA NothingMatched == Matched(M!Nothing) /\ Searches(M!Nothing) = {} /\ M!Nothing.callbacks = <<>>
<1>1. LinesFor(<<>>) = <<>>
  <2>1. 1..(2 * Len(<<>>)) = {}
    OBVIOUS
  <2> QED
    BY <2>1 DEF LinesFor
<1>2. Distinct(<<>>)
  BY DEF Distinct
<1> QED
  BY <1>1, <1>2 DEF Matched, BatchOf, M!Nothing, Searches, Range

LEMMA AppendDistinct ==
  ASSUME NEW c, Distinct(c), NEW s \in M!Search, s \notin Range(c)
  PROVE  Distinct(Append(c, s)) /\ Range(Append(c, s)) = Range(c) \cup {s}
<1>1. /\ c \in Seq(M!Search) /\ Len(c) \in Nat /\ DOMAIN c = 1..Len(c)
      /\ DOMAIN Append(c, s) = 1..(Len(c) + 1)
      /\ \A i \in 1..Len(c) : Append(c, s)[i] = c[i]
      /\ Append(c, s)[Len(c) + 1] = s /\ Append(c, s) \in Seq(M!Search)
  BY DEF Distinct
<1>2. \A i \in 1..(Len(c) + 1) : i = Len(c) + 1 \/ i \in 1..Len(c)
  BY <1>1
<1>3. \A i \in 1..Len(c) : c[i] # s
  BY <1>1 DEF Range
<1>4. Distinct(Append(c, s))
  BY <1>1, <1>2, <1>3 DEF Distinct
<1>5. Range(Append(c, s)) = Range(c) \cup {s}
  BY <1>1, <1>2 DEF Range
<1> QED
  BY <1>4, <1>5

\* Two lines at the end of others.
LEMMA TwoMore ==
  ASSUME NEW L, NEW e \in Seq(L), NEW pair \in Seq(L), Len(pair) = 2
  PROVE  LET f == e \o pair
             m == Len(e)
         IN  /\ f = [k \in 1..(m + 2) |-> f[k]]
             /\ \A k \in 1..m : f[k] = e[k]
             /\ f[m + 1] = pair[1] /\ f[m + 2] = pair[2]
<1> DEFINE f == e \o pair
           m == Len(e)
<1>1. m \in Nat /\ f \in Seq(L) /\ Len(f) = m + 2
      /\ \A k \in 1..(m + 2) : f[k] = IF k <= m THEN e[k] ELSE pair[k - m]
  <2>1. /\ f \in Seq(L) /\ Len(f) = m + Len(pair)
        /\ \A k \in 1..(m + Len(pair)) : f[k] = IF k <= m THEN e[k] ELSE pair[k - m]
    BY ConcatProperties, Zenon
  <2>2. m \in Nat
    OBVIOUS
  <2> HIDE DEF f, m
  <2> QED
    BY <2>1, <2>2
<1> HIDE DEF f, m
<1>2. \A k \in 1..m : f[k] = e[k]
  BY <1>1
<1>3. f[m + 1] = pair[1] /\ f[m + 2] = pair[2]
  <2>1. m + 1 \in 1..(m + 2) /\ ~(m + 1 <= m) /\ m + 1 - m = 1
        /\ m + 2 \in 1..(m + 2) /\ ~(m + 2 <= m) /\ m + 2 - m = 2
    BY <1>1
  <2> QED
    BY <1>1, <2>1
<1>4. f = [k \in 1..(m + 2) |-> f[k]]
  BY <1>1
<1> QED
  BY <1>2, <1>3, <1>4 DEF f, m

\* A search is loaded: its two lines and its callback.
LEMMA LoadedMatched ==
  ASSUME NEW b, Matched(b), NEW s \in M!Search, s \notin Searches(b)
  PROVE  /\ Matched(M!Loaded(b, s)) /\ Searches(M!Loaded(b, s)) = Searches(b) \cup {s}
         /\ M!Loaded(b, s).callbacks # <<>>
<1> DEFINE c == b.callbacks
           d == Append(c, s)
           pair == <<[search |-> s, part |-> "header"], [search |-> s, part |-> "body"]>>
<1>1. Distinct(d) /\ Range(d) = Range(c) \cup {s}
  BY AppendDistinct DEF Matched, Searches
<1>2. /\ c \in Seq(M!Search) /\ Len(c) \in Nat
      /\ Len(d) = Len(c) + 1 /\ d[Len(c) + 1] = s
      /\ \A i \in 1..Len(c) : d[i] = c[i]
  BY DEF Matched, Distinct
<1>3. LinesFor(d) = LinesFor(c) \o pair
  <2> DEFINE n == Len(c)
             e == LinesFor(c)
             L == [search : M!Search, part : {"header", "body"}]
  <2>0. n \in Nat
    BY <1>2
  <2>1. Len(e) = 2 * n /\ e \in Seq(L)
    <3> HIDE DEF n
    <3>1. \A k \in 1..(2 * n) : (k + 1) \div 2 \in 1..n
      BY <2>0
    <3>2. \A k \in 1..(2 * n) : c[(k + 1) \div 2] \in M!Search
      BY <1>2, <3>1 DEF n
    <3>3. e = [k \in 1..(2 * n) |->
                 [search |-> c[(k + 1) \div 2], part |-> IF k % 2 = 1 THEN "header" ELSE "body"]]
      BY DEF LinesFor, n
    <3>4. e \in [1..(2 * n) -> L]
      <4> HIDE DEF e
      <4> QED
        BY <3>2, <3>3
    <3>5. 2 * n \in Nat
      BY <2>0
    <3> HIDE DEF e, L
    <3> QED
      BY <3>4, <3>5
  <2>2. pair \in Seq(L) /\ Len(pair) = 2
    OBVIOUS
  <2> DEFINE f == e \o pair
  <2>3. /\ f = [k \in 1..(2 * n + 2) |-> f[k]]
        /\ \A k \in 1..(2 * n) : f[k] = e[k]
        /\ f[2 * n + 1] = pair[1] /\ f[2 * n + 2] = pair[2]
    <3> HIDE DEF e, pair, L, n
    <3> QED
      BY <2>0, <2>1, <2>2, TwoMore
  <2>4. ASSUME NEW k \in 1..(2 * n + 2) PROVE LinesFor(d)[k] = f[k]
    <3>1. 2 * Len(d) = 2 * n + 2
      BY <1>2
    <3>2. LinesFor(d)[k] =
            [search |-> d[(k + 1) \div 2], part |-> IF k % 2 = 1 THEN "header" ELSE "body"]
      BY <3>1 DEF LinesFor
    <3> HIDE DEF n
    <3>3. CASE k \in 1..(2 * n)
      <4>1. (k + 1) \div 2 \in 1..n
        BY <2>0, <3>3
      <4> QED
        BY <1>2, <2>3, <3>2, <3>3, <4>1 DEF LinesFor, n
    <3>4. CASE k = 2 * n + 1
      <4>1. (k + 1) \div 2 = n + 1 /\ k % 2 = 1
        BY <2>0, <3>4
      <4> QED
        BY <1>2, <2>3, <3>2, <3>4, <4>1 DEF n
    <3>5. CASE k = 2 * n + 2
      <4>1. (k + 1) \div 2 = n + 1 /\ k % 2 # 1
        BY <2>0, <3>5
      <4> QED
        BY <1>2, <2>3, <3>2, <3>5, <4>1 DEF n
    <3>6. k \in 1..(2 * n) \/ k = 2 * n + 1 \/ k = 2 * n + 2
      BY <2>0
    <3> HIDE DEF d, f
    <3> QED
      BY <3>3, <3>4, <3>5, <3>6
  <2>5. LinesFor(d) = [k \in 1..(2 * n + 2) |-> LinesFor(d)[k]]
    BY <1>2 DEF LinesFor
  <2> HIDE DEF f
  <2> QED
    BY <2>3, <2>4, <2>5 DEF f
<1>4. d # <<>>
  <2>1. Len(d) # Len(<<>>)
    BY <1>2
  <2> QED
    BY <2>1
<1>5. b.body = LinesFor(c)
  BY DEF Matched, BatchOf
<1>6. M!Loaded(b, s) = [body |-> b.body \o pair, callbacks |-> d]
  BY DEF M!Loaded
<1> HIDE DEF d, pair
<1>7. M!Loaded(b, s) = BatchOf(d)
  BY <1>3, <1>5, <1>6 DEF BatchOf
<1> QED
  BY <1>1, <1>4, <1>7 DEF Matched, BatchOf, Searches

\* What is kept for a retry is a batch of the searches at the indices of I.
LEMMA ChosenMatched ==
  ASSUME NEW b, Matched(b), NEW I \in SUBSET DOMAIN b.callbacks
  PROVE  LET kept == [n \in 1..Cardinality(I) |-> M!Nth(I, n)]
         IN  /\ Matched(M!Chosen(b, kept))
             /\ Searches(M!Chosen(b, kept)) = {b.callbacks[i] : i \in I}
<1> DEFINE m == Cardinality(I)
           kept == [n \in 1..m |-> M!Nth(I, n)]
           c == b.callbacks
           d == [k \in DOMAIN kept |-> c[kept[k]]]
<1>1. c \in Seq(M!Search) /\ DOMAIN c = 1..Len(c) /\ Len(c) \in Nat
  BY DEF Matched, Distinct
<1>2. I \in SUBSET Nat /\ IsFiniteSet(I) /\ m \in Nat
  <2>1. IsFiniteSet(1..Len(c))
    BY <1>1, FS_Interval
  <2> QED
    BY <1>1, <2>1, FS_Subset, FS_CardinalityType
<1>3. \A n \in 1..m : kept[n] = Nth(I, n) /\ kept[n] \in I /\ Rank(I, kept[n]) = n
  BY <1>2, NthHasRank, SameRanks
<1>4. \A i \in I : Rank(I, i) \in 1..m /\ kept[Rank(I, i)] = i
  BY <1>2, <1>3, RankRange, NthOfRank
<1>5. DOMAIN kept = 1..m
  OBVIOUS
<1> HIDE DEF kept
<1>6. Distinct(d) /\ Len(d) = m
  <2>1. d \in [1..m -> M!Search]
    BY <1>1, <1>3, <1>5
  <2>2. d \in Seq(M!Search) /\ Len(d) = m /\ DOMAIN d = 1..m
    BY <1>2, <2>1
  <2>3. ASSUME NEW i \in 1..m, NEW j \in 1..m, d[i] = d[j] PROVE i = j
    <3>1. kept[i] = kept[j]
      BY <1>3, <1>5, <2>3 DEF Matched, Distinct
    <3> QED
      BY <1>3, <3>1
  <2> HIDE DEF d
  <2> QED
    BY <2>2, <2>3 DEF Distinct
<1>7. Range(d) = {c[i] : i \in I}
  BY <1>3, <1>4, <1>5 DEF Range
<1>8. M!Chosen(b, kept).body = LinesFor(d)
  <2>1. Len(kept) = m
    BY <1>2, <1>5
  <2>2. ASSUME NEW k \in 1..(2 * m)
        PROVE  b.body[2 * kept[(k + 1) \div 2] - (k % 2)]
                 = [search |-> d[(k + 1) \div 2], part |-> IF k % 2 = 1 THEN "header" ELSE "body"]
    <3> DEFINE i == (k + 1) \div 2
               j == kept[i]
               l == 2 * j - (k % 2)
    <3>1. i \in 1..m /\ k % 2 \in {0, 1}
      BY <1>2
    <3>2. j \in 1..Len(c) /\ d[i] = c[j]
      BY <1>1, <1>3, <1>5, <3>1
    <3> HIDE DEF i, j
    <3>3. l \in 1..(2 * Len(c)) /\ (l + 1) \div 2 = j /\ l % 2 = k % 2
      <4> DEFINE n == Len(c)
      <4>0. n \in Nat /\ j \in 1..n
        BY <1>1, <3>2
      <4> HIDE DEF n
      <4>1. CASE k % 2 = 0
        <5>1. l = 2 * j
          BY <4>0, <4>1
        <5>2. 2 * j \in 1..(2 * n) /\ (2 * j + 1) \div 2 = j /\ (2 * j) % 2 = 0
          BY <4>0
        <5> QED
          BY <4>1, <5>1, <5>2 DEF n
      <4>2. CASE k % 2 = 1
        <5>1. l = 2 * j - 1
          BY <4>0, <4>2
        <5>2. 2 * j - 1 \in 1..(2 * n) /\ (2 * j - 1 + 1) \div 2 = j /\ (2 * j - 1) % 2 = 1
          BY <4>0
        <5> QED
          BY <4>2, <5>1, <5>2 DEF n
      <4> QED
        BY <3>1, <4>1, <4>2
    <3> HIDE DEF l
    <3>4. b.body = LinesFor(c)
      BY DEF Matched, BatchOf
    <3>5. b.body[l] = [search |-> c[j], part |-> IF k % 2 = 1 THEN "header" ELSE "body"]
      BY <3>3, <3>4 DEF LinesFor
    <3> QED
      BY <3>2, <3>5 DEF i, j, l
  <2>3. LinesFor(d) = [k \in 1..(2 * m) |->
          [search |-> d[(k + 1) \div 2], part |-> IF k % 2 = 1 THEN "header" ELSE "body"]]
    BY <1>6 DEF LinesFor
  <2>4. M!Chosen(b, kept).body =
          [k \in 1..(2 * m) |-> b.body[2 * kept[(k + 1) \div 2] - (k % 2)]]
    BY <2>1 DEF M!Chosen
  <2> HIDE DEF d
  <2> QED
    BY <2>2, <2>3, <2>4
<1>9. M!Chosen(b, kept) = BatchOf(d)
  BY <1>8 DEF M!Chosen, BatchOf
<1> HIDE DEF d
<1>10. Matched(M!Chosen(b, kept)) /\ Searches(M!Chosen(b, kept)) = {c[i] : i \in I}
  BY <1>6, <1>7, <1>9 DEF Matched, BatchOf, Searches
<1> QED
  BY <1>10 DEF kept

-----------------------------------------------------------------------------
\* What each action of the multi search helper does, in terms of its variables.
Settling == iteration' \in {"resolved", "rejected"}

\* await finish() of the loop.
Finishing == IF slots'.running = 0 THEN Settling ELSE iteration' = "finishing"

LEMMA BecomesFields ==
  ASSUME NEW T, M!Becomes(T)
  PROVE  /\ iteration' = T.iteration /\ queue' = T.queue /\ loaded' = T.loaded
         /\ flushTimer' = T.flushTimer /\ copied' = T.copied /\ slots' = T.slots
         /\ operations' = T.operations /\ answers' = T.answers
BY DEF M!Becomes

LEMMA FinishedDoes ==
  ASSUME NEW T, M!Becomes(M!Finished(T)), NEW i, NEW q, NEW l, NEW t, NEW c, NEW s, NEW o, NEW a,
         T = [iteration |-> i, queue |-> q, loaded |-> l, flushTimer |-> t,
              copied |-> c, slots |-> s, operations |-> o, answers |-> a]
  PROVE  /\ Finishing /\ queue' = q /\ loaded' = l
         /\ flushTimer' = t /\ copied' = c /\ slots' = s
         /\ operations' = o /\ answers' = a
<1> DEFINE end == IF stop = "error" THEN "rejected" ELSE "resolved"
           Last == [T EXCEPT !.iteration = end]
           Then == [T EXCEPT !.iteration = "finishing"]
<1>1. \/ s.running = 0 /\ M!Becomes(Last)
      \/ s.running # 0 /\ M!Becomes(Then)
  <2>1. T.slots = s
    OBVIOUS
  <2> QED
    BY <2>1, Zenon DEF M!Finished, M!Settled
<1>2. end \in {"resolved", "rejected"}
  OBVIOUS
<1> HIDE DEF end
<1>3. ASSUME M!Becomes(Last)
      PROVE  /\ iteration' = end /\ queue' = q /\ loaded' = l /\ flushTimer' = t
             /\ copied' = c /\ slots' = s /\ operations' = o /\ answers' = a
  BY <1>3, BecomesFields
<1>4. ASSUME M!Becomes(Then)
      PROVE  /\ iteration' = "finishing" /\ queue' = q /\ loaded' = l /\ flushTimer' = t
             /\ copied' = c /\ slots' = s /\ operations' = o /\ answers' = a
  BY <1>4, BecomesFields
<1> HIDE DEF Last, Then
<1> QED
  BY <1>1, <1>2, <1>3, <1>4 DEF Finishing, Settling

LEMMA CallSearchDoes ==
  ASSUME NEW valid, M!CallSearch(valid)
  PROVE  /\ asked' = asked + 1 /\ asked + 1 \in M!Search
         /\ UNCHANGED <<iteration, loaded, flushTimer, copied, slots, operations, options, stop>>
         /\ \/ /\ stop = "no" /\ queue' = Append(queue, asked + 1) /\ answers' = answers
            \/ /\ queue' = queue
               /\ \E why \in {"stopped", "invalid"} :
                    answers' = [answers EXCEPT ![asked + 1] =
                                  Append(@, [of |-> asked + 1, outcome |-> why])]
<1> DEFINE s == asked + 1
           Refused(why) ==
             [M!State EXCEPT !.answers[s] = Append(@, [of |-> s, outcome |-> why])]
           Queued == [M!State EXCEPT !.queue = Append(@, s)]
<1>1. /\ asked' = s /\ s \in M!Search /\ UNCHANGED <<options, stop>>
      /\ \/ stop # "no" /\ M!Becomes(Refused("stopped"))
         \/ stop = "no" /\ ~valid /\ M!Becomes(Refused("invalid"))
         \/ stop = "no" /\ M!Becomes(Queued)
  BY DEF M!CallSearch
<1>2. ASSUME NEW why \in {"stopped", "invalid"}, M!Becomes(Refused(why))
      PROVE  /\ UNCHANGED <<iteration, queue, loaded, flushTimer, copied, slots, operations>>
             /\ answers' = [answers EXCEPT ![s] = Append(@, [of |-> s, outcome |-> why])]
  BY <1>2, BecomesFields DEF M!State
<1>3. ASSUME M!Becomes(Queued)
      PROVE  /\ UNCHANGED <<iteration, loaded, flushTimer, copied, slots, operations, answers>>
             /\ queue' = Append(queue, s)
  BY <1>3, BecomesFields DEF M!State
<1> HIDE DEF Refused, Queued
<1> QED
  BY <1>1, <1>2, <1>3

LEMMA ReadDoes ==
  ASSUME M!Read
  PROVE  /\ queue # <<>> /\ iteration = "reading"
         /\ queue' = Tail(queue) /\ loaded' = M!Loaded(loaded, Head(queue))
         /\ flushTimer' = "armed"
         /\ UNCHANGED <<copied, operations, answers, options, asked, stop>>
         /\ \/ iteration' = "reading" /\ slots' = slots
            \/ iteration' = "flushing" /\ slots' = Acquired(slots, Loop, options.concurrency)
<1> DEFINE b == M!Loaded(loaded, Head(queue))
           T == [M!State EXCEPT !.queue = Tail(@), !.flushTimer = "armed", !.loaded = b]
           F == [T EXCEPT !.iteration = "flushing",
                          !.slots = M!Acquired(@, Loop, options.concurrency)]
<1>1. /\ queue # <<>> /\ iteration = "reading" /\ UNCHANGED <<options, asked, stop>>
      /\ M!Becomes(F) \/ M!Becomes(T)
  BY Zenon DEF M!Read
<1>2. ASSUME M!Becomes(T)
      PROVE  /\ queue' = Tail(queue) /\ loaded' = b /\ flushTimer' = "armed"
             /\ UNCHANGED <<iteration, slots, copied, operations, answers>>
  <2> HIDE DEF b
  <2>1. /\ T.iteration = iteration /\ T.queue = Tail(queue) /\ T.loaded = b
        /\ T.flushTimer = "armed" /\ T.copied = copied /\ T.slots = slots
        /\ T.operations = operations /\ T.answers = answers
    BY DEF M!State
  <2> HIDE DEF T
  <2> QED
    BY <1>2, <2>1, BecomesFields
<1>3. ASSUME M!Becomes(F)
      PROVE  /\ queue' = Tail(queue) /\ loaded' = b /\ flushTimer' = "armed"
             /\ UNCHANGED <<copied, operations, answers>>
             /\ iteration' = "flushing" /\ slots' = Acquired(slots, Loop, options.concurrency)
  <2> DEFINE A == M!Acquired(slots, Loop, options.concurrency)
  <2> HIDE DEF b, A
  <2>1. /\ F.iteration = "flushing" /\ F.queue = Tail(queue) /\ F.loaded = b
        /\ F.flushTimer = "armed" /\ F.copied = copied /\ F.slots = A
        /\ F.operations = operations /\ F.answers = answers
    BY DEF M!State, A
  <2>2. A = Acquired(slots, Loop, options.concurrency)
    BY SameSemaphore DEF A
  <2> HIDE DEF F
  <2> QED
    BY <1>3, <2>1, <2>2, BecomesFields
<1> HIDE DEF T, F
<1> QED
  BY <1>1, <1>2, <1>3

LEMMA EndOfStreamDoes ==
  ASSUME M!EndOfStream
  PROVE  /\ queue = <<>> /\ iteration = "reading" /\ stop # "no" /\ flushTimer' = "cleared"
         /\ UNCHANGED <<queue, loaded, copied, operations, answers, options, asked, stop>>
         /\ \/ /\ iteration' = "flushingLast"
               /\ slots' = Acquired(slots, Loop, options.concurrency)
            \/ loaded.callbacks = <<>> /\ slots' = slots /\ Finishing
<1> DEFINE T == [M!State EXCEPT !.flushTimer = "cleared"]
           F == [T EXCEPT !.iteration = "flushingLast",
                          !.slots = M!Acquired(@, Loop, options.concurrency)]
<1>1. /\ queue = <<>> /\ iteration = "reading" /\ stop # "no" /\ UNCHANGED <<options, asked, stop>>
      /\ M!Becomes(F) \/ (loaded.callbacks = <<>> /\ M!Becomes(M!Finished(T)))
  BY Zenon DEF M!EndOfStream
<1>2. ASSUME M!Becomes(F)
      PROVE  /\ flushTimer' = "cleared" /\ iteration' = "flushingLast"
             /\ slots' = Acquired(slots, Loop, options.concurrency)
             /\ UNCHANGED <<queue, loaded, copied, operations, answers>>
  <2> DEFINE A == M!Acquired(slots, Loop, options.concurrency)
  <2> HIDE DEF A
  <2>1. /\ F.iteration = "flushingLast" /\ F.queue = queue /\ F.loaded = loaded
        /\ F.flushTimer = "cleared" /\ F.copied = copied /\ F.slots = A
        /\ F.operations = operations /\ F.answers = answers
    BY DEF M!State, A
  <2>2. A = Acquired(slots, Loop, options.concurrency)
    BY SameSemaphore DEF A
  <2> HIDE DEF F
  <2> QED
    BY <1>2, <2>1, <2>2, BecomesFields
<1>3. ASSUME M!Becomes(M!Finished(T))
      PROVE  /\ flushTimer' = "cleared" /\ slots' = slots /\ Finishing
             /\ UNCHANGED <<queue, loaded, copied, operations, answers>>
  <2>1. T = [iteration |-> iteration, queue |-> queue, loaded |-> loaded, flushTimer |-> "cleared",
             copied |-> copied, slots |-> slots, operations |-> operations, answers |-> answers]
    BY DEF M!State
  <2> HIDE DEF T
  <2> QED
    BY <1>3, <2>1, FinishedDoes
<1> HIDE DEF T, F
<1> QED
  BY <1>1, <1>2, <1>3

LEMMA FlushTimeoutDoesMsearch ==
  ASSUME M!FlushTimeout
  PROVE  /\ flushTimer = "armed" /\ flushTimer' = "fired" /\ options.interval
         /\ UNCHANGED <<iteration, queue, operations, answers, options, asked, stop>>
         /\ \/ UNCHANGED <<loaded, copied, slots>>
            \/ \E f \in Flush : /\ slots.at[f] = "none"
                                /\ copied' = [copied EXCEPT ![f] = loaded]
                                /\ loaded' = M!Nothing
                                /\ slots' = Acquired(slots, f, options.concurrency)
<1> DEFINE f == CHOOSE f \in M!IdleFlushes : TRUE
           T == [M!State EXCEPT !.flushTimer = "fired"]
           F(g) == [M!State EXCEPT !.flushTimer = "fired", !.copied[g] = loaded,
                                   !.loaded = M!Nothing,
                                   !.slots = M!Acquired(@, g, options.concurrency)]
<1>1. /\ flushTimer = "armed" /\ options.interval /\ UNCHANGED <<options, asked, stop>>
      /\ M!Becomes(T) \/ (M!IdleFlushes # {} /\ M!Becomes(F(f)))
  BY Zenon DEF M!FlushTimeout
<1>2. ASSUME M!Becomes(T)
      PROVE  /\ flushTimer' = "fired"
             /\ UNCHANGED <<iteration, queue, loaded, copied, slots, operations, answers>>
  BY <1>2, BecomesFields DEF M!State
<1>3. ASSUME NEW g \in Flush, M!Becomes(F(g))
      PROVE  /\ flushTimer' = "fired" /\ UNCHANGED <<iteration, queue, operations, answers>>
             /\ copied' = [copied EXCEPT ![g] = loaded] /\ loaded' = M!Nothing
             /\ slots' = Acquired(slots, g, options.concurrency)
  <2> DEFINE A == M!Acquired(slots, g, options.concurrency)
             C == [copied EXCEPT ![g] = loaded]
             X == F(g)
  <2> HIDE DEF A
  <2>1. /\ X.iteration = iteration /\ X.queue = queue /\ X.loaded = M!Nothing
        /\ X.flushTimer = "fired" /\ X.copied = C /\ X.slots = A
        /\ X.operations = operations /\ X.answers = answers
    BY DEF M!State, A
  <2>2. A = Acquired(slots, g, options.concurrency)
    BY SameSemaphore DEF A
  <2> HIDE DEF X, C
  <2>3. M!Becomes(X)
    BY <1>3 DEF X
  <2> QED
    BY <2>1, <2>2, <2>3, BecomesFields DEF C
<1>4. M!IdleFlushes # {} => f \in M!IdleFlushes
  OBVIOUS
<1> HIDE DEF T, F, f
<1>5. M!IdleFlushes # {} => f \in Flush /\ slots.at[f] = "none"
  BY <1>4, SameSemaphore DEF M!IdleFlushes
<1> QED
  BY <1>1, <1>2, <1>3, <1>5

\* The slot that send() finds.
FreeSlot == CHOOSE t \in {t \in Slot : operations[t].pc = "free"} : TRUE

SentOps(b) ==
  [operations EXCEPT ![FreeSlot] = [pc |-> "sent", batch |-> b, retries |-> options.retries]]

LEMMA ResumeLoopDoes ==
  ASSUME M!ResumeLoop
  PROVE  /\ slots.at[Loop] \in {"ready", "immediate"} /\ slots' = Resumed(slots, Loop)
         /\ operations' = SentOps(loaded)
         /\ UNCHANGED <<queue, flushTimer, copied, answers, options, asked, stop>>
         /\ \/ iteration = "flushing" /\ iteration' = "reading" /\ loaded' = M!Nothing
            \/ iteration # "flushing" /\ loaded' = loaded /\ Finishing
<1> DEFINE R == M!Resumed(slots, Loop)
           U == [M!State EXCEPT !.slots = M!Resumed(@, Loop)]
           T == M!Sent(U, loaded)
           F == [T EXCEPT !.iteration = "reading", !.loaded = M!Nothing]
<1>1. /\ slots.at[Loop] \in {"ready", "immediate"} /\ UNCHANGED <<options, asked, stop>>
      /\ \/ iteration = "flushing" /\ M!Becomes(F)
         \/ iteration # "flushing" /\ M!Becomes(M!Finished(T))
  BY DEF M!ResumeLoop, M!Runnable
<1>2. T = [iteration |-> iteration, queue |-> queue, loaded |-> loaded, flushTimer |-> flushTimer,
           copied |-> copied, slots |-> R, operations |-> SentOps(loaded), answers |-> answers]
  <2>1. M!FreeSlots(U) = {t \in Slot : operations[t].pc = "free"}
    BY DEF M!FreeSlots, M!State
  <2>2. T = [U EXCEPT !.operations = SentOps(loaded)]
    <3>1. U.operations = operations
      BY DEF M!State
    <3> HIDE DEF U
    <3> QED
      BY <2>1, <3>1, Zenon DEF M!Sent, SentOps, FreeSlot
  <2>3. U = [iteration |-> iteration, queue |-> queue, loaded |-> loaded, flushTimer |-> flushTimer,
           copied |-> copied, slots |-> R, operations |-> operations, answers |-> answers]
    BY DEF M!State
  <2> HIDE DEF U, T, R
  <2> QED
    BY <2>2, <2>3
<1>3. ASSUME M!Becomes(F)
      PROVE  /\ slots' = R /\ operations' = SentOps(loaded) /\ iteration' = "reading"
             /\ loaded' = M!Nothing /\ UNCHANGED <<queue, flushTimer, copied, answers>>
  <2> DEFINE O == SentOps(loaded)
  <2>1. /\ F.iteration = "reading" /\ F.queue = queue /\ F.loaded = M!Nothing
        /\ F.flushTimer = flushTimer /\ F.copied = copied /\ F.slots = R
        /\ F.operations = O /\ F.answers = answers
    <3> HIDE DEF T, R, O
    <3> QED
      BY <1>2 DEF O
  <2> HIDE DEF T, R, F, O
  <2> QED
    BY <1>3, <2>1, BecomesFields DEF O
<1>4. ASSUME M!Becomes(M!Finished(T))
      PROVE  /\ slots' = R /\ operations' = SentOps(loaded) /\ Finishing
             /\ UNCHANGED <<queue, loaded, flushTimer, copied, answers>>
  <2> HIDE DEF T, R
  <2> QED
    BY <1>2, <1>4, FinishedDoes
<1>5. R = Resumed(slots, Loop)
  BY SameSemaphore
<1> HIDE DEF T, F, R
<1> QED
  BY <1>1, <1>3, <1>4, <1>5

LEMMA ResumeFlushDoes ==
  ASSUME NEW f \in Flush, M!ResumeFlush(f)
  PROVE  /\ slots.at[f] \in {"ready", "immediate"} /\ slots' = Resumed(slots, f)
         /\ operations' = SentOps(copied[f]) /\ copied' = [copied EXCEPT ![f] = M!Nothing]
         /\ UNCHANGED <<iteration, queue, loaded, flushTimer, answers, options, asked, stop>>
<1> DEFINE R == M!Resumed(slots, f)
           U == [M!State EXCEPT !.slots = M!Resumed(@, f), !.copied[f] = M!Nothing]
           T == M!Sent(U, copied[f])
<1>1. /\ slots.at[f] \in {"ready", "immediate"} /\ UNCHANGED <<options, asked, stop>>
      /\ M!Becomes(T)
  BY DEF M!ResumeFlush, M!Runnable
<1>2. T = [iteration |-> iteration, queue |-> queue, loaded |-> loaded, flushTimer |-> flushTimer,
           copied |-> [copied EXCEPT ![f] = M!Nothing], slots |-> R,
           operations |-> SentOps(copied[f]), answers |-> answers]
  <2>1. M!FreeSlots(U) = {t \in Slot : operations[t].pc = "free"}
    BY DEF M!FreeSlots, M!State
  <2>2. T = [U EXCEPT !.operations = SentOps(copied[f])]
    <3>1. U.operations = operations
      BY DEF M!State
    <3> HIDE DEF U
    <3> QED
      BY <2>1, <3>1, Zenon DEF M!Sent, SentOps, FreeSlot
  <2>3. U = [iteration |-> iteration, queue |-> queue, loaded |-> loaded, flushTimer |-> flushTimer,
             copied |-> [copied EXCEPT ![f] = M!Nothing], slots |-> R,
             operations |-> operations, answers |-> answers]
    <3> DEFINE C == [copied EXCEPT ![f] = M!Nothing]
    <3>1. U = [[M!State EXCEPT !.slots = R] EXCEPT !.copied = C]
      BY DEF M!State
    <3> HIDE DEF C, R, U
    <3> QED
      BY <3>1 DEF M!State, C
  <2> HIDE DEF U, T, R
  <2> QED
    BY <2>2, <2>3
<1>3. R = Resumed(slots, f)
  BY SameSemaphore
<1> HIDE DEF T, R
<1> QED
  BY <1>1, <1>2, <1>3, BecomesFields

\* How the searches at the indices I are told.
Reply(b, i, outcome) ==
  [of |-> IF outcome[i] = "failed" THEN b.callbacks[i] ELSE b.body[2 * i - 1].search,
   outcome |-> outcome[i]]

TheirAnswers(b, I, outcome) ==
  [s \in M!Search |->
     LET mine == {i \in I : b.callbacks[i] = s}
     IN  answers[s] \o [k \in 1..Cardinality(mine) |-> Reply(b, CHOOSE i \in mine : TRUE, outcome)]]

Outcomes == {"ok", "busy", "error", "failed"}

\* A response to the operation in slot s, which keeps the searches at the indices I for a retry.
Responds(s, outcome, I) ==
  LET o == operations[s]
  IN  /\ answers' = TheirAnswers(o.batch, DOMAIN o.batch.callbacks \ I, outcome)
      /\ I = {i \in DOMAIN o.batch.callbacks : outcome[i] = "busy" /\ o.retries > 0}
      /\ \/ /\ I # {} /\ o.retries > 0 /\ UNCHANGED <<iteration, slots>>
            /\ operations' = [operations EXCEPT ![s] =
                 [pc      |-> "waiting",
                  batch   |-> M!Chosen(o.batch, [n \in 1..Cardinality(I) |-> M!Nth(I, n)]),
                  retries |-> o.retries - 1]]
         \/ /\ I = {} /\ slots' = Released(slots)
            /\ operations' = [operations EXCEPT ![s] = M!Free]
            /\ \/ iteration' = iteration
               \/ iteration = "finishing" /\ slots'.running = 0 /\ Settling

LEMMA RespondedDoes ==
  ASSUME NEW s \in Slot, NEW outcome \in [DOMAIN operations[s].batch.callbacks -> Outcomes],
         M!Becomes(M!Responded(M!State, s, outcome))
  PROVE  /\ UNCHANGED <<queue, loaded, flushTimer, copied>>
         /\ \E I : Responds(s, outcome, I)
<1> DEFINE o == operations[s]
           b == o.batch
           I == M!Retried(M!State, s, outcome)
           Z == TheirAnswers(b, DOMAIN b.callbacks \ I, outcome)
           T == M!Told(M!State, b, DOMAIN b.callbacks \ I, outcome)
           kept == M!Chosen(b, [n \in 1..M!Cardinality(I) |-> M!Nth(I, n)])
           again == [pc |-> "waiting", batch |-> kept, retries |-> o.retries - 1]
           W == [T EXCEPT !.operations[s] = again]
<1>1. I = {i \in DOMAIN b.callbacks : outcome[i] = "busy" /\ o.retries > 0}
  BY DEF M!Retried, M!State
<1>2. T = [iteration |-> iteration, queue |-> queue, loaded |-> loaded, flushTimer |-> flushTimer,
           copied |-> copied, slots |-> slots, operations |-> operations, answers |-> Z]
  <2>1. T = [M!State EXCEPT !.answers = Z]
    <3>1. M!State.answers = answers
      BY DEF M!State
    <3>2. T = [M!State EXCEPT !.answers = [t \in M!Search |->
         LET mine == {i \in DOMAIN b.callbacks \ I : b.callbacks[i] = t}
         IN  M!State.answers[t] \o
               [k \in 1..M!Cardinality(mine) |-> Reply(b, CHOOSE i \in mine : TRUE, outcome)]]]
      BY Zenon DEF M!Told, Reply
    <3>3. \A mine : M!Cardinality(mine) = Cardinality(mine)
      BY SameRanks
    <3>4. Z = [t \in M!Search |->
         LET mine == {i \in DOMAIN b.callbacks \ I : b.callbacks[i] = t}
         IN  answers[t] \o
               [k \in 1..M!Cardinality(mine) |-> Reply(b, CHOOSE i \in mine : TRUE, outcome)]]
      BY <3>3, Zenon DEF TheirAnswers
    <3> QED
      BY <3>1, <3>2, <3>4, Zenon
  <2> HIDE DEF Z, T
  <2> QED
    BY <2>1 DEF M!State
<1>3. M!Responded(M!State, s, outcome) =
        IF I # {} /\ o.retries > 0 THEN W ELSE M!OperationOver(T, s)
  <2>1. M!State.operations = operations
    BY DEF M!State
  <2>2. T.operations = operations
    BY <1>2
  <2> HIDE DEF I, T
  <2> QED
    BY <2>1, <2>2, Zenon DEF M!Responded, I, T
<1>4. kept = M!Chosen(b, [n \in 1..Cardinality(I) |-> M!Nth(I, n)])
  BY SameRanks, Zenon
<1> HIDE DEF T, I, Z, kept
<1>5. CASE I # {} /\ o.retries > 0
  <2>1. M!Becomes(W)
    BY <1>3, <1>5
  <2>2. /\ UNCHANGED <<iteration, queue, loaded, flushTimer, copied, slots>> /\ answers' = Z
        /\ operations' = [operations EXCEPT ![s] = again]
    <3> HIDE DEF again, o
    <3> QED
      BY <1>2, <2>1, BecomesFields
  <2>3. Responds(s, outcome, I)
    <3> HIDE DEF o
    <3> QED
      BY <1>1, <1>4, <1>5, <2>2 DEF Responds, o, Z
  <2> QED
    BY <2>2, <2>3
<1>6. CASE ~(I # {} /\ o.retries > 0)
  <2> DEFINE ops2 == [operations EXCEPT ![s] = M!Free]
             R == Released(slots)
             end == IF stop = "error" THEN "rejected" ELSE "resolved"
             D == [T EXCEPT !.operations[s] = M!Free, !.slots = M!Released(@)]
             E == [D EXCEPT !.iteration = end]
             TheRest(X) == /\ X.queue = queue /\ X.loaded = loaded /\ X.flushTimer = flushTimer
                        /\ X.copied = copied /\ X.slots = R /\ X.operations = ops2
                        /\ X.answers = Z
  <2>1. D.iteration = iteration /\ TheRest(D) /\ E.iteration = end /\ TheRest(E)
    <3>1. M!Released(slots) = R
      BY SameSemaphore
    <3>2. T.operations = operations /\ T.slots = slots
      BY <1>2
    <3> HIDE DEF o, R, end
    <3> QED
      BY <1>2, <3>1, <3>2
  <2>2. M!OperationOver(T, s) = D \/ (/\ iteration = "finishing" /\ D.slots.running = 0
                                      /\ M!OperationOver(T, s) = E)
    <3>1. T.slots = slots /\ T.iteration = iteration
      BY <1>2
    <3>2. M!Settled(D) = E
      BY Zenon DEF M!Settled
    <3> HIDE DEF E
    <3>3. M!OperationOver(T, s) = IF /\ slots.waiter = NoOne /\ iteration = "finishing"
                                     /\ D.slots.running = 0
                                  THEN E ELSE D
      <4> HIDE DEF D
      <4> QED
        BY <3>1, <3>2, Zenon DEF M!OperationOver, D
    <3> HIDE DEF D
    <3> QED
      BY <3>3
  <2>3. M!Becomes(M!OperationOver(T, s))
    BY <1>3, <1>6
  <2> HIDE DEF ops2, R, D, E
  <2>4. /\ UNCHANGED <<queue, loaded, flushTimer, copied>> /\ answers' = Z
        /\ slots' = R /\ operations' = ops2
        /\ \/ iteration' = iteration
           \/ iteration = "finishing" /\ slots'.running = 0 /\ Settling
    BY <2>1, <2>2, <2>3, BecomesFields DEF Settling
  <2>5. I = {}
    BY <1>1, <1>6
  <2>6. Responds(s, outcome, I)
    <3> HIDE DEF o
    <3> QED
      BY <1>1, <2>4, <2>5 DEF Responds, o, Z, ops2, R
  <2> QED
    BY <2>4, <2>6
<1> QED
  BY <1>5, <1>6

LEMMA AnsweredDoes ==
  ASSUME NEW s \in Slot, M!Answered(s)
  PROVE  /\ operations[s].pc = "sent"
         /\ UNCHANGED <<queue, loaded, flushTimer, copied, options, asked, stop>>
         /\ \E outcome \in [DOMAIN operations[s].batch.callbacks -> Outcomes] :
              \E I : Responds(s, outcome, I)
<1> DEFINE of == DOMAIN operations[s].batch.callbacks
<1>1. /\ operations[s].pc = "sent" /\ UNCHANGED <<options, asked, stop>>
      /\ \/ M!Becomes(M!Responded(M!State, s, [i \in of |-> "failed"]))
         \/ \E outcome \in [of -> {"ok", "busy", "error"}] :
              M!Becomes(M!Responded(M!State, s, outcome))
  BY Zenon DEF M!Answered
<1>2. PICK outcome \in [of -> Outcomes] : M!Becomes(M!Responded(M!State, s, outcome))
  <2>1. [i \in of |-> "failed"] \in [of -> Outcomes]
    BY DEF Outcomes
  <2>2. [of -> {"ok", "busy", "error"}] \subseteq [of -> Outcomes]
    BY DEF Outcomes
  <2> QED
    BY <1>1, <2>1, <2>2, Zenon
<1> QED
  BY <1>1, <1>2, RespondedDoes

LEMMA RetryDoes ==
  ASSUME NEW s \in Slot, M!Retry(s)
  PROVE  /\ operations[s].pc = "waiting"
         /\ operations' = [operations EXCEPT ![s] = [operations[s] EXCEPT !.pc = "sent"]]
         /\ UNCHANGED <<iteration, queue, loaded, flushTimer, copied, slots, answers,
                        options, asked, stop>>
<1> DEFINE T == [M!State EXCEPT !.operations[s].pc = "sent"]
<1>1. operations[s].pc = "waiting" /\ M!Becomes(T) /\ UNCHANGED <<options, asked, stop>>
  BY Zenon DEF M!Retry
<1> QED
  BY <1>1, BecomesFields DEF M!State

-----------------------------------------------------------------------------
\* The inductive invariant of the multi search helper.
IsOperation(o) ==
  /\ o = [pc |-> o.pc, batch |-> o.batch, retries |-> o.retries]
  /\ o.pc \in {"free", "sent", "waiting"} /\ o.retries \in Nat /\ Matched(o.batch)
  /\ o.pc = "free" => o.batch = M!Nothing

AnswersTo(d) ==
  {<<>>} \cup {<<[of |-> d, outcome |-> o]>> : o \in Outcomes \cup {"stopped", "invalid"}}

\* Lines and callbacks of each batch belong together, and each search has its own answer.
MsearchTyped ==
  /\ options \in MsearchSettings /\ asked \in 0..MaxSearches
  /\ iteration \in M!Iterations /\ stop \in {"no", "plain", "error"}
  /\ flushTimer \in {"armed", "fired", "cleared"}
  /\ Distinct(queue) /\ Matched(loaded)
  /\ copied = [f \in Flush |-> copied[f]] /\ \A f \in Flush : Matched(copied[f])
  /\ operations = [t \in Slot |-> operations[t]] /\ \A t \in Slot : IsOperation(operations[t])
  /\ answers = [d \in M!Search |-> answers[d]] /\ \A d \in M!Search : answers[d] \in AnswersTo(d)

\* The semaphore counts right.
MsearchCounted ==
  /\ SemOk(slots) /\ Counts(slots, operations, 0) /\ Served(slots)
  /\ slots.running <= options.concurrency

\* Where iterate() stands.
MsearchStands ==
  /\ slots.at[Loop] # "none" => iteration \in {"flushing", "flushingLast"}
  /\ iteration \notin {"reading", "flushing"} =>
       flushTimer = "cleared" /\ queue = <<>> /\ stop # "no"
  /\ M!Over => slots.running = 0

\* A flush that does not wait holds nothing.
MsearchTidy == \A f \in Flush : slots.at[f] = "none" => copied[f] = M!Nothing

AtQueue  == <<"queue", NoOne>>
AtLoaded == <<"loaded", NoOne>>
AtAnswer == <<"answer", NoOne>>

\* Search d is at place x.  What is loaded may be sent until the last flush.
Has(x, d) ==
  \/ x = AtQueue /\ d \in Range(queue)
  \/ /\ x = AtLoaded /\ iteration \in {"reading", "flushing", "flushingLast"}
     /\ d \in Searches(loaded)
  \/ \E f \in Flush : x = AtCopy(f) /\ d \in Searches(copied[f])
  \/ \E t \in Slot : x = AtOp(t) /\ d \in Searches(operations[t].batch)
  \/ x = AtAnswer /\ d \in M!Search /\ answers[d] # <<>>

\* Each search that was asked is at one place, and no other is anywhere.
OnePlace == \A d, x, y : Has(x, d) /\ Has(y, d) => x = y
WereAsked == \A d, x : Has(x, d) => d \in 1..asked
SomePlace == \A d \in 1..asked : \E x : Has(x, d)

MsearchInv ==
  /\ MsearchTyped /\ MsearchCounted /\ MsearchStands /\ MsearchTidy
  /\ OnePlace /\ WereAsked /\ SomePlace

\* The places are different.
LEMMA PlacesDiffer ==
  /\ AtQueue # AtLoaded /\ AtQueue # AtAnswer /\ AtLoaded # AtAnswer
  /\ \A f : AtCopy(f) # AtQueue /\ AtCopy(f) # AtLoaded /\ AtCopy(f) # AtAnswer
  /\ \A t : AtOp(t) # AtQueue /\ AtOp(t) # AtLoaded /\ AtOp(t) # AtAnswer
  /\ \A f, t : AtCopy(f) # AtOp(t)
  /\ \A f, g : AtCopy(f) = AtCopy(g) => f = g
  /\ \A s, t : AtOp(s) = AtOp(t) => s = t
BY SpotsDiffer DEF AtQueue, AtLoaded, AtAnswer, AtCopy, AtOp

MaySend == iteration \in {"reading", "flushing", "flushingLast"}

\* What it is to be at each place.
LEMMA HasAt ==
  ASSUME NEW d
  PROVE  /\ Has(AtQueue, d) <=> d \in Range(queue)
         /\ Has(AtLoaded, d) <=> MaySend /\ d \in Searches(loaded)
         /\ \A f \in Flush : Has(AtCopy(f), d) <=> d \in Searches(copied[f])
         /\ \A t \in Slot : Has(AtOp(t), d) <=> d \in Searches(operations[t].batch)
         /\ Has(AtAnswer, d) <=> d \in M!Search /\ answers[d] # <<>>
<1>1. Has(AtQueue, d) <=> d \in Range(queue)
  BY PlacesDiffer, ZenonT(30) DEF Has
<1>2. Has(AtLoaded, d) <=> MaySend /\ d \in Searches(loaded)
  BY PlacesDiffer, ZenonT(30) DEF Has, MaySend
<1>3. \A f \in Flush : Has(AtCopy(f), d) <=> d \in Searches(copied[f])
  BY PlacesDiffer, ZenonT(30) DEF Has
<1>4. \A t \in Slot : Has(AtOp(t), d) <=> d \in Searches(operations[t].batch)
  BY PlacesDiffer, ZenonT(30) DEF Has
<1>5. Has(AtAnswer, d) <=> d \in M!Search /\ answers[d] # <<>>
  BY PlacesDiffer, ZenonT(30) DEF Has
<1> QED
  BY <1>1, <1>2, <1>3, <1>4, <1>5

Somewhere(x) ==
  \/ x = AtQueue \/ x = AtLoaded \/ x = AtAnswer
  \/ (\E f \in Flush : x = AtCopy(f))
  \/ \E t \in Slot : x = AtOp(t)

LEMMA HasSomewhere == \A x, d : Has(x, d) => Somewhere(x)
BY ZenonT(30) DEF Has, Somewhere

\* The searches of D go from one place to another, and the others stay.
LEMMA MovedKeeps ==
  ASSUME OnePlace, WereAsked, SomePlace, NEW D, NEW to, 1..asked' = (1..asked) \cup D,
         \A d, x : Has(x, d)' <=> IF d \in D THEN x = to ELSE Has(x, d)
  PROVE  OnePlace' /\ WereAsked' /\ SomePlace'
<1>1. OnePlace'
  <2> SUFFICES ASSUME NEW d, NEW x, NEW y, Has(x, d)', Has(y, d)' PROVE x = y
    BY DEF OnePlace
  <2> QED
    BY DEF OnePlace
<1>2. WereAsked'
  <2> SUFFICES ASSUME NEW d, NEW x, Has(x, d)' PROVE d \in 1..asked'
    BY DEF WereAsked
  <2> QED
    BY DEF WereAsked
<1>3. SomePlace'
  <2> SUFFICES ASSUME NEW d \in 1..asked' PROVE \E x : Has(x, d)'
    BY DEF SomePlace
  <2> QED
    BY DEF SomePlace
<1> QED
  BY <1>1, <1>2, <1>3

LEMMA GoFrom ==
  ASSUME NEW D, NEW from, NEW to, from # to,
         \A d \in D : \A x : Has(x, d) => x = from,
         \A d : Has(from, d)' <=> Has(from, d) /\ d \notin D,
         \A d : Has(to, d)' <=> Has(to, d) \/ d \in D,
         \A x, d : Somewhere(x) /\ x # from /\ x # to => (Has(x, d)' <=> Has(x, d)),
         \A x, d : (Has(x, d) \/ Has(x, d)') => Somewhere(x)
  PROVE  \A d, x : Has(x, d)' <=> IF d \in D THEN x = to ELSE Has(x, d)
<1> SUFFICES ASSUME NEW d, NEW x PROVE Has(x, d)' <=> IF d \in D THEN x = to ELSE Has(x, d)
  OBVIOUS
<1>1. CASE d \notin D
  <2>1. CASE ~Somewhere(x)
    BY <1>1, <2>1
  <2>2. CASE Somewhere(x)
    BY <1>1, <2>2
  <2> QED
    BY <2>1, <2>2
<1>2. CASE d \in D
  <2>1. CASE x = to
    BY <1>2, <2>1
  <2>2. CASE x # to
    BY <1>2, <2>2
  <2> QED
    BY <2>1, <2>2
<1> QED
  BY <1>1, <1>2

\* What it is to be at each place of the next state.
PlacesHold ==
  /\ \A d : /\ Has(AtQueue, d) <=> d \in Range(queue)
            /\ Has(AtLoaded, d) <=> MaySend /\ d \in Searches(loaded)
            /\ Has(AtAnswer, d) <=> d \in M!Search /\ answers[d] # <<>>
            /\ \A f \in Flush : Has(AtCopy(f), d) <=> d \in Searches(copied[f])
            /\ \A t \in Slot : Has(AtOp(t), d) <=> d \in Searches(operations[t].batch)
  /\ \A x, d : Has(x, d) => Somewhere(x)

LEMMA PlacesNow == PlacesHold
BY HasAt, HasSomewhere DEF PlacesHold

LEMMA PlacesNext == PlacesHold'
BY PlacesNow, PTL

\* Nothing happens at the places but the two.
OthersStay(a, b) ==
  /\ AtQueue \in {a, b} \/ queue' = queue
  /\ \/ AtLoaded \in {a, b}
     \/ loaded' = loaded /\ (MaySend' <=> MaySend)
     \/ Searches(loaded) = {} /\ Searches(loaded') = {}
  /\ AtAnswer \in {a, b} \/ answers' = answers
  /\ \A f \in Flush : AtCopy(f) \in {a, b} \/ copied'[f] = copied[f]
  /\ \A t \in Slot : \/ AtOp(t) \in {a, b}
                     \/ Searches(operations'[t].batch) = Searches(operations[t].batch)

\* It is enough to look at what changes.
LEMMA Relocated ==
  ASSUME OnePlace, WereAsked, SomePlace, NEW D, NEW from, NEW to, from # to,
         1..asked' = (1..asked) \cup D,
         \A d \in D : \A x : Has(x, d) => x = from,
         \A d : Has(from, d)' <=> Has(from, d) /\ d \notin D,
         \A d : Has(to, d)' <=> Has(to, d) \/ d \in D,
         OthersStay(from, to)
  PROVE  OnePlace' /\ WereAsked' /\ SomePlace'
<1>1. ASSUME NEW x, NEW d, Somewhere(x), x # from, x # to PROVE Has(x, d)' <=> Has(x, d)
  <2>1. CASE x = AtQueue
    BY <1>1, <2>1, HasAt, PlacesNext DEF PlacesHold, OthersStay
  <2>2. CASE x = AtLoaded
    <3>1. /\ Has(AtLoaded, d) <=> MaySend /\ d \in Searches(loaded)
          /\ Has(AtLoaded, d)' <=> MaySend' /\ d \in Searches(loaded')
      BY HasAt, PlacesNext DEF PlacesHold
    <3>2. \/ loaded' = loaded /\ (MaySend' <=> MaySend)
          \/ Searches(loaded) = {} /\ Searches(loaded') = {}
      BY <1>1, <2>2 DEF OthersStay
    <3> QED
      BY <2>2, <3>1, <3>2
  <2>3. CASE x = AtAnswer
    BY <1>1, <2>3, HasAt, PlacesNext DEF PlacesHold, OthersStay
  <2>4. CASE \E f \in Flush : x = AtCopy(f)
    <3>1. PICK f \in Flush : x = AtCopy(f)
      BY <2>4
    <3>2. Has(AtCopy(f), d) <=> d \in Searches(copied[f])
      BY HasAt
    <3>3. Has(AtCopy(f), d)' <=> d \in Searches(copied'[f])
      BY PlacesNext DEF PlacesHold
    <3>4. copied'[f] = copied[f]
      BY <1>1, <3>1 DEF OthersStay
    <3> QED
      BY <3>1, <3>2, <3>3, <3>4
  <2>5. CASE \E t \in Slot : x = AtOp(t)
    <3>1. PICK t \in Slot : x = AtOp(t)
      BY <2>5
    <3>2. Has(AtOp(t), d) <=> d \in Searches(operations[t].batch)
      BY HasAt
    <3>3. Has(AtOp(t), d)' <=> d \in Searches(operations'[t].batch)
      BY PlacesNext DEF PlacesHold
    <3>4. Searches(operations'[t].batch) = Searches(operations[t].batch)
      BY <1>1, <3>1 DEF OthersStay
    <3> QED
      BY <3>1, <3>2, <3>3, <3>4
  <2> QED
    BY <1>1, <2>1, <2>2, <2>3, <2>4, <2>5 DEF Somewhere
<1>2. \A x, d : (Has(x, d) \/ Has(x, d)') => Somewhere(x)
  BY HasSomewhere, PlacesNext DEF PlacesHold, Somewhere
<1>3. \A d, x : Has(x, d)' <=> IF d \in D THEN x = to ELSE Has(x, d)
  BY <1>1, <1>2, GoFrom
<1> QED
  BY <1>3, MovedKeeps

\* All the searches of a place go to another.
LEMMA AllMoved ==
  ASSUME OnePlace, WereAsked, SomePlace, NEW D, NEW from, NEW to, from # to, asked' = asked,
         \A d : Has(from, d) <=> d \in D,
         \A d : ~Has(from, d)',
         \A d : Has(to, d)' <=> Has(to, d) \/ d \in D,
         OthersStay(from, to)
  PROVE  OnePlace' /\ WereAsked' /\ SomePlace'
<1>1. \A d \in D : \A x : Has(x, d) => x = from
  BY DEF OnePlace
<1>2. 1..asked' = (1..asked) \cup D
  BY DEF WereAsked
<1> QED
  BY <1>1, <1>2, Relocated

-----------------------------------------------------------------------------
\* Each action of the multi search helper keeps the invariant.
LEMMA Constants ==
  ASSUME MsearchTyped
  PROVE  /\ options.concurrency \in Nat \ {0} /\ options.retries \in Nat
         /\ Cardinality(Slot) > options.concurrency /\ asked \in Nat
         /\ M!Search = 1..MaxSearches /\ MaxSearches \in Nat
         /\ Loop \in Process /\ \A f \in Flush : f \in Process /\ f # Loop
BY MsearchConstants DEF MsearchTyped, M!Search, Flush

\* send() finds a free slot.
LEMMA FreeSlotFound ==
  ASSUME MsearchTyped, MsearchCounted
  PROVE  FreeSlot \in Slot /\ operations[FreeSlot].pc = "free"
<1>1. Cardinality(Busy(operations)) < Cardinality(Slot)
  <2>1. slots.running \in Nat
    BY DEF MsearchCounted, SemOk, SemaphoreType
  <2>2. Cardinality(Slot) \in Nat
    BY MsearchConstants, FS_CardinalityType
  <2> QED
    BY <2>1, <2>2, Finite, Constants DEF MsearchCounted, Counts
<1>2. Cardinality(Slot) \in Nat
  BY MsearchConstants, FS_CardinalityType
<1>3. Busy(operations) # Slot
  BY <1>1, <1>2
<1>4. {t \in Slot : operations[t].pc = "free"} # {}
  BY <1>3 DEF Busy
<1> QED
  BY <1>4 DEF FreeSlot

\* What does not change the semaphore.
LEMMA CountedSame ==
  ASSUME MsearchCounted, slots' = slots, options' = options, Busy(operations') = Busy(operations)
  PROVE  MsearchCounted'
BY DEF MsearchCounted, Counts

\* Nobody has a search that was not asked.
LEMMA NewSearch ==
  ASSUME MsearchTyped, WereAsked, asked + 1 \in M!Search
  PROVE  /\ \A x : ~Has(x, asked + 1)
         /\ asked + 1 \notin Range(queue) /\ answers[asked + 1] = <<>>
<1>1. asked + 1 \notin 1..asked
  BY Constants
<1>2. \A x : ~Has(x, asked + 1)
  BY <1>1 DEF WereAsked
<1> QED
  BY <1>2, HasAt

LEMMA CallSearchKeeps ==
  ASSUME MsearchInv, NEW valid, M!CallSearch(valid)
  PROVE  MsearchInv'
<1> DEFINE s == asked + 1
<1>1. /\ asked' = asked + 1 /\ s \in M!Search
      /\ UNCHANGED <<iteration, loaded, flushTimer, copied, slots, operations, options, stop>>
  BY CallSearchDoes
<1>2. /\ \A x : ~Has(x, s)
      /\ s \notin Range(queue) /\ answers[s] = <<>>
  BY <1>1, NewSearch DEF MsearchInv
<1>3. asked' \in 0..MaxSearches /\ 1..asked' = (1..asked) \cup {s} /\ asked \in Nat
  BY <1>1, Constants DEF MsearchInv
<1>4. MsearchCounted' /\ MsearchTidy'
  BY <1>1, CountedSame DEF MsearchInv, MsearchTidy
<1>5. MaySend' <=> MaySend
  BY <1>1 DEF MaySend
<1>6. CASE stop = "no" /\ queue' = Append(queue, s) /\ answers' = answers
  <2>1. Distinct(queue') /\ Range(queue') = Range(queue) \cup {s}
    BY <1>1, <1>2, <1>6, AppendDistinct DEF MsearchInv, MsearchTyped
  <2>2. MsearchTyped'
    BY <1>1, <1>3, <1>6, <2>1 DEF MsearchInv, MsearchTyped
  <2>3. MsearchStands'
    BY <1>1, <1>6 DEF MsearchInv, MsearchStands, M!Over
  <2>4. OnePlace' /\ WereAsked' /\ SomePlace'
    <3> DEFINE D == {s}
    <3>1. \A d : Has(AtQueue, d)' <=> Has(AtQueue, d) \/ d \in D
      BY <2>1, HasAt, PlacesNext DEF PlacesHold
    <3>2. /\ \A d : Has(AtLoaded, d)' <=> Has(AtLoaded, d) /\ d \notin D
          /\ \A d \in D : \A x : Has(x, d) => x = AtLoaded
      BY <1>1, <1>2, <1>5, HasAt, PlacesNext DEF PlacesHold
    <3>3. 1..asked' = (1..asked) \cup D /\ AtLoaded # AtQueue
      BY <1>3, PlacesDiffer
    <3>4. /\ AtQueue \in {AtLoaded, AtQueue} /\ AtLoaded \in {AtLoaded, AtQueue}
          /\ answers' = answers /\ \A f \in Flush : copied'[f] = copied[f]
          /\ \A t \in Slot : Searches(operations'[t].batch) = Searches(operations[t].batch)
      BY <1>1, <1>6
    <3>5. OthersStay(AtLoaded, AtQueue)
      BY <3>4 DEF OthersStay
    <3> HIDE DEF D, s
    <3> QED
      BY <3>1, <3>2, <3>3, <3>5, Relocated DEF MsearchInv
  <2> QED
    BY <1>4, <2>2, <2>3, <2>4 DEF MsearchInv
<1>7. ASSUME NEW why \in {"stopped", "invalid"}, queue' = queue,
             answers' = [answers EXCEPT ![s] = Append(@, [of |-> s, outcome |-> why])]
      PROVE  MsearchInv'
  <2>1. /\ answers' = [d \in M!Search |-> answers'[d]]
        /\ answers'[s] = <<[of |-> s, outcome |-> why]>>
        /\ \A d \in M!Search : d # s => answers'[d] = answers[d]
    <3>1. answers = [d \in M!Search |-> answers[d]]
      BY DEF MsearchInv, MsearchTyped
    <3>2. Append(answers[s], [of |-> s, outcome |-> why]) = <<[of |-> s, outcome |-> why]>>
      BY <1>2
    <3>3. answers' = [answers EXCEPT ![s] = <<[of |-> s, outcome |-> why]>>]
      BY <1>7, <3>2
    <3> HIDE DEF s
    <3> QED
      BY <1>1, <3>1, <3>3
  <2>2. MsearchTyped'
    <3>1. answers'[s] \in AnswersTo(s)
      BY <2>1 DEF AnswersTo
    <3>2. \A d \in M!Search : answers'[d] \in AnswersTo(d)
      BY <2>1, <3>1 DEF MsearchInv, MsearchTyped
    <3> QED
      BY <1>1, <1>3, <1>7, <2>1, <3>2 DEF MsearchInv, MsearchTyped
  <2>3. MsearchStands'
    BY <1>1, <1>7 DEF MsearchInv, MsearchStands, M!Over
  <2>4. OnePlace' /\ WereAsked' /\ SomePlace'
    <3> DEFINE D == {s}
    <3>1. \A d : Has(AtAnswer, d)' <=> Has(AtAnswer, d) \/ d \in D
      BY <1>1, <2>1, HasAt, PlacesNext DEF PlacesHold
    <3>2. /\ \A d : Has(AtLoaded, d)' <=> Has(AtLoaded, d) /\ d \notin D
          /\ \A d \in D : \A x : Has(x, d) => x = AtLoaded
      BY <1>1, <1>2, <1>5, HasAt, PlacesNext DEF PlacesHold
    <3>3. 1..asked' = (1..asked) \cup D /\ AtLoaded # AtAnswer
      BY <1>3, PlacesDiffer
    <3>4. /\ AtAnswer \in {AtLoaded, AtAnswer} /\ AtLoaded \in {AtLoaded, AtAnswer}
          /\ queue' = queue /\ \A f \in Flush : copied'[f] = copied[f]
          /\ \A t \in Slot : Searches(operations'[t].batch) = Searches(operations[t].batch)
      BY <1>1, <1>7
    <3>5. OthersStay(AtLoaded, AtAnswer)
      BY <3>4 DEF OthersStay
    <3> HIDE DEF D, s
    <3> QED
      BY <3>1, <3>2, <3>3, <3>5, Relocated DEF MsearchInv
  <2> QED
    BY <1>4, <2>2, <2>3, <2>4 DEF MsearchInv
<1> QED
  BY <1>6, <1>7, CallSearchDoes

\* Steps that move no search.
LEMMA PlacesStay ==
  ASSUME OnePlace, WereAsked, SomePlace, UNCHANGED <<queue, copied, answers, asked>>,
         (loaded' = loaded /\ (MaySend' <=> MaySend))
           \/ (Searches(loaded) = {} /\ Searches(loaded') = {}),
         \A t \in Slot : Searches(operations'[t].batch) = Searches(operations[t].batch)
  PROVE  OnePlace' /\ WereAsked' /\ SomePlace'
<1>1. \A d : Has(AtQueue, d)' <=> Has(AtQueue, d)
  BY HasAt, PlacesNext DEF PlacesHold
<1>2. \A d : Has(AtAnswer, d)' <=> Has(AtAnswer, d)
  BY HasAt, PlacesNext DEF PlacesHold
<1>3. 1..asked' = (1..asked) \cup {}
  OBVIOUS
<1> DEFINE D == {}
<1>4. \A d : d \notin D
  OBVIOUS
<1>5. 1..asked' = (1..asked) \cup D
  OBVIOUS
<1>6. OthersStay(AtQueue, AtAnswer)
  BY DEF OthersStay
<1> HIDE DEF D
<1> QED
  BY <1>1, <1>2, <1>4, <1>5, <1>6, PlacesDiffer, Relocated

LEMMA StopKeeps ==
  ASSUME MsearchInv, NEW how \in {"plain", "error"}, M!Stop(how)
  PROVE  MsearchInv'
<1>1. /\ stop' = how
      /\ UNCHANGED <<options, iteration, asked, queue, loaded, flushTimer, copied, slots,
                     operations, answers>>
  BY DEF M!Stop
<1>2. MsearchTyped' /\ MsearchTidy' /\ MsearchStands' /\ MsearchCounted'
  BY <1>1, CountedSame DEF MsearchInv, MsearchTyped, MsearchTidy, MsearchStands, M!Over
<1>3. MaySend' <=> MaySend
  BY <1>1 DEF MaySend
<1>4. OnePlace' /\ WereAsked' /\ SomePlace'
  BY <1>1, <1>3, PlacesStay DEF MsearchInv
<1> QED
  BY <1>2, <1>4 DEF MsearchInv

\* semaphore() is called by p, who has no slot.
LEMMA AcquiredKeeps ==
  ASSUME MsearchTyped, MsearchCounted, NEW p \in Process, slots.at[p] = "none",
         slots' = Acquired(slots, p, options.concurrency), UNCHANGED <<options, operations>>
  PROVE  /\ MsearchCounted'
         /\ slots'.at[p] # "none" /\ \A q \in Process \ {p} : slots'.at[q] = slots.at[q]
BY Constants, AcquiredOk, AcquiredAt DEF MsearchCounted

\* A sequence without its first member.
LEMMA TailDistinct ==
  ASSUME NEW c, Distinct(c), c # <<>>
  PROVE  /\ Head(c) \in M!Search /\ Head(c) \in Range(c) /\ Distinct(Tail(c))
         /\ Range(Tail(c)) = Range(c) \ {Head(c)}
<1>1. c \in Seq(M!Search) /\ Len(c) \in Nat /\ Len(c) # 0 /\ DOMAIN c = 1..Len(c)
  BY DEF Distinct
<1>2. /\ Tail(c) \in Seq(M!Search) /\ Len(Tail(c)) = Len(c) - 1 /\ Head(c) = c[1]
      /\ \A i \in 1..(Len(c) - 1) : Tail(c)[i] = c[i + 1]
      /\ DOMAIN Tail(c) = 1..(Len(c) - 1)
  BY <1>1
<1>3. Head(c) \in M!Search /\ Head(c) \in Range(c)
  BY <1>1, <1>2 DEF Range
<1>4. Distinct(Tail(c))
  <2> SUFFICES ASSUME NEW i \in 1..(Len(c) - 1), NEW j \in 1..(Len(c) - 1), Tail(c)[i] = Tail(c)[j]
               PROVE  i = j
    BY <1>2 DEF Distinct
  <2>1. i + 1 \in 1..Len(c) /\ j + 1 \in 1..Len(c) /\ c[i + 1] = c[j + 1]
    BY <1>1, <1>2
  <2>2. i + 1 = j + 1
    BY <1>1, <2>1 DEF Distinct
  <2> QED
    BY <2>2
<1>5. Range(Tail(c)) = Range(c) \ {Head(c)}
  <2>1. ASSUME NEW d \in Range(Tail(c)) PROVE d \in Range(c) /\ d # Head(c)
    <3>1. PICK i \in 1..(Len(c) - 1) : d = c[i + 1]
      BY <1>2 DEF Range
    <3>2. i + 1 \in 1..Len(c) /\ 1 \in 1..Len(c) /\ i + 1 # 1
      BY <1>1
    <3> QED
      BY <1>1, <1>2, <3>1, <3>2 DEF Range, Distinct
  <2>2. ASSUME NEW d \in Range(c), d # Head(c) PROVE d \in Range(Tail(c))
    <3>1. PICK i \in 1..Len(c) : d = c[i]
      BY <1>1 DEF Range
    <3>2. i # 1
      BY <1>2, <2>2, <3>1
    <3>3. i - 1 \in 1..(Len(c) - 1) /\ (i - 1) + 1 = i
      BY <1>1, <3>2
    <3>4. Tail(c)[i - 1] = d
      BY <1>2, <3>1, <3>3
    <3> QED
      BY <1>2, <3>3, <3>4 DEF Range
  <2> QED
    BY <2>1, <2>2
<1> QED
  BY <1>3, <1>4, <1>5

LEMMA ReadKeeps ==
  ASSUME MsearchInv, M!Read
  PROVE  MsearchInv'
<1> DEFINE s == Head(queue)
<1>1. /\ queue # <<>> /\ iteration = "reading"
      /\ queue' = Tail(queue) /\ loaded' = M!Loaded(loaded, s) /\ flushTimer' = "armed"
      /\ UNCHANGED <<copied, operations, answers, options, asked, stop>>
      /\ \/ iteration' = "reading" /\ slots' = slots
         \/ iteration' = "flushing" /\ slots' = Acquired(slots, Loop, options.concurrency)
  BY ReadDoes
<1>2. s \in M!Search /\ s \in Range(queue) /\ Distinct(queue') /\ Range(queue') = Range(queue) \ {s}
  BY <1>1, TailDistinct DEF MsearchInv, MsearchTyped
<1>3. Has(AtQueue, s) /\ \A x : Has(x, s) => x = AtQueue
  BY <1>2, HasAt DEF MsearchInv, OnePlace
<1>4. s \in 1..asked
  BY <1>3 DEF MsearchInv, WereAsked
<1>5. MaySend /\ MaySend'
  BY <1>1 DEF MaySend
<1>6. s \notin Searches(loaded)
  BY <1>3, <1>5, HasAt, PlacesDiffer
<1>7. Matched(loaded') /\ Searches(loaded') = Searches(loaded) \cup {s}
  BY <1>1, <1>2, <1>6, LoadedMatched DEF MsearchInv, MsearchTyped
<1> HIDE DEF s
<1>8. MsearchTyped'
  BY <1>1, <1>2, <1>7 DEF MsearchInv, MsearchTyped, M!Iterations
<1>9. slots.at[Loop] = "none"
  BY <1>1 DEF MsearchInv, MsearchStands
<1>10. MsearchCounted' /\ MsearchStands' /\ MsearchTidy'
  <2>1. CASE iteration' = "reading" /\ slots' = slots
    BY <1>1, <1>9, <2>1, CountedSame
       DEF MsearchInv, MsearchStands, MsearchTidy, M!Over
  <2>2. CASE iteration' = "flushing" /\ slots' = Acquired(slots, Loop, options.concurrency)
    <3>1. /\ MsearchCounted'
          /\ \A q \in Process \ {Loop} : slots'.at[q] = slots.at[q]
      BY <1>1, <1>9, <2>2, Constants, AcquiredKeeps DEF MsearchInv
    <3> QED
      BY <1>1, <2>2, <3>1 DEF MsearchInv, MsearchStands, MsearchTidy, M!Over, Flush
  <2> QED
    BY <1>1, <2>1, <2>2
<1>11. OnePlace' /\ WereAsked' /\ SomePlace'
  <2> DEFINE D == {s}
  <2>1. /\ \A d : Has(AtQueue, d)' <=> Has(AtQueue, d) /\ d \notin D
        /\ \A d \in D : \A x : Has(x, d) => x = AtQueue
    BY <1>2, <1>3, HasAt, PlacesNext DEF PlacesHold
  <2>2. \A d : Has(AtLoaded, d)' <=> Has(AtLoaded, d) \/ d \in D
    BY <1>5, <1>7, HasAt, PlacesNext DEF PlacesHold
  <2>3. 1..asked' = (1..asked) \cup D /\ AtQueue # AtLoaded
    BY <1>1, <1>4, PlacesDiffer
  <2>4. /\ AtQueue \in {AtQueue, AtLoaded} /\ AtLoaded \in {AtQueue, AtLoaded}
        /\ answers' = answers /\ \A f \in Flush : copied'[f] = copied[f]
        /\ \A t \in Slot : Searches(operations'[t].batch) = Searches(operations[t].batch)
    BY <1>1
  <2>5. OthersStay(AtQueue, AtLoaded)
    BY <2>4 DEF OthersStay
  <2> HIDE DEF D
  <2> QED
    BY <2>1, <2>2, <2>3, <2>5, Relocated DEF MsearchInv
<1> QED
  BY <1>8, <1>10, <1>11 DEF MsearchInv

LEMMA EndOfStreamKeeps ==
  ASSUME MsearchInv, M!EndOfStream
  PROVE  MsearchInv'
<1>1. /\ queue = <<>> /\ iteration = "reading" /\ stop # "no" /\ flushTimer' = "cleared"
      /\ UNCHANGED <<queue, loaded, copied, operations, answers, options, asked, stop>>
      /\ \/ iteration' = "flushingLast" /\ slots' = Acquired(slots, Loop, options.concurrency)
         \/ loaded.callbacks = <<>> /\ slots' = slots /\ Finishing
  BY EndOfStreamDoes
<1>2. slots.at[Loop] = "none"
  BY <1>1 DEF MsearchInv, MsearchStands
<1>3. CASE iteration' = "flushingLast" /\ slots' = Acquired(slots, Loop, options.concurrency)
  <2>1. MsearchCounted' /\ \A q \in Process \ {Loop} : slots'.at[q] = slots.at[q]
    BY <1>1, <1>2, <1>3, Constants, AcquiredKeeps DEF MsearchInv
  <2>2. MsearchTyped' /\ MsearchStands' /\ MsearchTidy'
    BY <1>1, <1>3, <2>1
       DEF MsearchInv, MsearchTyped, MsearchStands, MsearchTidy, M!Over, M!Iterations, Flush
  <2>3. MaySend' <=> MaySend
    BY <1>1, <1>3 DEF MaySend
  <2>4. OnePlace' /\ WereAsked' /\ SomePlace'
    BY <1>1, <2>3, PlacesStay DEF MsearchInv
  <2> QED
    BY <2>1, <2>2, <2>4 DEF MsearchInv
<1>4. CASE loaded.callbacks = <<>> /\ slots' = slots /\ Finishing
  <2>1. iteration' \in {"finishing", "resolved", "rejected"} /\ (M!Over' => slots'.running = 0)
    BY <1>4 DEF Finishing, Settling, M!Over
  <2>2. MsearchCounted'
    BY <1>1, <1>4, CountedSame DEF MsearchInv
  <2>3. MsearchTyped' /\ MsearchTidy' /\ MsearchStands'
    BY <1>1, <1>2, <1>4, <2>1
       DEF MsearchInv, MsearchTyped, MsearchTidy, MsearchStands, M!Iterations
  <2>4. Searches(loaded) = {} /\ Searches(loaded') = {}
    BY <1>1, <1>4 DEF Searches, Range
  <2>5. OnePlace' /\ WereAsked' /\ SomePlace'
    BY <1>1, <2>4, PlacesStay DEF MsearchInv
  <2> QED
    BY <2>2, <2>3, <2>5 DEF MsearchInv
<1> QED
  BY <1>1, <1>3, <1>4

LEMMA FlushTimeoutKeeps ==
  ASSUME MsearchInv, M!FlushTimeout
  PROVE  MsearchInv'
<1>1. /\ flushTimer = "armed" /\ flushTimer' = "fired"
      /\ UNCHANGED <<iteration, queue, operations, answers, options, asked, stop>>
      /\ \/ UNCHANGED <<loaded, copied, slots>>
         \/ \E f \in Flush : /\ slots.at[f] = "none" /\ copied' = [copied EXCEPT ![f] = loaded]
                             /\ loaded' = M!Nothing
                             /\ slots' = Acquired(slots, f, options.concurrency)
  BY FlushTimeoutDoesMsearch
<1>2. iteration \in {"reading", "flushing"}
  BY <1>1 DEF MsearchInv, MsearchStands
<1>3. MaySend /\ MaySend'
  BY <1>1, <1>2 DEF MaySend
<1>4. CASE UNCHANGED <<loaded, copied, slots>>
  <2>1. MsearchTyped' /\ MsearchTidy' /\ MsearchStands' /\ MsearchCounted'
    BY <1>1, <1>2, <1>4, CountedSame
       DEF MsearchInv, MsearchTyped, MsearchTidy, MsearchStands, M!Over
  <2>2. OnePlace' /\ WereAsked' /\ SomePlace'
    BY <1>1, <1>3, <1>4, PlacesStay DEF MsearchInv
  <2> QED
    BY <2>1, <2>2 DEF MsearchInv
<1>5. ASSUME NEW f \in Flush, slots.at[f] = "none", copied' = [copied EXCEPT ![f] = loaded],
             loaded' = M!Nothing, slots' = Acquired(slots, f, options.concurrency)
      PROVE  MsearchInv'
  <2>1. f \in Process /\ f # Loop
    BY Constants DEF MsearchInv
  <2>2. /\ MsearchCounted' /\ slots'.at[f] # "none"
        /\ \A q \in Process \ {f} : slots'.at[q] = slots.at[q]
    BY <1>1, <1>5, <2>1, AcquiredKeeps DEF MsearchInv
  <2>3. /\ copied' = [g \in Flush |-> copied'[g]] /\ copied'[f] = loaded
        /\ \A g \in Flush : g # f => copied'[g] = copied[g]
    <3>1. copied = [g \in Flush |-> copied[g]]
      BY DEF MsearchInv, MsearchTyped
    <3> QED
      BY <1>5, <3>1
  <2>4. MsearchTyped'
    <3>1. \A g \in Flush : Matched(copied'[g])
      BY <2>3 DEF MsearchInv, MsearchTyped
    <3> QED
      BY <1>1, <1>5, <2>3, <3>1, NothingMatched DEF MsearchInv, MsearchTyped
  <2>5. MsearchStands'
    BY <1>1, <1>2, <2>1, <2>2, Constants DEF MsearchInv, MsearchStands, M!Over
  <2>6. MsearchTidy'
    BY <2>2, <2>3 DEF MsearchInv, MsearchTidy, Flush
  <2>7. OnePlace' /\ WereAsked' /\ SomePlace'
    <3> DEFINE D == Searches(loaded)
    <3>1. \A d : Has(AtLoaded, d) <=> d \in D
      BY <1>3, HasAt
    <3>2. \A d : ~Has(AtLoaded, d)'
      BY <1>5, NothingMatched, PlacesNext DEF PlacesHold
    <3>3. \A d : Has(AtCopy(f), d)' <=> Has(AtCopy(f), d) \/ d \in D
      <4>1. \A d : ~Has(AtCopy(f), d)
        BY <1>5, HasAt, NothingMatched DEF MsearchInv, MsearchTidy
      <4>2. \A d : Has(AtCopy(f), d)' <=> d \in Searches(copied'[f])
        BY PlacesNext DEF PlacesHold
      <4> QED
        BY <2>3, <4>1, <4>2
    <3>4. OthersStay(AtLoaded, AtCopy(f)) /\ AtLoaded # AtCopy(f)
      BY <1>1, <2>3, PlacesDiffer DEF OthersStay
    <3> HIDE DEF D
    <3> QED
      BY <1>1, <3>1, <3>2, <3>3, <3>4, AllMoved DEF MsearchInv
  <2> QED
    BY <2>2, <2>4, <2>5, <2>6, <2>7 DEF MsearchInv
<1> QED
  BY <1>1, <1>4, <1>5

\* send() by a process that has a slot: the slot is for the operation that begins.
LEMMA SendKeeps ==
  ASSUME MsearchTyped, MsearchCounted, NEW p \in Process, slots.at[p] \in {"ready", "immediate"},
         slots' = Resumed(slots, p), NEW b, Matched(b), operations' = SentOps(b), options' = options
  PROVE  /\ MsearchCounted' /\ slots'.at[p] = "none" /\ slots'.running = slots.running
         /\ \A q \in Process \ {p} : slots'.at[q] = slots.at[q]
         /\ operations' = [t \in Slot |-> operations'[t]]
         /\ \A t \in Slot : IsOperation(operations'[t])
         /\ FreeSlot \in Slot /\ Searches(operations[FreeSlot].batch) = {}
         /\ operations'[FreeSlot].batch = b
         /\ \A t \in Slot : t # FreeSlot => operations'[t] = operations[t]
<1> DEFINE f == FreeSlot
           o == [pc |-> "sent", batch |-> b, retries |-> options.retries]
<1>1. f \in Slot /\ operations[f].pc = "free"
  BY FreeSlotFound
<1>2. Searches(operations[f].batch) = {}
  BY <1>1, NothingMatched DEF MsearchTyped, IsOperation
<1>3. IsOperation(o)
  BY Constants DEF IsOperation
<1>4. operations' = [operations EXCEPT ![f] = o]
  BY DEF SentOps
<1>5. operations = [t \in Slot |-> operations[t]]
  BY DEF MsearchTyped
<1> HIDE DEF f, o
<1>6. /\ operations' = [t \in Slot |-> operations'[t]] /\ operations'[f] = o
      /\ \A t \in Slot : t # f => operations'[t] = operations[t]
  BY <1>1, <1>4, <1>5
<1>7. \A t \in Slot : IsOperation(operations'[t])
  BY <1>3, <1>6 DEF MsearchTyped
<1>8. Busy(operations') = Busy(operations) \cup {f} /\ f \notin Busy(operations)
  BY <1>1, <1>6 DEF Busy, o
<1>9. p \in Granted(slots) /\ SemOk(slots) /\ Counts(slots, operations, 0)
  BY DEF Granted, MsearchCounted
<1>10. /\ SemOk(slots') /\ Counts(slots', operations, 1) /\ slots'.running = slots.running
       /\ slots'.at[p] = "none" /\ \A q \in Process \ {p} : slots'.at[q] = slots.at[q]
  BY <1>9, ResumedOk
<1>11. Cardinality(Busy(operations')) = Cardinality(Busy(operations)) + 1
  BY <1>8, Finite, FS_AddElement
<1>12. Counts(slots', operations', 0)
  BY <1>10, <1>11, Finite DEF Counts
<1>13. MsearchCounted'
  BY <1>9, <1>10, <1>12, ResumedAt DEF MsearchCounted
<1> QED
  BY <1>1, <1>2, <1>6, <1>7, <1>10, <1>13 DEF f, o

\* The searches of a place go to the operation.
LEMMA SearchesSent ==
  ASSUME OnePlace, WereAsked, SomePlace, asked' = asked, NEW from, NEW b, NEW t \in Slot,
         \A d : Has(from, d) <=> d \in Searches(b), \A d : ~Has(from, d)', from # AtOp(t),
         Searches(operations[t].batch) = {}, operations'[t].batch = b,
         OthersStay(from, AtOp(t))
  PROVE  OnePlace' /\ WereAsked' /\ SomePlace'
<1> DEFINE D == Searches(b)
<1>1. \A d : Has(AtOp(t), d)' <=> Has(AtOp(t), d) \/ d \in D
  BY HasAt, PlacesNext DEF PlacesHold
<1>2. \A d : Has(from, d) <=> d \in D
  OBVIOUS
<1> HIDE DEF D
<1> QED
  BY <1>1, <1>2, AllMoved

LEMMA ResumeLoopKeeps ==
  ASSUME MsearchInv, M!ResumeLoop
  PROVE  MsearchInv'
<1>1. /\ slots.at[Loop] \in {"ready", "immediate"} /\ slots' = Resumed(slots, Loop)
      /\ operations' = SentOps(loaded)
      /\ UNCHANGED <<queue, flushTimer, copied, answers, options, asked, stop>>
      /\ \/ iteration = "flushing" /\ iteration' = "reading" /\ loaded' = M!Nothing
         \/ iteration # "flushing" /\ loaded' = loaded /\ Finishing
  BY ResumeLoopDoes
<1>2. iteration \in {"flushing", "flushingLast"}
  BY <1>1 DEF MsearchInv, MsearchStands
<1>3. /\ MsearchCounted' /\ slots'.at[Loop] = "none"
      /\ \A q \in Process \ {Loop} : slots'.at[q] = slots.at[q]
      /\ operations' = [t \in Slot |-> operations'[t]]
      /\ \A t \in Slot : IsOperation(operations'[t])
      /\ FreeSlot \in Slot /\ Searches(operations[FreeSlot].batch) = {}
      /\ operations'[FreeSlot].batch = loaded
      /\ \A t \in Slot : t # FreeSlot => operations'[t] = operations[t]
  BY <1>1, Constants, SendKeeps DEF MsearchInv, MsearchTyped
<1>4. \/ iteration = "flushing" /\ iteration' = "reading" /\ loaded' = M!Nothing
      \/ /\ iteration = "flushingLast" /\ loaded' = loaded
         /\ iteration' \in {"finishing", "resolved", "rejected"} /\ (M!Over' => slots'.running = 0)
  BY <1>1, <1>2 DEF Finishing, Settling, M!Over
<1>5. MsearchTyped'
  BY <1>1, <1>3, <1>4, NothingMatched DEF MsearchInv, MsearchTyped, M!Iterations
<1>6. MsearchStands'
  BY <1>1, <1>3, <1>4 DEF MsearchInv, MsearchStands, M!Over
<1>7. MsearchTidy'
  BY <1>1, <1>3 DEF MsearchInv, MsearchTidy, Flush
<1>8. OnePlace' /\ WereAsked' /\ SomePlace'
  <2>1. \A d : Has(AtLoaded, d) <=> d \in Searches(loaded)
    BY <1>2, HasAt DEF MaySend
  <2>2. \A d : ~Has(AtLoaded, d)'
    BY <1>4, NothingMatched, PlacesNext DEF PlacesHold, MaySend
  <2>3. OthersStay(AtLoaded, AtOp(FreeSlot)) /\ AtLoaded # AtOp(FreeSlot)
    BY <1>1, <1>3, PlacesDiffer DEF OthersStay
  <2> QED
    BY <1>1, <1>3, <2>1, <2>2, <2>3, SearchesSent DEF MsearchInv
<1> QED
  BY <1>3, <1>5, <1>6, <1>7, <1>8 DEF MsearchInv

LEMMA ResumeFlushKeeps ==
  ASSUME MsearchInv, NEW f \in Flush, M!ResumeFlush(f)
  PROVE  MsearchInv'
<1>1. /\ slots.at[f] \in {"ready", "immediate"} /\ slots' = Resumed(slots, f)
      /\ operations' = SentOps(copied[f]) /\ copied' = [copied EXCEPT ![f] = M!Nothing]
      /\ UNCHANGED <<iteration, queue, loaded, flushTimer, answers, options, asked, stop>>
  BY ResumeFlushDoes
<1>2. f \in Process /\ f # Loop /\ Matched(copied[f])
  BY Constants DEF MsearchInv, MsearchTyped
<1>3. /\ MsearchCounted' /\ slots'.at[f] = "none" /\ slots'.running = slots.running
      /\ \A q \in Process \ {f} : slots'.at[q] = slots.at[q]
      /\ operations' = [t \in Slot |-> operations'[t]]
      /\ \A t \in Slot : IsOperation(operations'[t])
      /\ FreeSlot \in Slot /\ Searches(operations[FreeSlot].batch) = {}
      /\ operations'[FreeSlot].batch = copied[f]
      /\ \A t \in Slot : t # FreeSlot => operations'[t] = operations[t]
  BY <1>1, <1>2, SendKeeps DEF MsearchInv
<1>4. /\ copied' = [g \in Flush |-> copied'[g]] /\ copied'[f] = M!Nothing
      /\ \A g \in Flush : g # f => copied'[g] = copied[g]
  <2>1. copied = [g \in Flush |-> copied[g]]
    BY DEF MsearchInv, MsearchTyped
  <2> QED
    BY <1>1, <2>1
<1>5. MsearchTyped'
  <2>1. \A g \in Flush : Matched(copied'[g])
    BY <1>4, NothingMatched DEF MsearchInv, MsearchTyped
  <2> QED
    BY <1>1, <1>3, <1>4, <2>1 DEF MsearchInv, MsearchTyped
<1>6. MsearchStands'
  BY <1>1, <1>2, <1>3, Constants DEF MsearchInv, MsearchStands, M!Over
<1>7. MsearchTidy'
  BY <1>3, <1>4 DEF MsearchInv, MsearchTidy, Flush
<1>8. OnePlace' /\ WereAsked' /\ SomePlace'
  <2>1. \A d : Has(AtCopy(f), d) <=> d \in Searches(copied[f])
    BY HasAt
  <2>2. \A d : ~Has(AtCopy(f), d)'
    BY <1>4, NothingMatched, PlacesNext DEF PlacesHold
  <2>3. MaySend' <=> MaySend
    BY <1>1 DEF MaySend
  <2>4. OthersStay(AtCopy(f), AtOp(FreeSlot)) /\ AtCopy(f) # AtOp(FreeSlot)
    BY <1>1, <1>3, <1>4, <2>3, PlacesDiffer DEF OthersStay
  <2> QED
    BY <1>1, <1>3, <2>1, <2>2, <2>4, SearchesSent DEF MsearchInv
<1> QED
  BY <1>3, <1>5, <1>6, <1>7, <1>8 DEF MsearchInv

\* The searches at the indices A, which have no answer, are each answered with the response to it.
LEMMA AnswersTold ==
  ASSUME MsearchTyped, NEW b, Matched(b), NEW A \in SUBSET DOMAIN b.callbacks,
         NEW outcome \in [DOMAIN b.callbacks -> Outcomes],
         \A i \in A : answers[b.callbacks[i]] = <<>>
  PROVE  LET z == TheirAnswers(b, A, outcome)
             D == {b.callbacks[i] : i \in A}
         IN  /\ z = [d \in M!Search |-> z[d]]
             /\ \A d \in M!Search : d \notin D => z[d] = answers[d]
             /\ \A d \in M!Search : d \in D => z[d] \in AnswersTo(d) /\ z[d] # <<>>
<1> DEFINE c == b.callbacks
           D == {c[i] : i \in A}
           z == TheirAnswers(b, A, outcome)
           Mine(d) == {i \in A : c[i] = d}
           One(d) == Reply(b, CHOOSE i \in Mine(d) : TRUE, outcome)
           More(d) == [k \in 1..Cardinality(Mine(d)) |-> One(d)]
<1>1. z = [d \in M!Search |-> answers[d] \o More(d)]
  BY Zenon DEF TheirAnswers
<1>2. /\ c \in Seq(M!Search) /\ DOMAIN c = 1..Len(c) /\ Len(c) \in Nat
      /\ \A i, j \in DOMAIN c : c[i] = c[j] => i = j
  BY DEF Matched, Distinct
<1> HIDE DEF z
<1>3. ASSUME NEW d \in M!Search, d \notin D PROVE z[d] = answers[d]
  <2>1. Mine(d) = {}
    BY <1>3
  <2>2. Cardinality(Mine(d)) = 0
    BY <2>1, FS_EmptySet
  <2>3. More(d) = <<>>
    <3> HIDE DEF Mine, One
    <3>1. 1..Cardinality(Mine(d)) = {}
      BY <2>2
    <3> QED
      BY <3>1
  <2>4. answers[d] \o <<>> = answers[d]
    <3> DEFINE L == {[of |-> d, outcome |-> o] : o \in Outcomes \cup {"stopped", "invalid"}}
    <3>1. answers[d] \in {<<>>} \cup {<<x>> : x \in L}
      BY DEF MsearchTyped, AnswersTo
    <3> HIDE DEF L
    <3>2. answers[d] \in Seq(L)
      <4>1. CASE answers[d] = <<>>
        BY <4>1
      <4>2. ASSUME NEW x \in L, answers[d] = <<x>> PROVE answers[d] \in Seq(L)
        BY <4>2
      <4> QED
        BY <3>1, <4>1, <4>2
    <3> QED
      BY <3>2
  <2> HIDE DEF More
  <2> QED
    BY <1>1, <2>3, <2>4
<1>4. ASSUME NEW d \in M!Search, d \in D PROVE z[d] \in AnswersTo(d) /\ z[d] # <<>>
  <2>1. PICK i \in A : c[i] = d
    BY <1>4
  <2>2. Mine(d) = {i}
    BY <1>2, <2>1
  <2>3. Cardinality(Mine(d)) = 1 /\ (CHOOSE j \in Mine(d) : TRUE) = i
    BY <2>2, FS_Singleton
  <2> DEFINE r == Reply(b, i, outcome)
  <2>4. More(d) = <<r>>
    <3>1. One(d) = r
      BY <2>3, Zenon
    <3> HIDE DEF r, One, Mine
    <3>2. More(d) = [k \in 1..1 |-> r]
      BY <2>3, <3>1
    <3> HIDE DEF More
    <3> QED
      BY <3>2
  <2>5. b.body[2 * i - 1].search = c[i]
    <3>1. b.body = LinesFor(c)
      BY DEF Matched, BatchOf
    <3>2. i \in 1..Len(c)
      BY <1>2
    <3>3. 2 * i - 1 \in 1..(2 * Len(c)) /\ (2 * i - 1 + 1) \div 2 = i
      BY <1>2, <3>2
    <3> QED
      BY <3>1, <3>3 DEF LinesFor
  <2>6. r = [of |-> d, outcome |-> outcome[i]] /\ outcome[i] \in Outcomes
    BY <2>1, <2>5 DEF Reply
  <2>7. answers[d] = <<>>
    BY <2>1
  <2> HIDE DEF r, More
  <2>8. z[d] = <<r>>
    BY <1>1, <2>4, <2>7
  <2> QED
    BY <2>6, <2>8 DEF AnswersTo
<1>5. z = [d \in M!Search |-> z[d]]
  BY <1>1
<1> QED
  BY <1>3, <1>4, <1>5 DEF z

\* The operation in slot s is changed.
LEMMA OneOperation ==
  ASSUME MsearchTyped, NEW s \in Slot, NEW o, IsOperation(o),
         operations' = [operations EXCEPT ![s] = o]
  PROVE  /\ operations' = [t \in Slot |-> operations'[t]] /\ operations'[s] = o
         /\ \A t \in Slot : t # s => operations'[t] = operations[t]
         /\ \A t \in Slot : IsOperation(operations'[t])
<1>1. operations = [t \in Slot |-> operations[t]]
  BY DEF MsearchTyped
<1>2. /\ operations' = [t \in Slot |-> operations'[t]] /\ operations'[s] = o
      /\ \A t \in Slot : t # s => operations'[t] = operations[t]
  BY <1>1
<1> QED
  BY <1>2 DEF MsearchTyped

LEMMA AnsweredKeeps ==
  ASSUME MsearchInv, NEW s \in Slot, M!Answered(s)
  PROVE  MsearchInv'
<1> DEFINE o == operations[s]
           b == o.batch
           c == b.callbacks
<1>1. /\ o.pc = "sent"
      /\ UNCHANGED <<queue, loaded, flushTimer, copied, options, asked, stop>>
  BY AnsweredDoes
<1>2. PICK outcome \in [DOMAIN c -> Outcomes] : \E I : Responds(s, outcome, I)
  BY AnsweredDoes
<1>3. PICK I : Responds(s, outcome, I)
  BY <1>2
<1> DEFINE A == DOMAIN c \ I
           D == {c[i] : i \in A}
<1>4. Matched(b) /\ IsOperation(o)
  BY DEF MsearchInv, MsearchTyped, IsOperation
<1>5. I \in SUBSET DOMAIN c
  BY <1>3 DEF Responds
<1>6. \A d \in D : d \in M!Search /\ Has(AtOp(s), d) /\ \A x : Has(x, d) => x = AtOp(s)
  <2>1. D \subseteq Searches(b) /\ Searches(b) \subseteq M!Search
    BY <1>4 DEF Searches, Range, Matched, Distinct
  <2> HIDE DEF D
  <2>2. \A d \in D : Has(AtOp(s), d)
    BY <2>1, HasAt
  <2> QED
    BY <2>1, <2>2 DEF MsearchInv, OnePlace
<1>7. \A i \in A : answers[c[i]] = <<>>
  <2>1. \A d \in D : answers[d] = <<>>
    <3> HIDE DEF D
    <3> QED
      BY <1>6, HasAt, PlacesDiffer
  <2> QED
    BY <2>1
<1>8. /\ answers' = [d \in M!Search |-> answers'[d]]
      /\ \A d \in M!Search : d \notin D => answers'[d] = answers[d]
      /\ \A d \in M!Search : d \in D => answers'[d] \in AnswersTo(d) /\ answers'[d] # <<>>
  <2>1. answers' = TheirAnswers(b, A, outcome)
    BY <1>3 DEF Responds
  <2>2. A \in SUBSET DOMAIN c
    OBVIOUS
  <2> HIDE DEF A
  <2> QED
    BY <1>4, <1>7, <2>1, <2>2, AnswersTold DEF MsearchInv
<1>9. \A d \in M!Search : answers'[d] \in AnswersTo(d)
  <2> HIDE DEF D
  <2> QED
    BY <1>8 DEF MsearchInv, MsearchTyped
<1>10. \A d : Has(AtAnswer, d)' <=> Has(AtAnswer, d) \/ d \in D
  <2>1. \A d : Has(AtAnswer, d)' <=> d \in M!Search /\ answers'[d] # <<>>
    BY PlacesNext DEF PlacesHold
  <2> HIDE DEF D
  <2> QED
    BY <1>6, <1>8, <2>1, HasAt
<1>11. 1..asked' = (1..asked) \cup D
  <2> HIDE DEF D
  <2> QED
    BY <1>1, <1>6 DEF MsearchInv, WereAsked
<1>12. ASSUME MaySend' <=> MaySend, \A t \in Slot : t # s => operations'[t] = operations[t],
              \A d : d \in Searches(operations'[s].batch) <=> d \in Searches(b) /\ d \notin D
       PROVE  OnePlace' /\ WereAsked' /\ SomePlace'
  <2> HIDE DEF D
  <2>1. \A d : Has(AtOp(s), d)' <=> Has(AtOp(s), d) /\ d \notin D
    BY <1>12, HasAt, PlacesNext DEF PlacesHold
  <2>2. OthersStay(AtOp(s), AtAnswer) /\ AtOp(s) # AtAnswer
    BY <1>1, <1>12, PlacesDiffer DEF OthersStay
  <2>3. \A d \in D : \A x : Has(x, d) => x = AtOp(s)
    BY <1>6
  <2> HIDE DEF b, c, o
  <2> QED
    BY <1>10, <1>11, <2>1, <2>2, <2>3, Relocated DEF MsearchInv
\* Some are kept for a retry.
<1>13. ASSUME I # {}, o.retries > 0, UNCHANGED <<iteration, slots>>,
              operations' = [operations EXCEPT ![s] =
                [pc      |-> "waiting",
                 batch   |-> M!Chosen(b, [n \in 1..Cardinality(I) |-> M!Nth(I, n)]),
                 retries |-> o.retries - 1]]
       PROVE  MsearchInv'
  <2> DEFINE kept == M!Chosen(b, [n \in 1..Cardinality(I) |-> M!Nth(I, n)])
             r == [pc |-> "waiting", batch |-> kept, retries |-> o.retries - 1]
  <2>1. Matched(kept) /\ Searches(kept) = {c[i] : i \in I}
    BY <1>4, <1>5, ChosenMatched
  <2> HIDE DEF kept
  <2>2. IsOperation(r)
    BY <1>4, <1>13, <2>1 DEF IsOperation
  <2>3. operations' = [operations EXCEPT ![s] = r]
    BY <1>13 DEF kept
  <2>4. r.pc = "waiting" /\ r.batch = kept
    OBVIOUS
  <2> HIDE DEF r
  <2>5. /\ operations' = [t \in Slot |-> operations'[t]] /\ operations'[s] = r
        /\ \A t \in Slot : t # s => operations'[t] = operations[t]
        /\ \A t \in Slot : IsOperation(operations'[t])
    BY <2>2, <2>3, OneOperation DEF MsearchInv
  <2>6. Busy(operations') = Busy(operations)
    BY <1>1, <2>4, <2>5 DEF Busy
  <2>7. MsearchCounted'
    BY <1>1, <1>13, <2>6, CountedSame DEF MsearchInv
  <2>8. MsearchTyped' /\ MsearchStands' /\ MsearchTidy'
    <3> HIDE DEF o, D
    <3> QED
      BY <1>1, <1>8, <1>9, <1>13, <2>5
         DEF MsearchInv, MsearchTyped, MsearchStands, MsearchTidy, M!Over
  <2>9. \A d : d \in Searches(kept) <=> d \in Searches(b) /\ d \notin D
    BY <1>4, <1>5, <2>1 DEF Searches, Range, Matched, Distinct
  <2>10. MaySend' <=> MaySend
    BY <1>13 DEF MaySend
  <2>11. OnePlace' /\ WereAsked' /\ SomePlace'
    <3> HIDE DEF D, o
    <3> QED
      BY <1>12, <2>4, <2>5, <2>9, <2>10
  <2> QED
    BY <2>7, <2>8, <2>11 DEF MsearchInv
\* All are answered, and the operation is over.
<1>14. ASSUME I = {}, slots' = Released(slots), operations' = [operations EXCEPT ![s] = M!Free],
              \/ iteration' = iteration
              \/ iteration = "finishing" /\ slots'.running = 0 /\ Settling
       PROVE  MsearchInv'
  <2>1. IsOperation(M!Free) /\ M!Free.pc = "free" /\ Searches(M!Free.batch) = {}
    BY NothingMatched DEF IsOperation, M!Free
  <2>2. /\ operations' = [t \in Slot |-> operations'[t]] /\ operations'[s] = M!Free
        /\ \A t \in Slot : t # s => operations'[t] = operations[t]
        /\ \A t \in Slot : IsOperation(operations'[t])
    BY <1>14, <2>1, OneOperation DEF MsearchInv
  <2>3. Busy(operations') = Busy(operations) \ {s} /\ s \in Busy(operations)
    BY <1>1, <2>1, <2>2 DEF Busy
  <2>4. /\ SemOk(slots') /\ Counts(slots', operations', 0) /\ slots'.running <= slots.running
        /\ slots.running \in Nat /\ slots'.running \in Nat
    BY <1>14, <2>3, ReleasedOk DEF MsearchInv, MsearchCounted, SemOk, SemaphoreType
  <2>5. /\ \A q \in Process : slots'.at[q] = "none" <=> slots.at[q] = "none"
        /\ Served(slots')
    <3>1. SemOk(slots) /\ Served(slots) /\ Loop \in Process
      BY Constants DEF MsearchInv, MsearchCounted
    <3> QED
      BY <1>14, <3>1, ReleasedAt
  <2>6. MsearchCounted'
    <3>1. slots'.running <= options.concurrency
      BY <2>4, Constants DEF MsearchInv, MsearchCounted
    <3> QED
      BY <1>1, <2>4, <2>5, <3>1 DEF MsearchCounted
  <2>7. \/ iteration' = iteration
        \/ iteration = "finishing" /\ iteration' \in {"resolved", "rejected"} /\ slots'.running = 0
    BY <1>14 DEF Settling
  <2>8. MsearchTyped'
    <3> HIDE DEF D
    <3> QED
      BY <1>1, <1>8, <1>9, <2>2, <2>7 DEF MsearchInv, MsearchTyped, M!Iterations
  <2>9. MsearchStands'
    <3>1. M!Over' => slots'.running = 0
      BY <2>4, <2>7 DEF MsearchInv, MsearchStands, M!Over
    <3>2. slots.at[Loop] # "none" <=> slots'.at[Loop] # "none"
      BY <2>5, Constants DEF MsearchInv
    <3> QED
      BY <1>1, <2>7, <3>1, <3>2 DEF MsearchInv, MsearchStands
  <2>10. MsearchTidy'
    BY <1>1, <2>5, Constants DEF MsearchInv, MsearchTidy
  <2>11. MaySend' <=> MaySend
    BY <2>7 DEF MaySend
  <2>12. D = Searches(b)
    BY <1>14 DEF Searches, Range
  <2>13. OnePlace' /\ WereAsked' /\ SomePlace'
    <3> HIDE DEF D, o
    <3> QED
      BY <1>12, <2>1, <2>2, <2>11, <2>12
  <2> QED
    BY <2>6, <2>8, <2>9, <2>10, <2>13 DEF MsearchInv
<1> QED
  BY <1>3, <1>13, <1>14 DEF Responds

LEMMA RetryKeeps ==
  ASSUME MsearchInv, NEW s \in Slot, M!Retry(s)
  PROVE  MsearchInv'
<1> DEFINE r == [operations[s] EXCEPT !.pc = "sent"]
<1>1. /\ operations[s].pc = "waiting" /\ operations' = [operations EXCEPT ![s] = r]
      /\ UNCHANGED <<iteration, queue, loaded, flushTimer, copied, slots, answers,
                     options, asked, stop>>
  BY RetryDoes
<1>2. IsOperation(r) /\ r.pc = "sent" /\ r.batch = operations[s].batch
  BY DEF MsearchInv, MsearchTyped, IsOperation
<1> HIDE DEF r
<1>3. /\ operations' = [t \in Slot |-> operations'[t]] /\ operations'[s] = r
      /\ \A t \in Slot : t # s => operations'[t] = operations[t]
      /\ \A t \in Slot : IsOperation(operations'[t])
  BY <1>1, <1>2, OneOperation DEF MsearchInv
<1>4. Busy(operations') = Busy(operations)
  BY <1>1, <1>2, <1>3 DEF Busy
<1>5. MsearchTyped' /\ MsearchStands' /\ MsearchTidy' /\ MsearchCounted'
  BY <1>1, <1>3, <1>4, CountedSame
     DEF MsearchInv, MsearchTyped, MsearchStands, MsearchTidy, M!Over
<1>6. MaySend' <=> MaySend
  BY <1>1 DEF MaySend
<1>7. OnePlace' /\ WereAsked' /\ SomePlace'
  BY <1>1, <1>2, <1>3, <1>6, PlacesStay DEF MsearchInv
<1> QED
  BY <1>5, <1>7 DEF MsearchInv

-----------------------------------------------------------------------------
\* The invariant holds, whichever helper the application uses.
LEMMA MsearchInit == M!Init => MsearchInv
<1> SUFFICES ASSUME M!Init PROVE MsearchInv
  OBVIOUS
<1>1. /\ options \in MsearchSettings /\ iteration = "reading" /\ asked = 0 /\ queue = <<>>
      /\ stop = "no" /\ loaded = M!Nothing /\ flushTimer = "armed"
      /\ copied = [f \in Flush |-> M!Nothing] /\ slots = Unused
      /\ operations = [s \in Slot |-> M!Free] /\ answers = [s \in M!Search |-> <<>>]
  BY SameSemaphore DEF M!Init
<1>2. IsOperation(M!Free) /\ M!Free.pc = "free" /\ Searches(M!Free.batch) = {}
  BY NothingMatched DEF IsOperation, M!Free
<1>3. MsearchTyped
  <2>1. 0 \in 0..MaxSearches
    BY MsearchConstants
  <2>2. Distinct(queue) /\ Matched(loaded)
    BY <1>1, NothingMatched DEF Matched, M!Nothing
  <2> QED
    BY <1>1, <1>2, <2>1, <2>2, NothingMatched DEF MsearchTyped, M!Iterations, AnswersTo
<1>4. /\ slots \in SemaphoreType /\ slots.running = 0 /\ slots.waiter = NoOne
      /\ \A p \in Process : slots.at[p] = "none"
  BY <1>1 DEF Unused, SemaphoreType, Places
<1>5. MsearchCounted
  <2>1. Busy(operations) = {} /\ Granted(slots) = {}
    BY <1>1, <1>2, <1>4 DEF Busy, Granted
  <2>2. Counts(slots, operations, 0)
    BY <1>4, <2>1, FS_EmptySet DEF Counts
  <2>3. slots.running <= options.concurrency
    BY <1>3, <1>4, Constants
  <2> QED
    BY <1>4, <2>2, <2>3 DEF MsearchCounted, SemOk, Served
<1>6. MsearchStands /\ MsearchTidy
  BY <1>1, <1>4, Constants, <1>3 DEF MsearchStands, MsearchTidy, M!Over
<1>7. \A x, d : ~Has(x, d)
  <2>1. \A d : ~Has(AtQueue, d) /\ ~Has(AtAnswer, d) /\ ~Has(AtLoaded, d)
    BY <1>1, HasAt, NothingMatched DEF Range
  <2>2. \A d : \A f \in Flush : ~Has(AtCopy(f), d)
    BY <1>1, HasAt, NothingMatched
  <2>3. \A d : \A t \in Slot : ~Has(AtOp(t), d)
    BY <1>1, <1>2, HasAt
  <2> QED
    BY <2>1, <2>2, <2>3, HasSomewhere, ZenonT(30) DEF Somewhere
<1>8. OnePlace /\ WereAsked /\ SomePlace
  BY <1>1, <1>7 DEF OnePlace, WereAsked, SomePlace
<1> QED
  BY <1>3, <1>5, <1>6, <1>8 DEF MsearchInv

LEMMA MsearchStep == MsearchInv /\ M!Next => MsearchInv'
<1> SUFFICES ASSUME MsearchInv, M!Next PROVE MsearchInv'
  OBVIOUS
<1>1. ASSUME NEW valid, M!CallSearch(valid) PROVE MsearchInv'
  BY <1>1, CallSearchKeeps
<1>2. ASSUME NEW how \in {"plain", "error"}, M!Stop(how) PROVE MsearchInv'
  BY <1>2, StopKeeps
<1>3. CASE M!Read
  BY <1>3, ReadKeeps
<1>4. CASE M!EndOfStream
  BY <1>4, EndOfStreamKeeps
<1>5. CASE M!FlushTimeout
  BY <1>5, FlushTimeoutKeeps
<1>6. CASE M!ResumeLoop
  BY <1>6, ResumeLoopKeeps
<1>7. ASSUME NEW f \in M!Flush, M!ResumeFlush(f) PROVE MsearchInv'
  BY <1>7, SameSemaphore, ResumeFlushKeeps
<1>8. ASSUME NEW s \in Slot, M!Answered(s) PROVE MsearchInv'
  BY <1>8, AnsweredKeeps
<1>9. ASSUME NEW s \in Slot, M!Retry(s) PROVE MsearchInv'
  BY <1>9, RetryKeeps
<1> QED
  BY <1>1, <1>2, <1>3, <1>4, <1>5, <1>6, <1>7, <1>8, <1>9 DEF M!Next

\* A step that the helper has no part in.
LEMMA MsearchStutter == MsearchInv /\ UNCHANGED msearchVars => MsearchInv'
<1> SUFFICES ASSUME MsearchInv, UNCHANGED msearchVars PROVE MsearchInv'
  OBVIOUS
<1>1. UNCHANGED <<options, iteration, asked, queue, stop, loaded, flushTimer, copied, slots,
                  operations, answers>>
  BY DEF msearchVars
<1>2. MsearchTyped' /\ MsearchStands' /\ MsearchTidy' /\ MsearchCounted'
  BY <1>1, CountedSame
     DEF MsearchInv, MsearchTyped, MsearchStands, MsearchTidy, M!Over
<1>3. MaySend' <=> MaySend
  BY <1>1 DEF MaySend
<1>4. OnePlace' /\ WereAsked' /\ SomePlace'
  BY <1>1, <1>3, PlacesStay DEF MsearchInv
<1> QED
  BY <1>2, <1>4 DEF MsearchInv

LEMMA MsearchSteps == [HelpersNext]_allVars => M!Next \/ UNCHANGED msearchVars
  BY Zenon DEF HelpersNext, InBulk, InMsearch, InScroll, allVars

LEMMA MsearchKept == HelpersSpec => []MsearchInv
<1>1. HelpersInit => MsearchInv
  BY MsearchInit DEF HelpersInit
<1>2. MsearchInv /\ [HelpersNext]_allVars => MsearchInv'
  BY MsearchSteps, MsearchStep, MsearchStutter
<1> QED
  BY <1>1, <1>2, PTL DEF HelpersSpec

\* Never are more operations of the multi search helper under way than its concurrency allows,
\* and none when its promise is settled.
SearchingBounded ==
  /\ Cardinality(Busy(operations)) <= options.concurrency
  /\ M!Over => Busy(operations) = {}

THEOREM SearchingIsBounded == HelpersSpec => []SearchingBounded
<1>1. MsearchInv => SearchingBounded
  <2> SUFFICES ASSUME MsearchInv PROVE SearchingBounded
    OBVIOUS
  <2>1. /\ Cardinality(Busy(operations)) \in Nat /\ Cardinality(Granted(slots)) \in Nat
        /\ Cardinality(Busy(operations)) = 0 => Busy(operations) = {}
    BY Finite, FS_EmptySet
  <2>2. /\ slots.running = Cardinality(Busy(operations)) + Cardinality(Granted(slots))
        /\ slots.running <= options.concurrency /\ (M!Over => slots.running = 0)
        /\ options.concurrency \in Nat /\ slots.running \in Nat
    BY <2>1, Constants DEF MsearchInv, MsearchCounted, MsearchStands, Counts, SemOk, SemaphoreType
  <2> QED
    BY <2>1, <2>2 DEF SearchingBounded
<1> QED
  BY <1>1, MsearchKept, PTL

\* No step of the multi search helper loses a search or has it twice: each that was asked is in the
\* stream, loaded, taken by a flush, in an operation, or answered, and in one of these only.
THEOREM SearchesApart == HelpersSpec => [](OnePlace /\ SomePlace)
<1>1. MsearchInv => OnePlace /\ SomePlace
  BY DEF MsearchInv
<1> QED
  BY <1>1, MsearchKept, PTL

\* A search of the multi search helper is answered once, with the response to itself: whatever full
\* bodies, flushes, retries and stop() make of the order of the searches, and with any number of
\* operations at a time.
THEOREM AnswersAreOwn == HelpersSpec => []OwnAnswer
<1>1. MsearchInv => OwnAnswer
  <2> SUFFICES ASSUME MsearchInv, NEW s \in M!Search
               PROVE  /\ Len(answers[s]) <= 1
                      /\ \A k \in DOMAIN answers[s] : answers[s][k].of = s
    BY DEF OwnAnswer, M!OwnAnswer
  <2>1. answers[s] \in AnswersTo(s)
    BY DEF MsearchInv, MsearchTyped
  <2>2. CASE answers[s] = <<>>
    BY <2>2
  <2>3. ASSUME NEW o, answers[s] = <<[of |-> s, outcome |-> o]>>
        PROVE  /\ Len(answers[s]) <= 1
               /\ \A k \in DOMAIN answers[s] : answers[s][k].of = s
    BY <2>3
  <2> QED
    BY <2>1, <2>2, <2>3 DEF AnswersTo
<1> QED
  BY <1>1, MsearchKept, PTL

\* Nobody who waits for the semaphore of the multi search helper has been displaced.
NobodyReplaced == \A p \in Process : slots.at[p] = "queued" => slots.waiter = p

LEMMA OverIsServed == MsearchInv /\ NobodyReplaced => NoneForgotten
<1> SUFFICES ASSUME MsearchInv, NobodyReplaced, M!Over, NEW s \in 1..asked PROVE answers[s] # <<>>
  BY DEF NoneForgotten, M!NoneForgotten
<1>1. slots.running = 0 /\ SemOk(slots) /\ Served(slots) /\ Counts(slots, operations, 0)
  BY DEF MsearchInv, MsearchStands, MsearchCounted
<1>2. Granted(slots) = {} /\ Busy(operations) = {}
  BY <1>1, Finite, FS_EmptySet DEF Counts
<1>3. \A p \in Process : slots.at[p] = "none"
  <2>1. slots.waiter = NoOne
    BY <1>1 DEF Served
  <2>2. slots.at \in [Process -> Places]
    BY <1>1 DEF SemOk, SemaphoreType
  <2> SUFFICES ASSUME NEW p \in Process PROVE slots.at[p] = "none"
    OBVIOUS
  <2>3. slots.at[p] # "queued"
    BY <2>1, ProcessAssumption DEF NobodyReplaced
  <2>4. slots.at[p] \notin {"immediate", "ready"}
    BY <1>2 DEF Granted
  <2> QED
    BY <2>2, <2>3, <2>4 DEF Places
<1>4. \A x : ~Somewhere(x) \/ x = AtAnswer \/ ~Has(x, s)
  <2>1. ~Has(AtQueue, s) /\ ~Has(AtLoaded, s)
    BY HasAt DEF MsearchInv, MsearchStands, M!Over, MaySend, Range
  <2>2. \A f \in Flush : ~Has(AtCopy(f), s)
    <3>1. \A f \in Flush : copied[f] = M!Nothing
      BY <1>3, Constants DEF MsearchInv, MsearchTidy
    <3> QED
      BY <3>1, HasAt, NothingMatched
  <2>3. \A t \in Slot : ~Has(AtOp(t), s)
    BY <1>2, HasAt, NothingMatched DEF MsearchInv, MsearchTyped, IsOperation, Busy
  <2> QED
    BY <2>1, <2>2, <2>3, ZenonT(30) DEF Somewhere
<1>5. Has(AtAnswer, s)
  BY <1>4, HasSomewhere DEF MsearchInv, SomePlace
<1> QED
  BY <1>5, HasAt

\* When the promise of the multi search helper is settled, every search asked before was answered:
\* unless a call of semaphore() has displaced another, whose searches are then never sent.
THEOREM SearchesAnswered == HelpersSpec => [](NobodyReplaced => NoneForgotten)
BY MsearchKept, OverIsServed, PTL

\* While the flush interval does not elapse, iterate() alone asks for slots.
FlushesIdle == ~options.interval => \A f \in Flush : slots.at[f] = "none"

\* What happens to the semaphore in a step.
LEMMA SlotsStep ==
  ASSUME M!Next
  PROVE  /\ options' = options
         /\ \/ slots' = slots
            \/ slots' = Acquired(slots, Loop, options.concurrency)
            \/ options.interval
            \/ slots' = Released(slots)
            \/ slots' = Resumed(slots, Loop)
            \/ \E f \in Flush : slots.at[f] # "none"
<1> DEFINE Goal == /\ options' = options
                   /\ \/ slots' = slots
                      \/ slots' = Acquired(slots, Loop, options.concurrency)
                      \/ options.interval
                      \/ slots' = Released(slots)
                      \/ slots' = Resumed(slots, Loop)
                      \/ \E f \in Flush : slots.at[f] # "none"
<1>1. ASSUME NEW valid, M!CallSearch(valid) PROVE Goal
  BY <1>1, CallSearchDoes
<1>2. ASSUME NEW how, M!Stop(how) PROVE Goal
  BY <1>2 DEF M!Stop
<1>3. M!Read => Goal
  BY ReadDoes
<1>4. M!EndOfStream => Goal
  BY EndOfStreamDoes
<1>5. M!FlushTimeout => Goal
  BY FlushTimeoutDoesMsearch
<1>6. M!ResumeLoop => Goal
  BY ResumeLoopDoes
<1>7. ASSUME NEW f \in M!Flush, M!ResumeFlush(f) PROVE Goal
  BY <1>7, SameSemaphore, ResumeFlushDoes
<1>8. ASSUME NEW s \in Slot, M!Answered(s) PROVE Goal
  BY <1>8, AnsweredDoes DEF Responds
<1>9. ASSUME NEW s \in Slot, M!Retry(s) PROVE Goal
  BY <1>9, RetryDoes
<1> HIDE DEF Goal
<1>10. Goal
  BY <1>1, <1>2, <1>3, <1>4, <1>5, <1>6, <1>7, <1>8, <1>9 DEF M!Next
<1> QED
  BY <1>10 DEF Goal

LEMMA IdleStep == MsearchInv /\ FlushesIdle /\ [HelpersNext]_allVars => FlushesIdle'
<1> SUFFICES ASSUME MsearchInv, FlushesIdle, [HelpersNext]_allVars, ~options'.interval,
                    NEW f \in Flush
             PROVE  slots'.at[f] = "none"
  BY DEF FlushesIdle
<1>1. /\ SemOk(slots) /\ f \in Process /\ f # Loop /\ Loop \in Process
      /\ options.concurrency \in Nat \ {0}
  BY Constants DEF MsearchInv, MsearchCounted
<1>2. CASE M!Next
  <2>1. options' = options /\ ~options.interval /\ \A g \in Flush : slots.at[g] = "none"
    BY <1>2, SlotsStep DEF FlushesIdle
  <2>2. \/ slots' = slots
        \/ slots' = Acquired(slots, Loop, options.concurrency)
        \/ slots' = Released(slots)
        \/ slots' = Resumed(slots, Loop)
    BY <1>2, <2>1, SlotsStep
  <2> QED
    BY <1>1, <2>1, <2>2, AcquiredAt, ReleasedAt, ResumedAt
<1>3. CASE UNCHANGED msearchVars
  BY <1>3 DEF msearchVars, FlushesIdle
<1> QED
  BY <1>2, <1>3, MsearchSteps

\* Then none is forgotten, with any concurrency.
THEOREM AnsweredWithoutFlush ==
  ASSUME \A o \in MsearchSettings : ~o.interval
  PROVE  HelpersSpec => []NoneForgotten
<1>1. HelpersInit => FlushesIdle
  <2> SUFFICES ASSUME M!Init, NEW f \in Flush PROVE slots.at[f] = "none"
    BY DEF HelpersInit, FlushesIdle
  <2>1. slots = Unused /\ f \in Process
    BY SameSemaphore DEF M!Init, Flush
  <2> QED
    BY <2>1 DEF Unused
<1>2. MsearchInv /\ FlushesIdle => NoneForgotten
  <2> SUFFICES ASSUME MsearchInv, FlushesIdle, M!Over PROVE NobodyReplaced
    BY OverIsServed DEF NoneForgotten, M!NoneForgotten
  <2>1. options \in MsearchSettings /\ slots.at[Loop] = "none"
    BY DEF MsearchInv, MsearchTyped, MsearchStands, M!Over
  <2> QED
    BY <2>1 DEF NobodyReplaced, FlushesIdle, Flush
<1> QED
  BY <1>1, <1>2, IdleStep, MsearchKept, PTL DEF HelpersSpec
=============================================================================
