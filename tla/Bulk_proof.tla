----------------------------- MODULE Bulk_proof -----------------------------
(***************************************************************************)
(* Proofs about the bulk helper, for any number of documents, concurrency  *)
(* and calls of onFlushTimeout.  In this order:                            *)
(*   - the semaphore counts right, and a helper that has resolved is quiet *)
(*     (Counted is the inductive invariant);                               *)
(*   - ranks of finite sets of numbers, for the walk over the items of a   *)
(*     response;                                                           *)
(*   - what each action does, in terms of the state before and after       *)
(*     (Effects), and that every variable has its type (Sound);            *)
(*   - where the documents are: without deletes, each is in one place, and *)
(*     none is lost while nobody is displaced (Kept).                      *)
(***************************************************************************)
EXTENDS Bulk, Integers, FiniteSetTheorems, TLAPS

Busy(ops_) == {s \in Slot : ops_[s].pc # "free"}

IsOp(o) == o = [pc |-> o.pc, body |-> o.body, retries |-> o.retries]
IsOps(ops_) == ops_ = [s \in Slot |-> ops_[s]] /\ \A s \in Slot : IsOp(ops_[s])

\* The state record of Bulk.
Fields == {"loop", "source", "body", "timer", "copy", "sem", "shouldAbort", "error", "ops", "stats"}
IsState(S) == S = [x \in Fields |-> S[x]]

\* The one who waits is queued; who was displaced is queued too.
SemOk(s) == s \in SemaphoreType /\ (s.waiter # NoOne => s.at[s.waiter] = "queued")

\* The slots granted and the operations under way, with `extra` in between.
Counts(s, ops_, extra) == s.running = Cardinality(Busy(ops_)) + Cardinality(Granted(s)) + extra

Limit == setting.concurrency

\* Where the loop stands, who it waits for, and what it has seen to.
LoopOk(S) ==
  /\ S.sem.at[Loop] # "none" => S.loop \in {"flushing", "flushingLast", "crashed"}
  /\ S.loop \in {"flushingLast", "finishing", "refreshing", "resolved"} => S.timer = "cleared"
  /\ S.loop \in {"refreshing", "resolved"} => S.sem.running = 0 /\ ~S.error

\* A handler runs; `extra` is 1 while the slot of a process that resumed is not used yet.
Ready(S, extra) ==
  /\ IsState(S) /\ IsOps(S.ops) /\ SemOk(S.sem) /\ LoopOk(S)
  /\ Counts(S.sem, S.ops, extra) /\ S.sem.running <= Limit

Good(S) == Ready(S, 0)

-----------------------------------------------------------------------------
LEMMA Finite ==
  ASSUME NEW s, NEW ops_
  PROVE  /\ IsFiniteSet(Granted(s)) /\ Cardinality(Granted(s)) \in Nat
         /\ IsFiniteSet(Busy(ops_)) /\ Cardinality(Busy(ops_)) \in Nat
BY BulkAssumption, FS_Subset, FS_CardinalityType DEF Granted, Busy

\* semaphore() by one who has no slot: it is given one, or waits.
LEMMA AcquiredOk ==
  ASSUME NEW s, SemOk(s), NEW ops_, NEW p \in Process, s.at[p] = "none",
         NEW n \in Nat, Counts(s, ops_, 0), s.running <= n
  PROVE  LET t == Acquired(s, p, n)
         IN  SemOk(t) /\ Counts(t, ops_, 0) /\ t.running <= n
             /\ \A q \in Process \ {p} : t.at[q] = s.at[q]
<1> DEFINE t == Acquired(s, p, n)
<1>1. s \in SemaphoreType /\ s.at \in [Process -> Places] /\ s.running \in Nat
  BY DEF SemOk, SemaphoreType
<1>2. CASE s.running < n
  <2>1. /\ t.running = s.running + 1 /\ t.waiter = s.waiter
        /\ t.at = [s.at EXCEPT ![p] = "immediate"] /\ t \in SemaphoreType
    <3>1. t = [s EXCEPT !.running = s.running + 1, !.at = [s.at EXCEPT ![p] = "immediate"]]
      BY <1>1, <1>2 DEF Acquired, SemaphoreType
    <3>2. s.running + 1 \in Nat /\ [s.at EXCEPT ![p] = "immediate"] \in [Process -> Places]
      BY <1>1 DEF Places
    <3> HIDE DEF t
    <3> QED
      BY <1>1, <3>1, <3>2 DEF SemaphoreType
  <2> HIDE DEF t
  <2>2. Granted(t) = Granted(s) \cup {p} /\ p \notin Granted(s)
    BY <1>1, <2>1 DEF Granted
  <2>3. Cardinality(Granted(t)) = Cardinality(Granted(s)) + 1
    BY <2>2, Finite, FS_AddElement
  <2>4. Counts(t, ops_, 0)
    BY <1>1, <2>1, <2>3, Finite DEF Counts
  <2>5. SemOk(t)
    BY <1>1, <2>1, ProcessAssumption DEF SemOk, SemaphoreType
  <2> QED
    BY <1>1, <1>2, <2>1, <2>4, <2>5 DEF t
<1>3. CASE ~(s.running < n)
  <2>1. /\ t.running = s.running /\ t.waiter = p
        /\ t.at = [s.at EXCEPT ![p] = "queued"] /\ t \in SemaphoreType
    BY <1>1, <1>3 DEF Acquired, SemaphoreType, Places
  <2> HIDE DEF t
  <2>2. Granted(t) = Granted(s)
    BY <1>1, <2>1 DEF Granted
  <2>3. SemOk(t) /\ Counts(t, ops_, 0)
    BY <1>1, <2>1, <2>2 DEF SemOk, Counts
  <2> QED
    BY <1>1, <2>1, <2>3 DEF t
<1> QED
  BY <1>2, <1>3

\* Whoever resumes with a slot has it for the operation to come.
LEMMA ResumedOk ==
  ASSUME NEW s, SemOk(s), NEW ops_, NEW p \in Granted(s), Counts(s, ops_, 0)
  PROVE  LET t == Resumed(s, p)
         IN  SemOk(t) /\ Counts(t, ops_, 1) /\ t.running = s.running /\ t.at[p] = "none"
             /\ \A q \in Process \ {p} : t.at[q] = s.at[q]
<1> DEFINE t == Resumed(s, p)
<1>1. s \in SemaphoreType /\ s.at \in [Process -> Places] /\ s.running \in Nat /\ p \in Process
  BY DEF SemOk, SemaphoreType, Granted
<1>2. /\ t.running = s.running /\ t.waiter = s.waiter
      /\ t.at = [s.at EXCEPT ![p] = "none"] /\ t \in SemaphoreType
  BY <1>1 DEF Resumed, SemaphoreType, Places
<1> HIDE DEF t
<1>3. Granted(t) = Granted(s) \ {p}
  BY <1>1, <1>2 DEF Granted
<1>4. Cardinality(Granted(t)) = Cardinality(Granted(s)) - 1
  BY <1>3, Finite, FS_RemoveElement
<1>5. Counts(t, ops_, 1)
  BY <1>1, <1>2, <1>4, Finite DEF Counts
<1>6. SemOk(t)
  BY <1>1, <1>2 DEF SemOk, Granted
<1> QED
  BY <1>1, <1>2, <1>5, <1>6 DEF t

\* An operation is over: there is one less, or the waiter has its slot.
LEMMA ReleasedOk ==
  ASSUME NEW s, SemOk(s), NEW ops_, NEW ops2, Counts(s, ops_, 0),
         NEW o \in Busy(ops_), Busy(ops2) = Busy(ops_) \ {o}
  PROVE  LET t == Released(s)
         IN  SemOk(t) /\ Counts(t, ops2, 0) /\ t.running <= s.running
             /\ \A q \in Process : t.at[q] = s.at[q] \/ s.at[q] = "queued"
<1> DEFINE t == Released(s)
<1>1. s \in SemaphoreType /\ s.at \in [Process -> Places] /\ s.running \in Nat
      /\ s.waiter \in Process \cup {NoOne}
  BY DEF SemOk, SemaphoreType
<1>2. Cardinality(Busy(ops2)) = Cardinality(Busy(ops_)) - 1
  BY Finite, FS_RemoveElement
<1>3. Cardinality(Busy(ops_)) > 0
  BY Finite, FS_EmptySet
<1>4. s.running >= 1
  BY <1>1, <1>3, Finite DEF Counts
<1>5. CASE s.waiter = NoOne
  <2>1. /\ t.running = s.running - 1 /\ t.waiter = NoOne /\ t.at = s.at /\ t \in SemaphoreType
    BY <1>1, <1>4, <1>5 DEF Released, SemaphoreType
  <2> HIDE DEF t
  <2>2. Granted(t) = Granted(s)
    BY <2>1 DEF Granted
  <2>3. Counts(t, ops2, 0) /\ SemOk(t)
    BY <1>1, <1>2, <2>1, <2>2, Finite DEF Counts, SemOk
  <2> QED
    BY <1>1, <2>1, <2>3 DEF t
<1>6. CASE s.waiter # NoOne
  <2>1. s.waiter \in Process /\ s.at[s.waiter] = "queued"
    BY <1>1, <1>6 DEF SemOk
  <2>2. /\ t.running = s.running /\ t.waiter = NoOne
        /\ t.at = [s.at EXCEPT ![s.waiter] = "ready"] /\ t \in SemaphoreType
    BY <1>1, <1>6, <2>1 DEF Released, SemaphoreType, Places
  <2> HIDE DEF t
  <2>3. Granted(t) = Granted(s) \cup {s.waiter} /\ s.waiter \notin Granted(s)
    BY <1>1, <2>1, <2>2 DEF Granted
  <2>4. Cardinality(Granted(t)) = Cardinality(Granted(s)) + 1
    BY <2>3, Finite, FS_AddElement
  <2>5. Counts(t, ops2, 0) /\ SemOk(t)
    BY <1>1, <1>2, <2>2, <2>4, Finite DEF Counts, SemOk
  <2> QED
    BY <1>1, <2>1, <2>2, <2>5 DEF t
<1> QED
  BY <1>5, <1>6

-----------------------------------------------------------------------------
LEMMA ConcurrencyNat ==
  ASSUME setting \in Settings
  PROVE  Limit \in Nat
BY BulkAssumption DEF Limit, SettingType

LEMMA WithOp ==
  ASSUME NEW ops_, IsOps(ops_), NEW s \in Slot, NEW o, IsOp(o)
  PROVE  LET ops2 == [ops_ EXCEPT ![s] = o]
         IN  /\ IsOps(ops2)
             /\ Busy(ops2) = IF o.pc = "free" THEN Busy(ops_) \ {s} ELSE Busy(ops_) \cup {s}
<1> DEFINE ops2 == [ops_ EXCEPT ![s] = o]
<1>1. ops2 = [t \in Slot |-> IF t = s THEN o ELSE ops_[t]]
  BY DEF IsOps
<1>2. ops2[s] = o /\ \A t \in Slot \ {s} : ops2[t] = ops_[t]
  BY <1>1
<1>3. ops2 = [t \in Slot |-> ops2[t]]
  BY <1>1
<1> HIDE DEF ops2
<1>4. IsOps(ops2)
  BY <1>2, <1>3 DEF IsOps
<1>5. Busy(ops2) = IF o.pc = "free" THEN Busy(ops_) \ {s} ELSE Busy(ops_) \cup {s}
  BY <1>2 DEF Busy
<1> QED
  BY <1>4, <1>5 DEF ops2

\* finish() has nothing to wait for.
LEMMA SettleGood ==
  ASSUME NEW S, Good(S), S.timer = "cleared", S.sem.running = 0, S.sem.at[Loop] = "none"
  PROVE  Good(Settle(S))
<1> DEFINE end == IF S.error THEN "rejected"
                  ELSE IF setting.refresh THEN "refreshing" ELSE "resolved"
           T == [S EXCEPT !.loop = end]
<1>1. Settle(S) = T
  BY DEF Settle
<1>2. (end = "rejected" \/ ~S.error) /\ end \in {"rejected", "refreshing", "resolved"}
  OBVIOUS
<1> HIDE DEF end
<1>3. IsState(T) /\ T.sem = S.sem /\ T.ops = S.ops /\ T.timer = S.timer /\ T.error = S.error
      /\ T.loop = end
  BY DEF Good, Ready, IsState, Fields
<1> QED
  BY <1>1, <1>2, <1>3 DEF Good, Ready, LoopOk

LEMMA FinishGood ==
  ASSUME NEW S, Good(S), S.timer = "cleared", S.sem.at[Loop] = "none"
  PROVE  Good(Finish(S))
<1> DEFINE T == [S EXCEPT !.loop = "finishing"]
<1>1. IsState(T) /\ T.sem = S.sem /\ T.ops = S.ops /\ T.timer = S.timer /\ T.error = S.error
      /\ T.loop = "finishing"
  BY DEF Good, Ready, IsState, Fields
<1>2. Good(T)
  BY <1>1 DEF Good, Ready, LoopOk
<1> QED
  BY <1>2, SettleGood DEF Finish

\* What a handler leaves as it is, unless the loop waits for the last operation.
Steady(S, T) ==
  /\ \A q \in Process : T.sem.at[q] = S.sem.at[q] \/ S.sem.at[q] = "queued"
  /\ T.timer = S.timer
  /\ S.loop # "finishing" => T.loop = S.loop

LEMMA OperationEndedGood ==
  ASSUME setting \in Settings, NEW S, Good(S), NEW s \in Busy(S.ops), NEW failed
  PROVE  Good(OperationEnded(S, s, failed)) /\ Steady(S, OperationEnded(S, s, failed))
<1> DEFINE ops2 == [S.ops EXCEPT ![s] = Free]
           error2 == S.error \/ failed
           abort2 == S.shouldAbort \/ failed
           T == [S EXCEPT !.ops = ops2, !.shouldAbort = abort2, !.error = error2,
                          !.sem = Released(@)]
<1>1. OperationEnded(S, s, failed) =
        IF S.sem.waiter = NoOne /\ S.loop = "finishing" /\ T.sem.running = 0 THEN Settle(T) ELSE T
  <2>1. [S EXCEPT !.ops[s] = Free, !.shouldAbort = @ \/ failed, !.error = @ \/ failed,
                  !.sem = Released(@)] = T
    BY Zenon DEF Good, Ready, IsState, Fields
  <2> HIDE DEF T
  <2> QED
    BY <2>1 DEF OperationEnded
<1>2. s \in Slot /\ IsOp(Free) /\ Free.pc = "free"
  BY DEF Busy, IsOp, Free
<1>3. IsOps(ops2) /\ Busy(ops2) = Busy(S.ops) \ {s}
  BY <1>2, WithOp DEF Good, Ready
<1> HIDE DEF ops2, error2, abort2
<1>4. IsState(T) /\ T.ops = ops2 /\ T.sem = Released(S.sem) /\ T.timer = S.timer
      /\ T.loop = S.loop /\ T.error = error2
  BY DEF Good, Ready, IsState, Fields
<1> HIDE DEF T
<1>5. /\ SemOk(T.sem) /\ Counts(T.sem, T.ops, 0) /\ T.sem.running <= S.sem.running
      /\ \A q \in Process : T.sem.at[q] = S.sem.at[q] \/ S.sem.at[q] = "queued"
  BY <1>3, <1>4, ReleasedOk DEF Good, Ready
<1>6. S.sem.running # 0
  <2>1. Cardinality(Busy(S.ops)) > 0
    BY Finite, FS_EmptySet
  <2> QED
    BY <2>1, Finite DEF Good, Ready, Counts
<1>7. LoopOk(T)
  BY <1>4, <1>5, <1>6, BulkAssumption DEF Good, Ready, LoopOk
<1>8. T.sem.running <= Limit
  BY <1>5, ConcurrencyNat DEF Good, Ready, SemOk, SemaphoreType
<1>9. Good(T) /\ Steady(S, T)
  BY <1>3, <1>4, <1>5, <1>7, <1>8 DEF Good, Ready, Steady
<1>10. CASE ~(S.sem.waiter = NoOne /\ S.loop = "finishing" /\ T.sem.running = 0)
  BY <1>1, <1>9, <1>10
<1>11. CASE S.sem.waiter = NoOne /\ S.loop = "finishing" /\ T.sem.running = 0
  <2>1. T.timer = "cleared" /\ S.sem.at[Loop] = "none"
    BY <1>4, <1>11, BulkAssumption DEF Good, Ready, LoopOk
  <2>2. T.sem.at[Loop] = "none"
    BY <1>5, <2>1, BulkAssumption
  <2>3. Good(Settle(T))
    BY <1>9, <1>11, <2>1, <2>2, SettleGood
  <2>4. Settle(T).sem = T.sem /\ Settle(T).timer = T.timer
    BY <1>4 DEF Settle, IsState, Fields
  <2> QED
    BY <1>1, <1>9, <1>11, <2>3, <2>4 DEF Steady
<1> QED
  BY <1>10, <1>11

\* A change of the fields the invariant does not look at.
Alike(S, T) ==
  /\ IsState(T) /\ T.loop = S.loop /\ T.timer = S.timer
  /\ T.sem = S.sem /\ T.error = S.error /\ T.ops = S.ops

LEMMA AlikeGood ==
  ASSUME NEW S, NEW T, NEW n, Alike(S, T), Ready(S, n)
  PROVE  Ready(T, n)
BY DEF Alike, Ready, LoopOk

\* A process that resumed finds a slot that is free.
LEMMA SlotFound ==
  ASSUME setting \in Settings, NEW S, Ready(S, 1)
  PROVE  LET s == CHOOSE s \in FreeSlots(S) : TRUE
         IN  s \in Slot /\ s \notin Busy(S.ops)
<1>1. Cardinality(Busy(S.ops)) < Cardinality(Slot)
  <2>1. S.sem.running \in Nat /\ Limit < Cardinality(Slot)
    BY BulkAssumption DEF Ready, SemOk, SemaphoreType, Limit
  <2>2. IsFiniteSet(Slot) /\ Cardinality(Slot) \in Nat
    BY BulkAssumption, FS_CardinalityType
  <2> QED
    BY <2>1, <2>2, Finite, ConcurrencyNat DEF Ready, Counts
<1>2. Busy(S.ops) \subseteq Slot
  BY DEF Busy
<1>3. Cardinality(Slot) \in Nat
  BY BulkAssumption, FS_CardinalityType
<1>4. Busy(S.ops) # Slot
  BY <1>1, <1>3
<1>5. FreeSlots(S) = Slot \ Busy(S.ops)
  BY DEF FreeSlots, Busy
<1>6. FreeSlots(S) # {}
  BY <1>2, <1>4, <1>5
<1> DEFINE s == CHOOSE s \in FreeSlots(S) : TRUE
<1>7. s \in FreeSlots(S)
  BY <1>6
<1> HIDE DEF s
<1>8. s \in Slot /\ s \notin Busy(S.ops)
  BY <1>5, <1>7
<1> QED
  BY <1>8 DEF s

\* send() in the slot just given: there is room for one more operation.
LEMMA SendGood ==
  ASSUME setting \in Settings, NEW S, Ready(S, 1), NEW b
  PROVE  Good(Send(S, b)) /\ Steady(S, Send(S, b))
<1> DEFINE s == CHOOSE s \in FreeSlots(S) : TRUE
           o == [pc |-> "sent", body |-> b, retries |-> setting.retries]
           ops2 == [S.ops EXCEPT ![s] = o]
           T == [S EXCEPT !.ops = ops2]
<1>1. s \in Slot /\ s \notin Busy(S.ops)
  BY SlotFound
<1>2. Send(S, b) = IF S.shouldAbort THEN OperationEnded(T, s, FALSE) ELSE T
  BY DEF Send
<1>3. IsOp(o) /\ o.pc # "free"
  BY DEF IsOp
<1> HIDE DEF s, o
<1>4. IsOps(ops2) /\ Busy(ops2) = Busy(S.ops) \cup {s}
  BY <1>1, <1>3, WithOp DEF Ready
<1>5. Cardinality(Busy(ops2)) = Cardinality(Busy(S.ops)) + 1
  BY <1>1, <1>4, Finite, FS_AddElement
<1> HIDE DEF ops2
<1>6. IsState(T) /\ T.ops = ops2 /\ T.sem = S.sem /\ T.loop = S.loop /\ T.timer = S.timer
      /\ T.error = S.error
  BY DEF Ready, IsState, Fields
<1> HIDE DEF T
<1>7. Counts(T.sem, T.ops, 0)
  BY <1>5, <1>6, Finite DEF Ready, Counts, SemOk, SemaphoreType
<1>8. Good(T) /\ Steady(S, T)
  BY <1>4, <1>6, <1>7 DEF Good, Ready, LoopOk, Steady
<1>9. s \in Busy(T.ops)
  BY <1>4, <1>6
<1>10. CASE S.shouldAbort
  <2>1. Good(OperationEnded(T, s, FALSE)) /\ Steady(T, OperationEnded(T, s, FALSE))
    BY <1>8, <1>9, OperationEndedGood
  <2> QED
    BY <1>2, <1>6, <1>10, <2>1 DEF Steady
<1>11. CASE ~S.shouldAbort
  BY <1>2, <1>8, <1>11
<1> QED
  BY <1>10, <1>11

\* The loop is over, or an exception ended the process.
LEMMA CrashGood ==
  ASSUME NEW S, Good(S)
  PROVE  Good([S EXCEPT !.loop = "crashed"])
<1> DEFINE T == [S EXCEPT !.loop = "crashed"]
<1>1. IsState(T) /\ T.sem = S.sem /\ T.ops = S.ops /\ T.loop = "crashed"
  BY DEF Good, Ready, IsState, Fields
<1> QED
  BY <1>1 DEF Good, Ready, LoopOk

LEMMA RetryDocumentsGood ==
  ASSUME setting \in Settings, NEW S, Good(S), NEW s \in Busy(S.ops), NEW b
  PROVE  Good(RetryDocuments(S, s, b))
<1> DEFINE again == [pc |-> "waiting", body |-> b, retries |-> S.ops[s].retries - 1]
           ops2 == [S.ops EXCEPT ![s] = again]
           W == [S EXCEPT !.ops = ops2]
           Heads == {k \in DOMAIN b : k % 2 = 1}
           stats2 == [S.stats EXCEPT !.failed = @ + Cardinality(Heads),
                                     !.dropped = @ \cup {b[k].doc : k \in Heads}]
           D == [S EXCEPT !.stats = stats2]
<1>1. Good(W)
  <2>1. s \in Slot /\ IsOp(again) /\ again.pc # "free"
    BY DEF Busy, IsOp
  <2> HIDE DEF again
  <2>2. IsOps(ops2) /\ Busy(ops2) = Busy(S.ops)
    <3>1. IsOps(ops2) /\ Busy(ops2) = Busy(S.ops) \cup {s}
      BY <2>1, WithOp DEF Good, Ready
    <3> HIDE DEF ops2
    <3> QED
      BY <3>1
  <2> HIDE DEF ops2
  <2>3. IsState(W) /\ W.ops = ops2 /\ W.sem = S.sem /\ W.loop = S.loop /\ W.timer = S.timer
        /\ W.error = S.error
    BY DEF Good, Ready, IsState, Fields
  <2> QED
    BY <2>2, <2>3 DEF Good, Ready, Counts, LoopOk
<1>2. Good(OperationEnded(D, s, FALSE))
  <2> HIDE DEF stats2
  <2>1. Alike(S, D)
    BY DEF Good, Ready, Alike, IsState, Fields
  <2> HIDE DEF D
  <2>2. Good(D) /\ s \in Busy(D.ops)
    BY <2>1, AlikeGood DEF Good, Alike
  <2> QED
    BY <2>2, OperationEndedGood
<1>3. Good(OperationEnded(S, s, FALSE)) /\ Good([S EXCEPT !.loop = "crashed"])
  BY OperationEndedGood, CrashGood
<1>4. RetryDocuments(S, s, b) \in
        {W, OperationEnded(D, s, FALSE), OperationEnded(S, s, FALSE), [S EXCEPT !.loop = "crashed"]}
  BY Zenon DEF RetryDocuments
<1> QED
  BY <1>1, <1>2, <1>3, <1>4

LEMMA AnswerGood ==
  ASSUME setting \in Settings, NEW S, Good(S), NEW s \in Busy(S.ops), NEW outcome
  PROVE  Good(Answer(S, s, outcome))
<1>1. ASSUME NEW stats2, NEW retry PROVE Good(RetryDocuments([S EXCEPT !.stats = stats2], s, retry))
  <2> DEFINE T == [S EXCEPT !.stats = stats2]
  <2>1. Alike(S, T)
    BY DEF Good, Ready, Alike, IsState, Fields
  <2> HIDE DEF T
  <2>2. Good(T) /\ s \in Busy(T.ops)
    BY <2>1, AlikeGood DEF Good, Alike
  <2> QED
    BY <2>2, RetryDocumentsGood DEF T
<1>2. PICK stats2, retry :
        Answer(S, s, outcome) \in
          {RetryDocuments([S EXCEPT !.stats = stats2], s, retry), [S EXCEPT !.loop = "crashed"]}
  BY ZenonT(30) DEF Answer
<1> QED
  BY <1>1, <1>2, CrashGood


\* p calls semaphore(); the loop goes on accordingly.
LEMMA AcquireGood ==
  ASSUME setting \in Settings, NEW S, Good(S), NEW p \in Process, S.sem.at[p] = "none",
         NEW T, IsState(T), T.sem = Acquired(S.sem, p, Limit), T.ops = S.ops, T.error = S.error,
         \/ p # Loop /\ T.loop = S.loop /\ S.timer # "cleared"
         \/ T.loop = "flushing"
         \/ T.loop = "flushingLast" /\ T.timer = "cleared"
  PROVE  Good(T)
<1>1. SemOk(T.sem) /\ Counts(T.sem, T.ops, 0) /\ T.sem.running <= Limit
      /\ \A q \in Process \ {p} : T.sem.at[q] = S.sem.at[q]
  BY AcquiredOk, ConcurrencyNat DEF Good, Ready
<1>2. p # Loop => T.sem.at[Loop] = S.sem.at[Loop]
  BY <1>1, BulkAssumption
<1>3. LoopOk(T)
  BY <1>2 DEF Good, Ready, LoopOk
<1> QED
  BY <1>1, <1>3 DEF Good, Ready

\* p has its slot; it takes its body with it.
LEMMA ResumeGood ==
  ASSUME NEW S, Good(S), NEW p \in Granted(S.sem),
         NEW T, IsState(T), T.sem = Resumed(S.sem, p), T.ops = S.ops, T.error = S.error,
         T.loop = S.loop, T.timer = S.timer
  PROVE  Ready(T, 1)
<1>1. SemOk(T.sem) /\ Counts(T.sem, T.ops, 1) /\ T.sem.running = S.sem.running
      /\ T.sem.at[p] = "none" /\ \A q \in Process \ {p} : T.sem.at[q] = S.sem.at[q]
  BY ResumedOk DEF Good, Ready
<1>2. T.sem.at[Loop] \in {"none", S.sem.at[Loop]}
  BY <1>1, BulkAssumption
<1>3. LoopOk(T)
  BY <1>1, <1>2 DEF Good, Ready, LoopOk
<1> QED
  BY <1>1, <1>3 DEF Good, Ready

\* The loop waits for no slot: it may be sent anywhere but to the end.
LEMMA MoveGood ==
  ASSUME NEW S, Good(S), NEW T, IsState(T), T.sem = S.sem, T.ops = S.ops,
         \/ /\ T.loop = S.loop /\ T.timer = S.timer /\ T.error = S.error
         \/ /\ S.sem.at[Loop] = "none" \/ T.loop = S.loop
            /\ T.timer = "cleared" /\ T.error = S.error
            /\ T.loop \in {"refreshing", "resolved"} => S.loop \in {"refreshing", "resolved"}
         \/ /\ S.sem.at[Loop] = "none" \/ T.loop = S.loop
            /\ T.loop \notin {"flushingLast", "finishing", "refreshing", "resolved"}
  PROVE  Good(T)
BY DEF Good, Ready, LoopOk

LEMMA EndLoopGood ==
  ASSUME setting \in Settings, NEW S, Good(S), S.loop = "reading"
  PROVE  Good(EndLoop(S))
<1> DEFINE T == [S EXCEPT !.timer = "cleared"]
           W == [T EXCEPT !.loop = "flushingLast", !.sem = Acquired(@, Loop, setting.concurrency)]
<1>1. S.sem.at[Loop] = "none"
  BY DEF Good, Ready, LoopOk
<1>2. IsState(T) /\ T.sem = S.sem /\ T.ops = S.ops /\ T.loop = S.loop /\ T.timer = "cleared"
      /\ T.error = S.error
  BY DEF Good, Ready, IsState, Fields
<1>3. EndLoop(S) \in {W, Finish(T)}
  BY Zenon DEF EndLoop
<1> HIDE DEF T
<1>4. Good(T)
  BY <1>1, <1>2, MoveGood
<1>5. Good(Finish(T))
  BY <1>1, <1>2, <1>4, FinishGood
<1>6. Good(W)
  <2>1. IsState(W) /\ W.sem = Acquired(T.sem, Loop, Limit) /\ W.ops = T.ops
        /\ W.error = T.error /\ W.loop = "flushingLast" /\ W.timer = "cleared"
    BY <1>2 DEF IsState, Fields, Limit
  <2> HIDE DEF W
  <2> QED
    BY <1>1, <1>2, <1>4, <2>1, AcquireGood, BulkAssumption
<1> QED
  BY <1>3, <1>5, <1>6


-----------------------------------------------------------------------------
\* The steps.
Counted == setting \in Settings /\ Good(State)

Stepped == \E T : Becomes(T) /\ Good(T)

LEMMA StateFields ==
  /\ IsState(State)
  /\ State.loop = loop /\ State.timer = timer /\ State.sem = sem /\ State.error = error
  /\ State.ops = ops /\ State.body = body /\ State.shouldAbort = shouldAbort
  /\ State.copy = copy /\ State.source = source /\ State.stats = stats
BY DEF State, IsState, Fields

LEMMA SteppedGood ==
  ASSUME Counted, Stepped
  PROVE  Counted'
<1>1. PICK T : Becomes(T) /\ Good(T)
  BY DEF Stepped
<1>2. /\ loop' = T.loop /\ source' = T.source /\ body' = T.body /\ timer' = T.timer
      /\ copy' = T.copy /\ sem' = T.sem /\ shouldAbort' = T.shouldAbort /\ error' = T.error
      /\ ops' = T.ops /\ stats' = T.stats /\ setting' = setting
  BY <1>1 DEF Becomes
<1>3. State' = T
  BY <1>1, <1>2 DEF State, Good, Ready, IsState, Fields
<1> QED
  BY <1>1, <1>2, <1>3 DEF Counted, Good, Ready, Limit, Counts, Busy, IsOps

LEMMA NextChunkGood ==
  ASSUME Counted, NEW operation \in Operations, NextChunk(operation)
  PROVE  Stepped
<1> DEFINE d == Len(source) + 1
           T == [State EXCEPT !.source = Append(@, operation), !.timer  = "armed",
                              !.body   = @ \o Lines(d, operation)]
           F == [T EXCEPT !.loop = "flushing", !.sem = Acquired(@, Loop, setting.concurrency)]
<1>1. Good(State) /\ State.loop = "reading" /\ State.sem.at[Loop] = "none"
  BY StateFields DEF Counted, NextChunk, Good, Ready, LoopOk
<1>2. Good(EndLoop(State))
  BY <1>1, EndLoopGood DEF Counted
<1>3. ASSUME NEW t PROVE Good([State EXCEPT !.timer = t, !.loop = "rejected"])
  <2> DEFINE R == [State EXCEPT !.timer = t, !.loop = "rejected"]
  <2>1. IsState(R) /\ R.sem = State.sem /\ R.ops = State.ops /\ R.loop = "rejected"
    BY StateFields DEF IsState, Fields
  <2> HIDE DEF R
  <2> QED
    BY <1>1, <2>1, MoveGood DEF R
<1>4. IsState(T) /\ T.sem = State.sem /\ T.ops = State.ops /\ T.error = State.error
      /\ T.timer = "armed" /\ T.loop = "reading"
  BY <1>1, StateFields DEF IsState, Fields
<1>5. \/ Becomes(EndLoop(State))
      \/ \E t : Becomes([State EXCEPT !.timer = t, !.loop = "rejected"])
      \/ Becomes(F) \/ Becomes(T)
  BY Zenon DEF NextChunk
<1> HIDE DEF T
<1>6. Good(T)
  BY <1>1, <1>4, MoveGood
<1>7. Good(F)
  <2>1. IsState(F) /\ F.sem = Acquired(T.sem, Loop, Limit) /\ F.ops = T.ops
        /\ F.error = T.error /\ F.loop = "flushing"
    BY <1>4 DEF IsState, Fields, Limit
  <2> HIDE DEF F
  <2> QED
    BY <1>1, <1>4, <1>6, <2>1, AcquireGood, BulkAssumption DEF Counted
<1> HIDE DEF F
<1> QED
  BY <1>2, <1>3, <1>5, <1>6, <1>7, Zenon DEF Stepped

LEMMA FlushTimeoutGood ==
  ASSUME Counted, FlushTimeout
  PROVE  Stepped
<1> DEFINE f == CHOOSE f \in IdleFlushes : TRUE
           E == [State EXCEPT !.timer = "fired"]
           F == [State EXCEPT !.timer = "fired", !.copy[f] = body, !.body = <<>>,
                              !.sem = Acquired(@, f, setting.concurrency)]
<1>1. Good(State) /\ State.timer = "armed"
  BY StateFields DEF Counted, FlushTimeout
<1>2. CASE body = <<>>
  <2>1. Becomes(E)
    BY <1>2 DEF FlushTimeout
  <2>2. IsState(E) /\ E.sem = State.sem /\ E.ops = State.ops /\ E.loop = State.loop
    BY StateFields DEF IsState, Fields
  <2> HIDE DEF E
  <2>3. Good(E)
    BY <1>1, <2>2, MoveGood DEF Good, Ready, LoopOk
  <2> QED
    BY <2>1, <2>3 DEF Stepped
<1>3. CASE body # <<>>
  <2>1. Becomes(F) /\ IdleFlushes # {}
    BY <1>3, Zenon DEF FlushTimeout
  <2>2. f \in IdleFlushes
    BY <2>1
  <2>3. f \in Process /\ f # Loop /\ State.sem.at[f] = "none"
    BY <2>2, StateFields, Zenon DEF IdleFlushes, Flush
  <2> HIDE DEF f
  <2>4. IsState(F) /\ F.sem = Acquired(State.sem, f, Limit) /\ F.ops = State.ops
        /\ F.error = State.error /\ F.loop = State.loop
    BY StateFields DEF IsState, Fields, Limit
  <2> HIDE DEF F
  <2>5. Good(F)
    BY <1>1, <2>3, <2>4, AcquireGood DEF Counted
  <2> QED
    BY <2>1, <2>5 DEF Stepped
<1> QED
  BY <1>2, <1>3

LEMMA ResumeLoopGood ==
  ASSUME Counted, ResumeLoop
  PROVE  Stepped
<1> DEFINE S == [State EXCEPT !.sem = Resumed(@, Loop)]
           T == Send(S, body)
           R == [T EXCEPT !.loop = "reading", !.body = <<>>]
<1>1. Good(State) /\ loop # "crashed" /\ Loop \in Granted(State.sem)
  BY StateFields, BulkAssumption DEF Counted, ResumeLoop, Runnable, Granted
<1>2. loop \in {"flushing", "flushingLast"}
  BY <1>1, StateFields DEF Good, Ready, LoopOk, Granted
<1>3. IsState(S) /\ S.sem = Resumed(State.sem, Loop) /\ S.ops = State.ops
      /\ S.error = State.error /\ S.loop = State.loop /\ S.timer = State.timer
  BY StateFields DEF IsState, Fields
<1>4. IF loop = "flushing" THEN Becomes(R) ELSE Becomes(Finish(T))
  BY Zenon DEF ResumeLoop
<1> HIDE DEF S
<1>5. Ready(S, 1)
  BY <1>1, <1>3, ResumeGood
<1>6. S.sem.at[Loop] = "none"
  <2>1. SemOk(State.sem) /\ Counts(State.sem, State.ops, 0)
    BY <1>1 DEF Good, Ready
  <2>2. Resumed(State.sem, Loop).at[Loop] = "none"
    BY <1>1, <2>1, ResumedOk
  <2> QED
    BY <1>3, <2>2
<1>7. Good(T) /\ Steady(S, T)
  BY <1>5, SendGood DEF Counted
<1> HIDE DEF T
<1>8. T.sem.at[Loop] = "none" /\ T.timer = timer /\ T.loop = loop
  BY <1>2, <1>3, <1>6, <1>7, StateFields, BulkAssumption DEF Steady
<1>9. CASE loop = "flushing"
  <2>1. IsState(R) /\ R.sem = T.sem /\ R.ops = T.ops /\ R.loop = "reading"
    BY <1>7 DEF Good, Ready, IsState, Fields
  <2>2. Becomes(R)
    BY <1>4, <1>9
  <2> HIDE DEF R
  <2>3. Good(R)
    BY <1>7, <1>8, <2>1, MoveGood
  <2> QED
    BY <2>2, <2>3 DEF Stepped
<1>10. CASE loop = "flushingLast"
  <2>1. T.timer = "cleared"
    BY <1>7, <1>8, <1>10 DEF Good, Ready, LoopOk
  <2>2. Good(Finish(T))
    BY <1>7, <1>8, <2>1, FinishGood
  <2> QED
    BY <1>4, <1>10, <2>2 DEF Stepped
<1> QED
  BY <1>2, <1>9, <1>10

LEMMA ResumeFlushGood ==
  ASSUME Counted, NEW f \in Flush, ResumeFlush(f)
  PROVE  Stepped
<1> DEFINE S == [State EXCEPT !.sem = Resumed(@, f), !.copy[f] = <<>>]
<1>1. Good(State) /\ f \in Granted(State.sem)
  BY StateFields DEF Counted, ResumeFlush, Runnable, Granted, Flush
<1>2. IsState(S) /\ S.sem = Resumed(State.sem, f) /\ S.ops = State.ops
      /\ S.error = State.error /\ S.loop = State.loop /\ S.timer = State.timer
  BY StateFields DEF IsState, Fields
<1>3. Becomes(Send(S, copy[f]))
  BY Zenon DEF ResumeFlush
<1> HIDE DEF S
<1>4. Ready(S, 1)
  BY <1>1, <1>2, ResumeGood
<1>5. Good(Send(S, copy[f]))
  BY <1>4, SendGood DEF Counted
<1> QED
  BY <1>3, <1>5 DEF Stepped

LEMMA AnsweredGood ==
  ASSUME Counted, NEW s \in Slot, Answered(s)
  PROVE  Stepped
<1>1. Good(State) /\ s \in Busy(State.ops)
  BY StateFields DEF Counted, Answered, Busy
<1>2. Good(OperationEnded(State, s, TRUE))
  BY <1>1, OperationEndedGood DEF Counted
<1>3. \A outcome : Good(Answer(State, s, outcome))
  BY <1>1, AnswerGood DEF Counted
<1>4. Becomes(OperationEnded(State, s, TRUE)) \/ \E outcome : Becomes(Answer(State, s, outcome))
  BY Zenon DEF Answered
<1> QED
  BY <1>2, <1>3, <1>4, Zenon DEF Stepped

LEMMA RetryGood ==
  ASSUME Counted, NEW s \in Slot, Retry(s)
  PROVE  Stepped
<1> DEFINE o == [ops[s] EXCEPT !.pc = "sent"]
           ops2 == [ops EXCEPT ![s] = o]
           T == [State EXCEPT !.ops = ops2]
<1>1. Good(State) /\ s \in Busy(State.ops) /\ IsOps(ops) /\ s \in Busy(ops)
  BY StateFields DEF Counted, Retry, Busy, Good, Ready
<1>2. Becomes(OperationEnded(State, s, FALSE)) \/ Becomes(T)
  <2>1. [State EXCEPT !.ops[s].pc = "sent"] = T
    BY StateFields
  <2> HIDE DEF T
  <2> QED
    BY <2>1 DEF Retry
<1>3. Good(OperationEnded(State, s, FALSE))
  BY <1>1, OperationEndedGood DEF Counted
<1>4. Good(T)
  <2>1. IsOp(o) /\ o.pc # "free"
    BY <1>1 DEF IsOps, IsOp
  <2> HIDE DEF o
  <2>2. IsOps(ops2) /\ Busy(ops2) = Busy(ops) \cup {s}
    BY <1>1, <2>1, WithOp
  <2> HIDE DEF ops2
  <2>3. Busy(ops2) = Busy(ops)
    BY <1>1, <2>2
  <2>4. IsState(T) /\ T.ops = ops2 /\ T.sem = sem /\ T.loop = loop /\ T.timer = timer
        /\ T.error = error
    BY StateFields DEF IsState, Fields
  <2> HIDE DEF T
  <2> QED
    BY <1>1, <2>2, <2>3, <2>4, StateFields DEF Good, Ready, Counts, LoopOk
<1> QED
  BY <1>2, <1>3, <1>4 DEF Stepped

LEMMA AbortGood ==
  ASSUME Counted, Abort
  PROVE  Stepped
<1> DEFINE T == [State EXCEPT !.shouldAbort = TRUE, !.timer = "cleared"]
<1>1. Becomes(T)
  BY DEF Abort
<1>2. IsState(T) /\ T.sem = State.sem /\ T.ops = State.ops /\ T.loop = State.loop
      /\ T.timer = "cleared" /\ T.error = State.error
  BY StateFields DEF IsState, Fields
<1> HIDE DEF T
<1>3. Good(T)
  BY <1>2, MoveGood DEF Counted
<1> QED
  BY <1>1, <1>3 DEF Stepped

LEMMA RefreshedGood ==
  ASSUME Counted, Refreshed
  PROVE  Stepped
<1>1. PICK end \in {"resolved", "rejected"} : Becomes([State EXCEPT !.loop = end])
  BY DEF Refreshed
<1> DEFINE T == [State EXCEPT !.loop = end]
<1>2. State.loop = "refreshing" /\ State.timer = "cleared" /\ State.sem.at[Loop] = "none"
  BY StateFields DEF Refreshed, Counted, Good, Ready, LoopOk
<1>3. IsState(T) /\ T.sem = State.sem /\ T.ops = State.ops /\ T.loop = end
      /\ T.timer = State.timer /\ T.error = State.error
  BY StateFields DEF IsState, Fields
<1>4. Becomes(T)
  BY <1>1
<1> HIDE DEF T
<1>5. Good(T)
  BY <1>2, <1>3, MoveGood DEF Counted
<1> QED
  BY <1>4, <1>5 DEF Stepped


LEMMA InitGood == Init => Counted
<1> SUFFICES ASSUME Init PROVE Counted
  OBVIOUS
<1>1. State.sem = Unused /\ State.loop = "reading" /\ State.timer = "armed"
      /\ State.ops = [s \in Slot |-> Free]
  BY DEF State, Init
<1>2. Busy(State.ops) = {} /\ IsOps(State.ops)
  BY <1>1 DEF Busy, IsOps, IsOp, Free
<1>3. Granted(Unused) = {} /\ SemOk(Unused)
  BY DEF Granted, SemOk, SemaphoreType, Unused, Places
<1>4. Cardinality({}) = 0
  BY FS_EmptySet
<1>5. setting \in Settings
  BY DEF Init
<1>6. Counts(Unused, State.ops, 0) /\ Unused.running <= Limit
  <2>1. Unused.running = 0
    BY DEF Unused
  <2> QED
    BY <1>2, <1>3, <1>4, <1>5, <2>1, ConcurrencyNat DEF Counts
<1>7. LoopOk(State)
  BY <1>1, BulkAssumption DEF LoopOk, Unused
<1> QED
  BY <1>1, <1>2, <1>3, <1>5, <1>6, <1>7, StateFields DEF Counted, Good, Ready

LEMMA NextGood == Counted /\ [Next]_vars => Counted'
<1> SUFFICES ASSUME Counted, [Next]_vars PROVE Counted'
  OBVIOUS
<1>1. CASE Next
  <2>1. CASE \E operation \in Operations : NextChunk(operation)
    BY <2>1, NextChunkGood, SteppedGood
  <2>2. CASE EndOfData
    <3>1. Good(EndLoop(State))
      BY <2>2, StateFields, EndLoopGood DEF Counted, EndOfData
    <3> QED
      BY <2>2, <3>1, SteppedGood DEF EndOfData, Stepped
  <2>3. CASE FlushTimeout
    BY <2>3, FlushTimeoutGood, SteppedGood
  <2>4. CASE ResumeLoop
    BY <2>4, ResumeLoopGood, SteppedGood
  <2>5. CASE \E f \in Flush : ResumeFlush(f)
    BY <2>5, ResumeFlushGood, SteppedGood
  <2>6. CASE \E s \in Slot : Answered(s) \/ Retry(s)
    BY <2>6, AnsweredGood, RetryGood, SteppedGood
  <2>7. CASE Abort
    BY <2>7, AbortGood, SteppedGood
  <2>8. CASE Refreshed
    BY <2>8, RefreshedGood, SteppedGood
  <2> QED
    BY <1>1, <2>1, <2>2, <2>3, <2>4, <2>5, <2>6, <2>7, <2>8 DEF Next, Read
<1>2. CASE UNCHANGED vars
  BY <1>2 DEF vars, Counted, State, Good, Ready, Counts, Busy, IsOps, Limit
<1> QED
  BY <1>1, <1>2

\* What the invariant says of the counter and of the end.
LEMMA CountedIsRight == Counted => SlotsCounted
<1> SUFFICES ASSUME Counted PROVE SlotsCounted
  OBVIOUS
<1>1. sem.running = Cardinality(Busy(ops)) + Cardinality(Granted(sem)) + 0
      /\ sem.running <= setting.concurrency
  BY StateFields DEF Counted, Good, Ready, Counts, Limit
<1>2. sem.running = Cardinality(Busy(ops)) + Cardinality(Granted(sem))
  BY <1>1, Finite
<1> QED
  BY <1>1, <1>2 DEF SlotsCounted, Busy

LEMMA CountedIsQuiet == Counted => QuietWhenResolved
BY StateFields DEF Counted, Good, Ready, LoopOk, QuietWhenResolved

\* `running` counts the operations under way and the slots granted, and never exceeds the
\* concurrency, so "Max concurrency reached" is never thrown.
THEOREM SlotsAlwaysCounted == Spec => []SlotsCounted
BY InitGood, NextGood, CountedIsRight, PTL DEF Spec

\* A helper that has resolved has no operation under way, has cleared its timer, and met no error.
THEOREM ResolvedIsQuiet == Spec => []QuietWhenResolved
BY InitGood, NextGood, CountedIsQuiet, PTL DEF Spec

-----------------------------------------------------------------------------
\* Members of a finite set of numbers have ranks from 1 on.
LEMMA RankRange ==
  ASSUME NEW I \in SUBSET Nat, IsFiniteSet(I), NEW i \in I
  PROVE  Rank(I, i) \in 1..Cardinality(I)
<1> DEFINE R == {j \in I : j <= i}
<1>1. IsFiniteSet(R) /\ Cardinality(R) <= Cardinality(I)
  BY FS_Subset
<1>2. Cardinality(R) # 0
  BY <1>1, FS_EmptySet
<1> QED
  BY <1>1, <1>2, FS_CardinalityType DEF Rank

\* A greater member has a greater rank.
LEMMA RankGrows ==
  ASSUME NEW I \in SUBSET Nat, IsFiniteSet(I), NEW i \in I, NEW j \in I, i < j
  PROVE  Rank(I, i) < Rank(I, j)
<1> DEFINE R == {m \in I : m <= i}
           Q == {m \in I : m <= j}
<1>1. IsFiniteSet(R) /\ IsFiniteSet(Q)
  BY FS_Subset
<1>2. R \subseteq Q /\ j \in Q /\ j \notin R
  <2>1. i \in Nat /\ j \in Nat /\ \A m \in I : m \in Nat
    OBVIOUS
  <2>2. \A m \in I : m <= i => m <= j
    BY <2>1
  <2>3. ~(j <= i) /\ j <= j
    BY <2>1
  <2> QED
    BY <2>2, <2>3
<1>3. Cardinality(R) <= Cardinality(Q) /\ Cardinality(R) # Cardinality(Q)
  BY <1>1, <1>2, FS_Subset
<1> QED
  BY <1>1, <1>3, FS_CardinalityType DEF Rank

\* Nth finds the member of each rank.
LEMMA NthHasRank ==
  ASSUME NEW I \in SUBSET Nat, IsFiniteSet(I), NEW n \in 1..Cardinality(I)
  PROVE  Nth(I, n) \in I /\ Rank(I, Nth(I, n)) = n
<1> DEFINE f == [i \in I |-> Rank(I, i)]
           N == 1..Cardinality(I)
<1>1. Cardinality(I) \in Nat
  BY FS_CardinalityType
<1>2. IsFiniteSet(N) /\ Cardinality(N) = Cardinality(I)
  BY <1>1, FS_Interval
<1>3. f \in Injection(I, N)
  <2>1. f \in [I -> N]
    BY RankRange
  <2>2. \A i, j \in I : f[i] = f[j] => i = j
    <3> SUFFICES ASSUME NEW i \in I, NEW j \in I, i < j PROVE f[i] # f[j]
      OBVIOUS
    <3> QED
      BY <1>1, <2>1, RankGrows
  <2> HIDE DEF f
  <2> QED
    BY <2>1, <2>2 DEF Injection, IsInjective
<1>4. f \in Surjection(I, N)
  BY <1>2, <1>3, FS_Injection
<1>5. PICK i \in I : f[i] = n
  BY <1>4 DEF Surjection
<1>6. \E j \in I : Rank(I, j) = n
  BY <1>5
<1> QED
  BY <1>6 DEF Nth

\* Rank and Nth are inverse: from the member to its rank and back.
LEMMA NthOfRank ==
  ASSUME NEW I \in SUBSET Nat, IsFiniteSet(I), NEW i \in I
  PROVE  Nth(I, Rank(I, i)) = i
<1> DEFINE m == Nth(I, Rank(I, i))
<1>1. m \in I /\ Rank(I, m) = Rank(I, i)
  BY RankRange, NthHasRank
<1> HIDE DEF m
<1>2. Rank(I, i) \in Nat
  BY RankRange, FS_CardinalityType
<1>3. ~(m < i) /\ ~(i < m)
  BY <1>1, <1>2, RankGrows
<1>4. m \in Nat /\ i \in Nat
  BY <1>1
<1>5. m = i
  BY <1>3, <1>4
<1> QED
  BY <1>5 DEF m

\* The images of a set under one-to-one maps of numbers.
LEMMA Doubled ==
  ASSUME NEW B \in SUBSET Nat, IsFiniteSet(B), NEW a \in Nat
  PROVE  LET D == {2 * k + a : k \in B}
         IN  IsFiniteSet(D) /\ Cardinality(D) = Cardinality(B)
<1> DEFINE D == {2 * k + a : k \in B}
           f == [k \in B |-> 2 * k + a]
<1>1. f \in [B -> D] /\ (\A x \in D : \E k \in B : f[k] = x) /\ \A k, m \in B : f[k] = f[m] => k = m
  OBVIOUS
<1>2. f \in Bijection(B, D)
  <2> HIDE DEF f, D
  <2> QED
    BY <1>1 DEF Bijection, Injection, Surjection, IsInjective
<1>3. ExistsBijection(B, D)
  BY <1>2 DEF ExistsBijection
<1> QED
  BY <1>3, FS_Bijection

\* Two lines are pushed for each member of B: their ranks are odd and even.
LEMMA PushedRanks ==
  ASSUME NEW B \in SUBSET Nat, IsFiniteSet(B)
  PROVE  LET P == {2 * k : k \in B} \cup {2 * k + 1 : k \in B}
         IN  /\ P \in SUBSET Nat /\ IsFiniteSet(P) /\ Cardinality(P) = 2 * Cardinality(B)
             /\ \A k \in B : Rank(P, 2 * k) % 2 = 1 /\ Rank(P, 2 * k + 1) = Rank(P, 2 * k) + 1
<1> DEFINE P == {2 * k : k \in B} \cup {2 * k + 1 : k \in B}
           Pairs(C) == {2 * k + 0 : k \in C} \cup {2 * k + 1 : k \in C}
<1>1. ASSUME NEW C \in SUBSET B
      PROVE  IsFiniteSet(Pairs(C)) /\ Cardinality(Pairs(C)) = 2 * Cardinality(C)
             /\ Cardinality(C) \in Nat
  <2> DEFINE E == {2 * k + 0 : k \in C}
             O == {2 * k + 1 : k \in C}
  <2>1. IsFiniteSet(C) /\ C \in SUBSET Nat /\ Cardinality(C) \in Nat
    BY FS_Subset, FS_CardinalityType
  <2>2. /\ IsFiniteSet(E) /\ Cardinality(E) = Cardinality(C)
        /\ IsFiniteSet(O) /\ Cardinality(O) = Cardinality(C)
    BY <2>1, Doubled
  <2>3. E \cap O = {}
    <3>1. \A j, k \in C : 2 * k + 0 # 2 * j + 1
      <4> SUFFICES ASSUME NEW j \in Nat, NEW k \in Nat PROVE 2 * k + 0 # 2 * j + 1
        BY <2>1
      <4>1. (2 * k + 0) % 2 = 0 /\ (2 * j + 1) % 2 = 1
        OBVIOUS
      <4> QED
        BY <4>1
    <3> QED
      BY <3>1
  <2> HIDE DEF E, O
  <2>4. Cardinality(E \cap O) = 0
    BY <2>3, FS_EmptySet
  <2>5. IsFiniteSet(E \cup O)
        /\ Cardinality(E \cup O) = Cardinality(E) + Cardinality(O) - Cardinality(E \cap O)
    BY <2>2, FS_Union
  <2> QED
    BY <2>1, <2>2, <2>4, <2>5 DEF E, O
<1>2. P = Pairs(B)
  OBVIOUS
<1>3. P \in SUBSET Nat
  OBVIOUS
<1>4. IsFiniteSet(P) /\ Cardinality(P) = 2 * Cardinality(B)
  <2>1. IsFiniteSet(Pairs(B)) /\ Cardinality(Pairs(B)) = 2 * Cardinality(B)
    BY <1>1
  <2> HIDE DEF P, Pairs
  <2> QED
    BY <1>2, <2>1
<1>5. ASSUME NEW k \in B
      PROVE  Rank(P, 2 * k) % 2 = 1 /\ Rank(P, 2 * k + 1) = Rank(P, 2 * k) + 1
  <2> DEFINE C == {j \in B : j < k}
             R == {m \in P : m <= 2 * k}
             Q == {m \in P : m <= 2 * k + 1}
  <2>1. IsFiniteSet(Pairs(C)) /\ Cardinality(Pairs(C)) = 2 * Cardinality(C)
        /\ Cardinality(C) \in Nat
    BY <1>1
  <2>2. R = Pairs(C) \cup {2 * k} /\ 2 * k \notin Pairs(C)
    OBVIOUS
  <2>3. Q = R \cup {2 * k + 1} /\ 2 * k + 1 \notin R
    OBVIOUS
  <2> HIDE DEF R, Q, Pairs, C
  <2>4. IsFiniteSet(R) /\ Cardinality(R) = 2 * Cardinality(C) + 1
    BY <2>1, <2>2, FS_AddElement
  <2>5. Cardinality(Q) = Cardinality(R) + 1
    BY <2>3, <2>4, FS_AddElement
  <2>6. (2 * Cardinality(C) + 1) % 2 = 1
    BY <2>1
  <2>7. Rank(P, 2 * k) = Cardinality(R) /\ Rank(P, 2 * k + 1) = Cardinality(Q)
    BY DEF Rank, R, Q
  <2> QED
    BY <2>4, <2>5, <2>6, <2>7
<1> QED
  BY <1>3, <1>4, <1>5

\* The odd numbers up to an odd one.
LEMMA OddRank ==
  ASSUME NEW I \in SUBSET Nat, NEW k \in Nat, k % 2 = 1,
         \A j \in 1..k : j \in I <=> j % 2 = 1,
         0 \notin I
  PROVE  2 * Rank(I, k) - 1 = k
<1> DEFINE c == k \div 2
           C == 0..c
           D == {2 * j + 1 : j \in C}
           R == {j \in I : j <= k}
<1>1. c \in Nat /\ k = 2 * c + 1
  OBVIOUS
<1> HIDE DEF c
<1>2. IsFiniteSet(C) /\ Cardinality(C) = c + 1
  BY <1>1, FS_Interval
<1>3. Cardinality(D) = Cardinality(C)
  <2>1. C \in SUBSET Nat /\ 1 \in Nat
    OBVIOUS
  <2> HIDE DEF C
  <2> QED
    BY <1>2, <2>1, Doubled
<1>4. R = D
  <2>1. ASSUME NEW j \in R PROVE j \in D
    <3>1. j \in 1..k /\ j % 2 = 1
      OBVIOUS
    <3>2. j \div 2 \in 0..c /\ j = 2 * (j \div 2) + 1
      BY <1>1, <3>1
    <3> QED
      BY <3>2
  <2>2. ASSUME NEW j \in C PROVE 2 * j + 1 \in R
    <3>1. 2 * j + 1 \in 1..k /\ (2 * j + 1) % 2 = 1
      BY <1>1
    <3> QED
      BY <3>1
  <2> QED
    BY <2>1, <2>2
<1>5. Rank(I, k) = c + 1
  <2> HIDE DEF C, D
  <2> QED
    BY <1>2, <1>3, <1>4 DEF Rank
<1> QED
  BY <1>1, <1>5

-----------------------------------------------------------------------------
\* Types, also of bodies with lines that the code looked for in the wrong place.
LineOk(line, n) == line = Undefined \/ line \in [doc : 1..n, part : {"action", "source"}]

BodyOk(b, n) == b \in Seq(LineType) /\ \A k \in DOMAIN b : LineOk(b[k], n)

OperationType == [pc : {"free", "sent", "waiting"}, body : Seq(LineType), retries : Nat]

StatsType(n) ==
  [successful : Nat, failed : Nat, stored : SUBSET (1..n), dropped : SUBSET (1..n)]

OpsOk(o, n) == o \in [Slot -> OperationType] /\ \A s \in Slot : BodyOk(o[s].body, n)

CopyOk(c, n) == c \in [Flush -> Seq(LineType)] /\ \A f \in Flush : BodyOk(c[f], n)

Typed(S) ==
  LET n == Len(S.source)
  IN  /\ S.loop \in LoopStates /\ S.timer \in {"armed", "fired", "cleared"}
      /\ S.shouldAbort \in BOOLEAN /\ S.error \in BOOLEAN
      /\ S.source \in Seq(OperationNames) /\ n <= MaxDocs
      /\ BodyOk(S.body, n)
      /\ CopyOk(S.copy, n) /\ OpsOk(S.ops, n)
      /\ S.stats \in StatsType(n)

\* A disjunction to be instantiated as it stands.
Or(p, q) == p \/ q
Flags(S) == S.shouldAbort \in BOOLEAN /\ S.error \in BOOLEAN

Endings == {"rejected", "refreshing", "resolved"}

\* The bodies to be sent are where they were, and the loop goes on unless it waits for the last
\* operation.
Keeps(S, T) ==
  /\ T.source = S.source /\ T.body = S.body /\ T.copy = S.copy /\ T.timer = S.timer
  /\ \/ T.loop = S.loop
     \/ S.loop = "finishing" /\ T.loop \in Endings

\* Only where the loop stands may differ.
Same(S, T) ==
  /\ T.source = S.source /\ T.body = S.body /\ T.copy = S.copy /\ T.timer = S.timer
  /\ T.ops = S.ops /\ T.stats = S.stats /\ T.sem = S.sem
  /\ T.shouldAbort = S.shouldAbort /\ T.error = S.error

\* Settle moves the loop only.
LEMMA SettleFrame ==
  ASSUME NEW S, IsState(S)
  PROVE  IsState(Settle(S)) /\ Same(S, Settle(S)) /\ Settle(S).loop \in Endings
         /\ (S.error => Settle(S).loop = "rejected")
<1> DEFINE end == IF S.error THEN "rejected"
                  ELSE IF setting.refresh THEN "refreshing" ELSE "resolved"
           T == [S EXCEPT !.loop = end]
<1>1. Settle(S) = T
  BY DEF Settle
<1>2. end \in Endings /\ (S.error => end = "rejected")
  BY DEF Endings
<1> HIDE DEF end
<1>3. IsState(T) /\ Same(S, T) /\ T.loop = end
  BY DEF IsState, Fields, Same
<1> QED
  BY <1>1, <1>2, <1>3

\* So does Finish.
LEMMA FinishFrame ==
  ASSUME NEW S, IsState(S)
  PROVE  Same(S, Finish(S)) /\ Finish(S).loop \in Endings \cup {"finishing"}
<1> DEFINE T == [S EXCEPT !.loop = "finishing"]
<1>1. Same(S, T) /\ T.loop = "finishing"
  BY DEF IsState, Fields, Same
<1> QED
  BY <1>1, SettleFrame DEF Finish

\* T is S with the operation in slot s over.
EndedAs(S, s, T) ==
  /\ IsState(T) /\ Keeps(S, T) /\ T.stats = S.stats
  /\ T.ops = [S.ops EXCEPT ![s] = Free] /\ T.sem = Released(S.sem)

\* The end of an operation: its slot is free, and the flags take `failed` up.
LEMMA EndedFrame ==
  ASSUME NEW S, IsState(S), NEW s, NEW failed
  PROVE  /\ EndedAs(S, s, OperationEnded(S, s, failed))
         /\ OperationEnded(S, s, failed).shouldAbort = Or(S.shouldAbort, failed)
         /\ OperationEnded(S, s, failed).error = Or(S.error, failed)
<1> DEFINE ops2 == [S.ops EXCEPT ![s] = Free]
           error2 == S.error \/ failed
           abort2 == S.shouldAbort \/ failed
           sem2 == Released(S.sem)
           T == [S EXCEPT !.ops = ops2, !.shouldAbort = abort2, !.error = error2, !.sem = sem2]
           U == OperationEnded(S, s, failed)
<1>1. U = IF S.sem.waiter = NoOne /\ S.loop = "finishing" /\ T.sem.running = 0 THEN Settle(T) ELSE T
  <2>1. [S EXCEPT !.ops[s] = Free, !.shouldAbort = @ \/ failed, !.error = @ \/ failed,
                  !.sem = Released(@)] = T
    BY Zenon DEF IsState, Fields
  <2> HIDE DEF T
  <2> QED
    BY <2>1 DEF OperationEnded
<1> HIDE DEF ops2, error2, abort2, sem2
<1>3. /\ IsState(T) /\ T.source = S.source /\ T.body = S.body /\ T.copy = S.copy
      /\ T.timer = S.timer /\ T.loop = S.loop /\ T.stats = S.stats /\ T.ops = ops2
      /\ T.sem = sem2
  BY DEF IsState, Fields
<1>4. T.shouldAbort = abort2 /\ T.error = error2
  BY Zenon DEF IsState, Fields
<1> HIDE DEF T
<1>5. /\ IsState(U) /\ U.source = S.source /\ U.body = S.body /\ U.copy = S.copy
      /\ U.timer = S.timer /\ U.stats = S.stats /\ U.ops = ops2 /\ U.sem = sem2
      /\ \/ U.loop = S.loop
         \/ S.loop = "finishing" /\ U.loop \in Endings
  BY <1>1, <1>3, SettleFrame DEF Same
<1>6. U.shouldAbort = abort2 /\ U.error = error2
  BY <1>1, <1>3, <1>4, SettleFrame, Zenon DEF Same
<1> HIDE DEF U
<1>7. IsState(U) /\ Keeps(S, U) /\ U.stats = S.stats /\ U.ops = ops2 /\ U.sem = sem2
  BY <1>5 DEF Keeps
<1> QED
  BY <1>6, <1>7, Zenon DEF U, ops2, sem2, abort2, error2, Or, EndedAs

\* An operation that ends without an error.
LEMMA EndedWell ==
  ASSUME NEW S, IsState(S), NEW s, Flags(S)
  PROVE  /\ EndedAs(S, s, OperationEnded(S, s, FALSE))
         /\ OperationEnded(S, s, FALSE).shouldAbort = S.shouldAbort
         /\ OperationEnded(S, s, FALSE).error = S.error
<1>1. /\ EndedAs(S, s, OperationEnded(S, s, FALSE))
      /\ OperationEnded(S, s, FALSE).shouldAbort = Or(S.shouldAbort, FALSE)
      /\ OperationEnded(S, s, FALSE).error = Or(S.error, FALSE)
  BY EndedFrame
<1>2. Or(S.shouldAbort, FALSE) = S.shouldAbort /\ Or(S.error, FALSE) = S.error
  BY DEF Or, Flags
<1> QED
  BY <1>1, <1>2

\* An operation that ends with an error.
LEMMA EndedBadly ==
  ASSUME NEW S, IsState(S), NEW s
  PROVE  /\ EndedAs(S, s, OperationEnded(S, s, TRUE))
         /\ OperationEnded(S, s, TRUE).shouldAbort = TRUE
         /\ OperationEnded(S, s, TRUE).error = TRUE
<1>1. /\ EndedAs(S, s, OperationEnded(S, s, TRUE))
      /\ OperationEnded(S, s, TRUE).shouldAbort = Or(S.shouldAbort, TRUE)
      /\ OperationEnded(S, s, TRUE).error = Or(S.error, TRUE)
  BY EndedFrame
<1>2. Or(S.shouldAbort, TRUE) = TRUE /\ Or(S.error, TRUE) = TRUE
  BY DEF Or
<1> QED
  BY <1>1, <1>2

\* send(): the body is in a slot, unless the helper was aborted.
LEMMA SendFrame ==
  ASSUME setting \in Settings, NEW S, Ready(S, 1), Flags(S), NEW b
  PROVE  LET T == Send(S, b)
         IN  /\ IsState(T) /\ Keeps(S, T) /\ T.stats = S.stats
             /\ T.shouldAbort = S.shouldAbort /\ T.error = S.error
             /\ T.sem \in {S.sem, Released(S.sem)}
             /\ \E s \in Slot :
                  /\ S.ops[s].pc = "free"
                  /\ T.ops = [S.ops EXCEPT ![s] =
                       IF S.shouldAbort THEN Free
                       ELSE [pc |-> "sent", body |-> b, retries |-> setting.retries]]
<1> DEFINE s == CHOOSE s \in FreeSlots(S) : TRUE
           o == [pc |-> "sent", body |-> b, retries |-> setting.retries]
           ops2 == [S.ops EXCEPT ![s] = o]
           T == [S EXCEPT !.ops = ops2]
           U == Send(S, b)
<1>1. s \in Slot /\ S.ops[s].pc = "free"
  BY SlotFound DEF Busy
<1>2. U = IF S.shouldAbort THEN OperationEnded(T, s, FALSE) ELSE T
  BY DEF Send
<1> HIDE DEF s, o
<1>3. IsState(S) /\ IsOps(S.ops)
  BY DEF Ready
<1>4. [ops2 EXCEPT ![s] = Free] = [S.ops EXCEPT ![s] = Free]
  BY <1>1, <1>3 DEF IsOps
<1> HIDE DEF ops2
<1>5. /\ IsState(T) /\ T.source = S.source /\ T.body = S.body /\ T.copy = S.copy
      /\ T.timer = S.timer /\ T.loop = S.loop /\ T.stats = S.stats /\ T.ops = ops2
      /\ T.shouldAbort = S.shouldAbort /\ T.error = S.error /\ T.sem = S.sem
  BY <1>3 DEF IsState, Fields
<1> HIDE DEF T, U
<1>6. CASE S.shouldAbort
  <2> DEFINE W == OperationEnded(T, s, FALSE)
  <2>1. /\ EndedAs(T, s, W)
        /\ W.shouldAbort = T.shouldAbort /\ W.error = T.error
    <3>1. IsState(T) /\ Flags(T)
      BY <1>5 DEF Flags
    <3> QED
      BY <3>1, EndedWell
  <2>2. U = W
    BY <1>2, <1>6
  <2> HIDE DEF W
  <2>3. W.shouldAbort = S.shouldAbort /\ W.error = S.error
    BY <1>5, <2>1, Zenon
  <2>4. Keeps(S, W) /\ W.stats = S.stats /\ W.ops = [S.ops EXCEPT ![s] = Free]
        /\ W.sem = Released(S.sem)
    <3>1. T.ops = ops2 /\ T.sem = S.sem /\ T.stats = S.stats
      BY <1>5
    <3>2. Keeps(S, W)
      BY <1>5, <2>1 DEF Keeps, EndedAs
    <3> QED
      BY <1>4, <2>1, <3>1, <3>2 DEF EndedAs
  <2> QED
    BY <1>1, <1>6, <2>1, <2>2, <2>3, <2>4, <1>5 DEF U, EndedAs
<1>7. CASE ~S.shouldAbort
  <2>1. U = T
    BY <1>2, <1>7
  <2> QED
    BY <1>1, <1>5, <1>7, <2>1 DEF U, ops2, o, Keeps
<1> QED
  BY <1>6, <1>7, Zenon

\* Heads of a body as retryDocuments walks it, and the statistics once it drops them.
Heads(b) == {k \in DOMAIN b : k % 2 = 1}

Dropping(st, b) ==
  [st EXCEPT !.failed = @ + Cardinality(Heads(b)), !.dropped = @ \cup {b[k].doc : k \in Heads(b)}]

Crashing(S, b) ==
  \E k \in Heads(b) : \/ b[k] = Undefined
                      \/ ~IsDelete(S, b[k]) /\ At(b, k + 1) = Undefined

\* The operation in slot s goes on, or ends, and the rest is as it was.
Frame(S, T) ==
  /\ IsState(T) /\ T.source = S.source /\ T.body = S.body /\ T.copy = S.copy /\ T.timer = S.timer
  /\ T.sem \in {S.sem, Released(S.sem)}
  /\ T.shouldAbort = S.shouldAbort /\ T.error = S.error
  /\ \/ T.loop = S.loop \/ T.loop = "crashed"
     \/ S.loop = "finishing" /\ T.loop \in Endings

\* What becomes of it with b left to retry.
Retried(S, s, b, T) ==
  \/ /\ S.shouldAbort \/ b = <<>>
     /\ T.ops = [S.ops EXCEPT ![s] = Free] /\ T.stats = S.stats
  \/ /\ b # <<>> /\ S.ops[s].retries > 0
     /\ T.ops = [S.ops EXCEPT ![s] =
                   [pc |-> "waiting", body |-> b, retries |-> S.ops[s].retries - 1]]
     /\ T.stats = S.stats
  \/ /\ T.loop = "crashed" /\ Crashing(S, b)
     /\ T.ops = S.ops /\ T.stats = S.stats
  \/ /\ b # <<>> /\ ~Crashing(S, b)
     /\ T.ops = [S.ops EXCEPT ![s] = Free] /\ T.stats = Dropping(S.stats, b)

\* An exception moves the loop only.
LEMMA CrashFrame ==
  ASSUME NEW S, IsState(S)
  PROVE  /\ Frame(S, [S EXCEPT !.loop = "crashed"])
         /\ [S EXCEPT !.loop = "crashed"].ops = S.ops
         /\ [S EXCEPT !.loop = "crashed"].stats = S.stats
         /\ [S EXCEPT !.loop = "crashed"].loop = "crashed"
BY DEF Frame, IsState, Fields

\* Counting touches the statistics only.
LEMMA WithStats ==
  ASSUME NEW S, IsState(S), NEW st
  PROVE  /\ IsState([S EXCEPT !.stats = st]) /\ [S EXCEPT !.stats = st].stats = st
         /\ [S EXCEPT !.stats = st].loop = S.loop
         /\ Flags(S) => Flags([S EXCEPT !.stats = st])
         /\ Keeps(S, [S EXCEPT !.stats = st])
         /\ [S EXCEPT !.stats = st].ops = S.ops /\ [S EXCEPT !.stats = st].sem = S.sem
         /\ [S EXCEPT !.stats = st].shouldAbort = S.shouldAbort
         /\ [S EXCEPT !.stats = st].error = S.error
BY DEF IsState, Fields, Keeps, Flags

\* retryDocuments(): the operation in slot s goes on, or ends.
LEMMA RetryDocumentsFrame ==
  ASSUME NEW S, IsState(S), IsOps(S.ops), Flags(S), NEW s \in Slot, NEW b
  PROVE  /\ Frame(S, RetryDocuments(S, s, b))
         /\ Retried(S, s, b, RetryDocuments(S, s, b))
<1> DEFINE U == RetryDocuments(S, s, b)
           again == [pc |-> "waiting", body |-> b, retries |-> S.ops[s].retries - 1]
           W == [S EXCEPT !.ops = [S.ops EXCEPT ![s] = again]]
           D == [S EXCEPT !.stats = Dropping(S.stats, b)]
           E == OperationEnded(S, s, FALSE)
           F == OperationEnded(D, s, FALSE)
           C == [S EXCEPT !.loop = "crashed"]
<1>1. U = IF S.shouldAbort \/ b = <<>> THEN E
          ELSE IF S.ops[s].retries > 0 THEN W
          ELSE IF Crashing(S, b) THEN C ELSE F
  <2> DEFINE W0 == [S EXCEPT !.ops[s] = [pc |-> "waiting", body |-> b, retries |-> @.retries - 1]]
             D0 == [S EXCEPT !.stats.failed = @ + Cardinality(Heads(b)),
                             !.stats.dropped = @ \cup {b[k].doc : k \in Heads(b)}]
             F0 == OperationEnded(D0, s, FALSE)
  <2>1. W0 = W
    BY Zenon DEF IsState, Fields, IsOps
  <2>2. D0 = D
    BY Zenon DEF IsState, Fields, Dropping
  <2>3. U = IF S.shouldAbort \/ b = <<>> THEN E
            ELSE IF S.ops[s].retries > 0 THEN W0
            ELSE IF Crashing(S, b) THEN C ELSE F0
    BY Zenon DEF RetryDocuments, Crashing, Heads
  <2> HIDE DEF W0, D0, W, D
  <2>4. F0 = F
    BY <2>2
  <2> HIDE DEF U, C, E, F0, F
  <2> QED
    BY <2>1, <2>3, <2>4
<1>2. IsState(D) /\ D.stats = Dropping(S.stats, b) /\ D.loop = S.loop /\ Keeps(S, D)
      /\ D.ops = S.ops /\ D.sem = S.sem /\ D.shouldAbort = S.shouldAbort /\ D.error = S.error
      /\ Flags(D)
  BY WithStats
<1>3. Frame(S, W) /\ W.ops = [S.ops EXCEPT ![s] = again] /\ W.stats = S.stats
  <2> HIDE DEF again
  <2> QED
    BY DEF Frame, IsState, Fields
<1>4. Frame(S, C) /\ C.ops = S.ops /\ C.stats = S.stats /\ C.loop = "crashed"
  BY CrashFrame
<1> HIDE DEF D, W, C, again
<1>5. Frame(S, E) /\ E.ops = [S.ops EXCEPT ![s] = Free] /\ E.stats = S.stats
  BY EndedWell DEF EndedAs, Frame, Keeps
<1>6. Frame(S, F) /\ F.ops = [S.ops EXCEPT ![s] = Free] /\ F.stats = Dropping(S.stats, b)
  <2>1. EndedAs(D, s, F) /\ F.shouldAbort = D.shouldAbort /\ F.error = D.error
    BY <1>2, EndedWell
  <2> HIDE DEF F
  <2>2. IsState(F) /\ Keeps(D, F) /\ F.stats = D.stats /\ F.sem = Released(D.sem)
        /\ F.ops = [D.ops EXCEPT ![s] = Free]
    BY <2>1 DEF EndedAs
  <2> QED
    BY <1>2, <2>1, <2>2 DEF Frame, Keeps
<1> HIDE DEF E, F, U
<1>7. Frame(S, U)
  BY <1>1, <1>3, <1>4, <1>5, <1>6
<1>8. Retried(S, s, b, U)
  BY <1>1, <1>3, <1>4, <1>5, <1>6 DEF Retried, again
<1> QED
  BY <1>7, <1>8 DEF U

\* Where the items with outcome o stand in b, and the statistics once a response is counted.
With(b, outcome, o) == {k \in Actions(b) : outcome[k] = o}

Counting(S, b, outcome) ==
  [S.stats EXCEPT
    !.successful = @ + Cardinality(With(b, outcome, "ok")),
    !.failed     = @ + Cardinality(With(b, outcome, "error")),
    !.stored     = @ \cup {b[k].doc : k \in With(b, outcome, "ok")},
    !.dropped    = @ \cup {LinesOfItem(S, b, k)[1].doc : k \in With(b, outcome, "error")}]

Missing(S, b, outcome) ==
  \E k \in With(b, outcome, "error") : Undefined \in Range(LinesOfItem(S, b, k))

\* D is S but for the statistics, which are st.
ItemsCounted(S, st, D) ==
  /\ D.source = S.source /\ D.ops = S.ops /\ D.stats = st
  /\ D.shouldAbort = S.shouldAbort /\ D.error = S.error

\* A response: the items are counted, and what is left is retried.
LEMMA AnswerFrame ==
  ASSUME NEW S, IsState(S), IsOps(S.ops), Flags(S), NEW s \in Slot, NEW outcome
  PROVE  /\ Frame(S, Answer(S, s, outcome))
         /\ \/ /\ Missing(S, S.ops[s].body, outcome)
               /\ Answer(S, s, outcome).loop = "crashed"
               /\ Answer(S, s, outcome).ops = S.ops
               /\ Answer(S, s, outcome).stats = S.stats
            \/ /\ ~Missing(S, S.ops[s].body, outcome)
               /\ \E D : /\ ItemsCounted(S, Counting(S, S.ops[s].body, outcome), D)
                         /\ Retried(D, s, RetryLines(S, S.ops[s].body,
                                                     With(S.ops[s].body, outcome, "busy")),
                                    Answer(S, s, outcome))
<1> DEFINE U == Answer(S, s, outcome)
           b == S.ops[s].body
           r == RetryLines(S, b, With(b, outcome, "busy"))
           st == Counting(S, b, outcome)
           D == [S EXCEPT !.stats = st]
           C == [S EXCEPT !.loop = "crashed"]
           F == RetryDocuments(D, s, r)
<1>1. U = IF Missing(S, b, outcome) THEN C ELSE F
  <2> DEFINE D0 == [S EXCEPT
                !.stats.successful = @ + Cardinality(With(b, outcome, "ok")),
                !.stats.failed     = @ + Cardinality(With(b, outcome, "error")),
                !.stats.stored     = @ \cup {b[k].doc : k \in With(b, outcome, "ok")},
                !.stats.dropped    =
                  @ \cup {LinesOfItem(S, b, k)[1].doc : k \in With(b, outcome, "error")}]
             F0 == RetryDocuments(D0, s, r)
  <2>1. D0 = D
    BY Zenon DEF IsState, Fields, Counting
  <2>2. U = IF Missing(S, b, outcome) THEN C ELSE F0
    BY Zenon DEF Answer, Missing, With
  <2> HIDE DEF D0, D, U, C
  <2> QED
    BY <2>1, <2>2
<1> HIDE DEF st
<1>2. IsState(D) /\ D.stats = st /\ D.loop = S.loop /\ Keeps(S, D)
      /\ D.ops = S.ops /\ D.sem = S.sem /\ D.shouldAbort = S.shouldAbort /\ D.error = S.error
      /\ Flags(D)
  BY WithStats
<1>3. Frame(S, C) /\ C.ops = S.ops /\ C.stats = S.stats /\ C.loop = "crashed"
  BY CrashFrame
<1> HIDE DEF D, C, r, b
<1>4. Frame(D, F) /\ Retried(D, s, r, F)
  BY <1>2, RetryDocumentsFrame
<1> HIDE DEF F
<1>5. Frame(S, F)
  BY <1>2, <1>4 DEF Frame, Keeps
<1>6. ItemsCounted(S, st, D)
  BY <1>2 DEF ItemsCounted, Keeps
<1> HIDE DEF U
<1>7. Frame(S, U)
  BY <1>1, <1>3, <1>5
<1>8. CASE Missing(S, b, outcome)
  <2>1. U = C
    BY <1>1, <1>8
  <2> QED
    BY <1>3, <1>7, <1>8, <2>1 DEF U, b
<1>9. CASE ~Missing(S, b, outcome)
  <2>1. Retried(D, s, r, U)
    BY <1>1, <1>4, <1>9
  <2> QED
    BY <1>6, <1>7, <1>9, <2>1 DEF U, b, r, st
<1> QED
  BY <1>8, <1>9

-----------------------------------------------------------------------------
\* What the code finds at any index is a line, or Undefined.
LEMMA AtOk ==
  ASSUME NEW n \in Nat, n <= MaxDocs, NEW b, BodyOk(b, n), NEW k
  PROVE  /\ LineOk(At(b, k), n) /\ At(b, k) \in LineType
         /\ At(b, k) # Undefined => At(b, k).doc \in 1..n
<1>1. Undefined \in LineType
  BY BulkAssumption DEF Undefined, Line, LineType
<1>2. ASSUME NEW l, LineOk(l, n), l # Undefined
      PROVE  l.doc \in 1..n
  BY <1>2 DEF LineOk
<1>3. CASE k \in DOMAIN b
  BY <1>2, <1>3 DEF At, BodyOk
<1>4. CASE k \notin DOMAIN b
  BY <1>1, <1>4 DEF At, LineOk
<1> QED
  BY <1>3, <1>4

\* An empty body is a body.
LEMMA EmptyOk ==
  ASSUME NEW n
  PROVE  BodyOk(<<>>, n)
BY DEF BodyOk

\* The items of a response are finitely many.
LEMMA ActionsFinite ==
  ASSUME NEW b \in Seq(LineType)
  PROVE  IsFiniteSet(DOMAIN b) /\ IsFiniteSet(Actions(b)) /\ Actions(b) \in SUBSET Nat
<1>1. Len(b) \in Nat /\ DOMAIN b = 1..Len(b)
  OBVIOUS
<1>2. IsFiniteSet(1..Len(b))
  BY <1>1, FS_Interval
<1>3. Actions(b) \subseteq DOMAIN b
  BY DEF Actions
<1> QED
  BY <1>1, <1>2, <1>3, FS_Subset

\* The lines to retry are lines of the body, or missing.
LEMMA RetryLinesOk ==
  ASSUME NEW n \in Nat, n <= MaxDocs, NEW S, NEW b, BodyOk(b, n), NEW items \in SUBSET Actions(b)
  PROVE  BodyOk(RetryLines(S, b, items), n)
<1> DEFINE C == {j \in items : ~IsDelete(S, b[j])}
           P == {2 * k : k \in items} \cup {2 * k + 1 : k \in C}
           Pick(m) == At(b, Slice(S, b, m \div 2) + (m % 2))
           r == [i \in 1..Cardinality(P) |-> Pick(Nth(P, i))]
<1>1. IsFiniteSet(items) /\ IsFiniteSet(C) /\ items \in SUBSET Nat /\ C \in SUBSET Nat
  BY ActionsFinite, FS_Subset DEF BodyOk
<1>2. IsFiniteSet(P)
  <2>1. IsFiniteSet({2 * k + 0 : k \in items}) /\ IsFiniteSet({2 * k + 1 : k \in C})
    <3> HIDE DEF C
    <3> QED
      BY <1>1, Doubled
  <2>2. {2 * k + 0 : k \in items} = {2 * k : k \in items}
    BY <1>1
  <2> QED
    BY <2>1, <2>2, FS_Union
<1>3. Cardinality(P) \in Nat
  BY <1>2, FS_CardinalityType
<1>4. \A m : LineOk(Pick(m), n) /\ Pick(m) \in LineType
  BY AtOk
<1>5. RetryLines(S, b, items) = r
  BY DEF RetryLines
<1> HIDE DEF Pick, P
<1>6. r \in Seq(LineType) /\ \A i \in DOMAIN r : LineOk(r[i], n)
  BY <1>3, <1>4
<1> QED
  BY <1>5, <1>6 DEF BodyOk

\* Statistics that grow by given amounts.
LEMMA StatsChanged ==
  ASSUME NEW n, NEW st \in StatsType(n), NEW a \in Nat, NEW c \in Nat,
         NEW A \in SUBSET (1..n), NEW C \in SUBSET (1..n)
  PROVE  /\ [st EXCEPT !.successful = @ + a, !.failed = @ + c, !.stored = @ \cup A,
                       !.dropped = @ \cup C] \in StatsType(n)
         /\ [st EXCEPT !.failed = @ + c, !.dropped = @ \cup C] \in StatsType(n)
<1>1. \A X : \A r \in [successful : Nat, failed : Nat, stored : X, dropped : X] :
        \A i \in Nat, j \in Nat, I \in X, J \in X :
          /\ [r EXCEPT !.successful = i, !.failed = j, !.stored = I, !.dropped = J] \in
               [successful : Nat, failed : Nat, stored : X, dropped : X]
          /\ [r EXCEPT !.failed = j, !.dropped = J] \in
               [successful : Nat, failed : Nat, stored : X, dropped : X]
  OBVIOUS
<1> DEFINE a2 == st.successful + a
           c2 == st.failed + c
           A2 == st.stored \cup A
           C2 == st.dropped \cup C
<1>2. a2 \in Nat /\ c2 \in Nat
  BY DEF StatsType
<1>3. A2 \in SUBSET (1..n) /\ C2 \in SUBSET (1..n)
  BY DEF StatsType
<1> HIDE DEF a2, c2, A2, C2
<1>4. /\ [st EXCEPT !.successful = a2, !.failed = c2, !.stored = A2, !.dropped = C2]
           \in StatsType(n)
      /\ [st EXCEPT !.failed = c2, !.dropped = C2] \in StatsType(n)
  BY <1>1, <1>2, <1>3, Zenon DEF StatsType
<1> QED
  BY <1>4 DEF a2, c2, A2, C2

\* The statistics once a response is counted.
LEMMA StatsCounted ==
  ASSUME NEW n \in Nat, n <= MaxDocs, NEW S, S.stats \in StatsType(n), NEW b, BodyOk(b, n),
         NEW outcome, ~Missing(S, b, outcome)
  PROVE  Counting(S, b, outcome) \in StatsType(n)
<1> DEFINE ok == With(b, outcome, "ok")
           err == With(b, outcome, "error")
           stored == {b[k].doc : k \in ok}
           dropped == {LinesOfItem(S, b, k)[1].doc : k \in err}
<1>1. IsFiniteSet(ok) /\ IsFiniteSet(err)
  BY ActionsFinite, FS_Subset DEF BodyOk, With
<1>2. Cardinality(ok) \in Nat /\ Cardinality(err) \in Nat
  BY <1>1, FS_CardinalityType
<1>3. stored \subseteq 1..n
  <2> SUFFICES ASSUME NEW k \in ok PROVE b[k].doc \in 1..n
    OBVIOUS
  <2>1. k \in DOMAIN b /\ b[k].part = "action"
    BY DEF With, Actions
  <2>2. b[k] # Undefined /\ At(b, k) = b[k]
    BY <2>1 DEF Undefined, Line, At
  <2> QED
    BY <2>2, AtOk
<1>4. dropped \subseteq 1..n
  <2> SUFFICES ASSUME NEW k \in err PROVE LinesOfItem(S, b, k)[1].doc \in 1..n
    OBVIOUS
  <2> DEFINE i == Slice(S, b, k)
             l == LinesOfItem(S, b, k)
  <2>1. l = <<At(b, i)>> \/ l = <<At(b, i), At(b, i + 1)>>
    BY DEF LinesOfItem
  <2>2. Undefined \notin Range(l)
    BY DEF Missing
  <2> HIDE DEF l, i
  <2>3. l[1] = At(b, i) /\ 1 \in DOMAIN l
    BY <2>1
  <2>4. l[1] # Undefined
    BY <2>2, <2>3 DEF Range
  <2>5. l[1].doc \in 1..n
    BY <2>3, <2>4, AtOk
  <2> QED
    BY <2>5 DEF l
<1> HIDE DEF ok, err, stored, dropped
<1>5. Counting(S, b, outcome) =
        [S.stats EXCEPT !.successful = @ + Cardinality(ok), !.failed = @ + Cardinality(err),
                        !.stored = @ \cup stored, !.dropped = @ \cup dropped]
  BY DEF Counting, ok, err, stored, dropped
<1>6. stored \subseteq 1..n /\ dropped \subseteq 1..n
  BY <1>3, <1>4
<1> DEFINE c == Cardinality(ok)
           e == Cardinality(err)
<1>7. c \in Nat /\ e \in Nat
  BY <1>2
<1> HIDE DEF c, e
<1>8. [S.stats EXCEPT !.successful = @ + c, !.failed = @ + e,
                      !.stored = @ \cup stored, !.dropped = @ \cup dropped] \in StatsType(n)
  BY <1>6, <1>7, StatsChanged
<1> QED
  BY <1>5, <1>8 DEF c, e

\* The statistics once a body is given to onDrop.
LEMMA StatsDropped ==
  ASSUME NEW n \in Nat, n <= MaxDocs, NEW S, NEW st \in StatsType(n), NEW b, BodyOk(b, n),
         ~Crashing(S, b)
  PROVE  Dropping(st, b) \in StatsType(n)
<1> DEFINE dropped == {b[k].doc : k \in Heads(b)}
<1>1. Cardinality(Heads(b)) \in Nat
  BY ActionsFinite, FS_Subset, FS_CardinalityType DEF BodyOk, Heads
<1>2. dropped \subseteq 1..n
  <2> SUFFICES ASSUME NEW k \in Heads(b) PROVE b[k].doc \in 1..n
    OBVIOUS
  <2>1. k \in DOMAIN b /\ b[k] # Undefined
    BY DEF Crashing, Heads
  <2> QED
    BY <2>1, AtOk DEF At
<1> HIDE DEF dropped
<1>3. Dropping(st, b) =
        [st EXCEPT !.failed = @ + Cardinality(Heads(b)), !.dropped = @ \cup dropped]
  BY DEF Dropping, dropped
<1> DEFINE c == Cardinality(Heads(b))
<1>4. c \in Nat
  BY <1>1
<1> HIDE DEF c
<1>5. [st EXCEPT !.failed = @ + c, !.dropped = @ \cup dropped] \in StatsType(n)
  BY <1>2, <1>4, StatsChanged
<1> QED
  BY <1>3, <1>5 DEF c

\* Another operation in slot s.
LEMMA WithOpOk ==
  ASSUME NEW n, NEW o, OpsOk(o, n), NEW s \in Slot, NEW r \in OperationType, BodyOk(r.body, n)
  PROVE  OpsOk([o EXCEPT ![s] = r], n)
BY DEF OpsOk

\* The free slot has the type of a slot.
LEMMA FreeOk ==
  ASSUME NEW n, NEW o, OpsOk(o, n), NEW s \in Slot
  PROVE  OpsOk([o EXCEPT ![s] = Free], n)
<1>1. Free \in OperationType /\ Free.body = <<>>
  BY DEF Free, OperationType
<1> QED
  BY <1>1, EmptyOk, WithOpOk

\* What retryDocuments leaves is typed.
LEMMA RetriedTyped ==
  ASSUME NEW n \in Nat, n <= MaxDocs, NEW S, OpsOk(S.ops, n), S.stats \in StatsType(n),
         NEW s \in Slot, NEW b, BodyOk(b, n), NEW T, Retried(S, s, b, T)
  PROVE  OpsOk(T.ops, n) /\ T.stats \in StatsType(n)
<1> DEFINE again == [pc |-> "waiting", body |-> b, retries |-> S.ops[s].retries - 1]
<1>1. CASE S.ops[s].retries > 0 /\ T.ops = [S.ops EXCEPT ![s] = again] /\ T.stats = S.stats
  <2>1. S.ops[s].retries - 1 \in Nat
    BY <1>1 DEF OpsOk, OperationType
  <2>2. again \in OperationType /\ again.body = b
    BY <2>1 DEF OperationType, BodyOk
  <2> HIDE DEF again
  <2> QED
    BY <1>1, <2>2, WithOpOk
<1>2. CASE T.ops = [S.ops EXCEPT ![s] = Free] /\ T.stats = S.stats
  BY <1>2, FreeOk
<1>3. CASE ~Crashing(S, b) /\ T.ops = [S.ops EXCEPT ![s] = Free] /\ T.stats = Dropping(S.stats, b)
  BY <1>3, FreeOk, StatsDropped
<1>4. CASE T.ops = S.ops /\ T.stats = S.stats
  BY <1>4
<1> QED
  BY <1>1, <1>2, <1>3, <1>4 DEF Retried

-----------------------------------------------------------------------------
\* What each step does.
\* Who waits will be served: an operation under way, or a slot granted, is to be released.
Served(s) == s.waiter # NoOne => s.running > 0

\* Only f may start or come to rest; and who waits is served as before.
AtKept(S, T, f) ==
  /\ \A g \in Flush \ {f} : T.sem.at[g] = "none" <=> S.sem.at[g] = "none"
  /\ Served(S.sem) => Served(T.sem)

SameDocs(S, T) ==
  T.source = S.source /\ T.body = S.body /\ T.copy = S.copy /\ T.ops = S.ops /\ T.stats = S.stats

SameFlags(S, T) == T.shouldAbort = S.shouldAbort /\ T.error = S.error

LoopEnded(S, T) ==
  /\ S.loop = "reading" /\ SameDocs(S, T) /\ SameFlags(S, T) /\ AtKept(S, T, NoOne)
  /\ T.timer = "cleared" /\ T.loop \in Endings \cup {"finishing", "flushingLast"}
  /\ T.loop = "flushingLast" \/ S.shouldAbort \/ S.body = <<>>

Rejected(S, T) ==
  /\ S.loop = "reading" /\ SameDocs(S, T) /\ SameFlags(S, T) /\ T.sem = S.sem
  /\ T.timer \in {"armed", "fired", "cleared"} /\ T.loop = "rejected"

Chunk(S, T, operation) ==
  /\ S.loop = "reading" /\ operation \notin {"invalid", "throws"} /\ Len(S.source) < MaxDocs
  /\ T.source = Append(S.source, operation)
  /\ T.body = S.body \o Lines(Len(S.source) + 1, operation)
  /\ T.copy = S.copy /\ T.ops = S.ops /\ T.stats = S.stats /\ SameFlags(S, T)
  /\ T.timer = "armed" /\ T.loop \in {"reading", "flushing"} /\ AtKept(S, T, NoOne)

Fired(S, T) ==
  /\ SameDocs(S, T) /\ SameFlags(S, T) /\ T.sem = S.sem /\ T.loop = S.loop
  /\ S.timer = "armed" /\ T.timer = "fired" /\ S.body = <<>>

Taken(S, T, f) ==
  /\ setting.interval
  /\ S.timer = "armed" /\ T.timer = "fired" /\ T.loop = S.loop /\ SameFlags(S, T)
  /\ S.sem.at[f] = "none" /\ T.sem.at[f] # "none" /\ AtKept(S, T, f)
  /\ T.copy = [S.copy EXCEPT ![f] = S.body] /\ T.body = <<>>
  /\ T.source = S.source /\ T.ops = S.ops /\ T.stats = S.stats

\* The body b is sent, unless the helper was aborted.
Sent(S, T, b) ==
  /\ T.source = S.source /\ T.stats = S.stats /\ T.timer = S.timer /\ SameFlags(S, T)
  /\ \E s \in Slot :
       /\ S.ops[s].pc = "free"
       /\ T.ops = [S.ops EXCEPT ![s] =
            IF S.shouldAbort THEN Free
            ELSE [pc |-> "sent", body |-> b, retries |-> setting.retries]]

LoopSent(S, T) ==
  /\ Sent(S, T, S.body) /\ T.copy = S.copy /\ AtKept(S, T, NoOne)
  /\ \/ S.loop = "flushing" /\ T.loop = "reading" /\ T.body = <<>>
     \/ S.loop = "flushingLast" /\ T.loop \in Endings \cup {"finishing"} /\ T.body = S.body

FlushSent(S, T, f) ==
  /\ S.sem.at[f] # "none"
  /\ Sent(S, T, S.copy[f]) /\ T.copy = [S.copy EXCEPT ![f] = <<>>] /\ T.body = S.body
  /\ AtKept(S, T, f)
  /\ \/ T.loop = S.loop
     \/ S.loop = "finishing" /\ T.loop \in Endings

\* The operation in slot s is over, for the helper failed or is aborted.
Over(S, T, s) ==
  /\ Keeps(S, T) /\ T.stats = S.stats /\ T.ops = [S.ops EXCEPT ![s] = Free]
  /\ AtKept(S, T, NoOne) /\ T.shouldAbort = TRUE /\ T.error \in BOOLEAN

\* What a response leaves of the operation in slot s; D is S with the items counted.
AnswerOutcome(S, s, outcome, T) ==
  \/ /\ Missing(S, S.ops[s].body, outcome)
     /\ T.loop = "crashed" /\ T.ops = S.ops /\ T.stats = S.stats
  \/ /\ ~Missing(S, S.ops[s].body, outcome)
     /\ \E D : /\ ItemsCounted(S, Counting(S, S.ops[s].body, outcome), D)
               /\ LET b == S.ops[s].body
                  IN  Retried(D, s, RetryLines(S, b, With(b, outcome, "busy")), T)

AnsweredAs(S, T, s, outcome) ==
  /\ Frame(S, T) /\ AtKept(S, T, NoOne) /\ AnswerOutcome(S, s, outcome, T)
  /\ WellFormed(S, S.ops[s].body)

SentAgain(S, T, s) ==
  /\ T.source = S.source /\ T.body = S.body /\ T.copy = S.copy /\ T.stats = S.stats
  /\ SameFlags(S, T) /\ T.sem = S.sem /\ T.loop = S.loop /\ T.timer = S.timer
  /\ T.ops = [S.ops EXCEPT ![s] = [S.ops[s] EXCEPT !.pc = "sent"]]

Aborted(S, T) ==
  /\ SameDocs(S, T) /\ T.sem = S.sem /\ T.loop = S.loop /\ T.error = S.error
  /\ T.shouldAbort = TRUE /\ T.timer = "cleared"

Ended(S, T) ==
  /\ SameDocs(S, T) /\ SameFlags(S, T) /\ T.sem = S.sem /\ T.timer = S.timer
  /\ S.loop = "refreshing" /\ T.loop \in {"resolved", "rejected"}

\* Three steps of the semaphore, and where they leave the processes.
LEMMA ReleasedAt ==
  ASSUME NEW s, SemOk(s), NEW q \in Process
  PROVE  /\ Released(s).at[q] = "none" <=> s.at[q] = "none"
         /\ Served(s) => Served(Released(s))
BY DEF SemOk, SemaphoreType, Released, Places, Served

LEMMA AcquiredAt ==
  ASSUME NEW s, SemOk(s), NEW p \in Process, NEW n \in Nat \ {0}
  PROVE  /\ Acquired(s, p, n).at[p] # "none"
         /\ \A q \in Process \ {p} : Acquired(s, p, n).at[q] = s.at[q]
         /\ Served(s) => Served(Acquired(s, p, n))
BY DEF SemOk, SemaphoreType, Acquired, Places, Served

LEMMA ResumedAt ==
  ASSUME NEW s, SemOk(s), NEW p \in Process
  PROVE  /\ \A q \in Process \ {p} : Resumed(s, p).at[q] = s.at[q]
         /\ Served(s) => Served(Resumed(s, p))
BY DEF SemOk, SemaphoreType, Resumed, Places, Served

\* An action that becomes T leaves the state T.
LEMMA BecomesState ==
  ASSUME NEW T, Becomes(T), IsState(T)
  PROVE  State' = T /\ setting' = setting
<1>1. /\ loop' = T.loop /\ source' = T.source /\ body' = T.body /\ timer' = T.timer
      /\ copy' = T.copy /\ sem' = T.sem /\ shouldAbort' = T.shouldAbort /\ error' = T.error
      /\ ops' = T.ops /\ stats' = T.stats /\ setting' = setting
  BY DEF Becomes
<1> QED
  BY <1>1 DEF State, IsState, Fields

\* What the lemmas below need of a state.
LEMMA Hands ==
  ASSUME Counted
  PROVE  /\ IsState(State) /\ IsOps(State.ops) /\ SemOk(State.sem) /\ setting \in Settings
         /\ \A f \in Flush : f \in Process /\ f # Loop /\ f # NoOne
         /\ Loop \in Process /\ setting.concurrency \in Nat \ {0}
BY BulkAssumption, ProcessAssumption, StateFields DEF Counted, Good, Ready, Flush, SettingType

\* The effect of each action, one after the other.
LEMMA EndLoopEffect ==
  ASSUME Counted, loop = "reading", Becomes(EndLoop(State))
  PROVE  LoopEnded(State, State')
<1> DEFINE T == [State EXCEPT !.timer = "cleared"]
           W == [T EXCEPT !.loop = "flushingLast", !.sem = Acquired(@, Loop, setting.concurrency)]
           U == EndLoop(State)
<1>1. IsState(T) /\ SameDocs(State, T) /\ SameFlags(State, T) /\ T.sem = State.sem
      /\ T.timer = "cleared"
  BY Hands DEF IsState, Fields, SameDocs, SameFlags
<1>2. U = IF ~State.shouldAbort /\ State.body # <<>> THEN W ELSE Finish(T)
  BY Zenon DEF EndLoop
<1>3. IsState(W) /\ SameDocs(State, W) /\ SameFlags(State, W)
      /\ W.sem = Acquired(State.sem, Loop, setting.concurrency) /\ W.timer = "cleared"
      /\ W.loop = "flushingLast"
  BY Hands DEF IsState, Fields, SameDocs, SameFlags
<1> HIDE DEF T, W, U
<1>4. Same(T, Finish(T)) /\ Finish(T).loop \in Endings \cup {"finishing"} /\ IsState(Finish(T))
  <2>1. IsState([T EXCEPT !.loop = "finishing"])
    BY <1>1 DEF IsState, Fields
  <2> QED
    BY <1>1, <2>1, FinishFrame, SettleFrame DEF Finish
<1>5. AtKept(State, W, NoOne)
  BY <1>3, Hands, AcquiredAt DEF AtKept
<1>6. AtKept(State, Finish(T), NoOne)
  BY <1>1, <1>4 DEF AtKept, Same
<1>7. IsState(U) /\ LoopEnded(State, U)
  BY <1>1, <1>2, <1>3, <1>4, <1>5, <1>6, StateFields
  DEF LoopEnded, Same, SameDocs, SameFlags
<1> QED
  BY <1>7, BecomesState DEF U

LEMMA NextChunkEffect ==
  ASSUME Counted, Typed(State), NEW operation \in Operations, NextChunk(operation)
  PROVE  LoopEnded(State, State') \/ Rejected(State, State') \/ Chunk(State, State', operation)
<1> DEFINE d == Len(source) + 1
           T == [State EXCEPT !.source = Append(@, operation), !.timer  = "armed",
                              !.body   = @ \o Lines(d, operation)]
           F == [T EXCEPT !.loop = "flushing", !.sem = Acquired(@, Loop, setting.concurrency)]
           C == [State EXCEPT !.timer = "cleared", !.loop = "rejected"]
           R(t) == [State EXCEPT !.timer = t, !.loop = "rejected"]
<1>1. loop = "reading" /\ Len(source) < MaxDocs /\ timer \in {"armed", "fired", "cleared"}
  BY StateFields DEF NextChunk, Typed
<1>2. ASSUME NEW t \in {"armed", "fired", "cleared"}, Becomes(R(t)) PROVE Rejected(State, State')
  <2>1. IsState(R(t)) /\ Rejected(State, R(t))
    BY <1>1, Hands, StateFields DEF IsState, Fields, Rejected, SameDocs, SameFlags
  <2> HIDE DEF R
  <2> QED
    BY <1>2, <2>1, BecomesState
<1>3. IsState(T) /\ T.source = Append(State.source, operation) /\ T.timer = "armed"
      /\ T.body = State.body \o Lines(Len(State.source) + 1, operation)
      /\ T.copy = State.copy /\ T.ops = State.ops /\ T.stats = State.stats
      /\ SameFlags(State, T) /\ T.loop = State.loop /\ T.sem = State.sem
  BY Hands, StateFields DEF IsState, Fields, SameFlags
<1>4. \/ Becomes(EndLoop(State))
      \/ Becomes(C)
      \/ \E t \in {timer, "armed"} : Becomes(R(t))
      \/ /\ operation \notin {"invalid", "throws"}
         /\ Becomes(IF Len(T.body) >= FlushLines THEN F ELSE T)
  BY Zenon DEF NextChunk
<1>5. IsState(F) /\ F.source = T.source /\ F.timer = T.timer /\ F.body = T.body
      /\ F.copy = T.copy /\ F.ops = T.ops /\ F.stats = T.stats
      /\ SameFlags(T, F) /\ F.loop = "flushing"
      /\ F.sem = Acquired(T.sem, Loop, setting.concurrency)
  <2> HIDE DEF T
  <2> QED
    BY <1>3 DEF IsState, Fields, SameFlags
<1> HIDE DEF T, F
<1>6. CASE /\ operation \notin {"invalid", "throws"}
           /\ Becomes(IF Len(T.body) >= FlushLines THEN F ELSE T)
  <2>1. Chunk(State, T, operation)
    BY <1>1, <1>3, <1>6, StateFields DEF Chunk, AtKept
  <2>2. AtKept(State, F, NoOne)
    BY <1>3, <1>5, Hands, AcquiredAt DEF AtKept
  <2>3. Chunk(State, F, operation)
    BY <1>1, <1>3, <1>5, <1>6, <2>2, StateFields DEF Chunk, SameFlags
  <2> DEFINE G == IF Len(T.body) >= FlushLines THEN F ELSE T
  <2>4. IsState(G) /\ Chunk(State, G, operation)
    BY <1>3, <1>5, <2>1, <2>3
  <2>5. Becomes(G)
    BY <1>6
  <2> HIDE DEF G
  <2>6. State' = G
    BY <2>4, <2>5, BecomesState
  <2> QED
    BY <2>4, <2>6
<1>7. CASE Becomes(C)
  <2>1. Becomes(R("cleared"))
    BY <1>7
  <2> QED
    BY <1>2, <2>1
<1>8. CASE \E t \in {timer, "armed"} : Becomes(R(t))
  <2> HIDE DEF R
  <2> QED
    BY <1>1, <1>2, <1>8
<1> HIDE DEF C, R
<1>9. CASE Becomes(EndLoop(State))
  BY <1>1, <1>9, EndLoopEffect
<1> QED
  BY <1>4, <1>6, <1>7, <1>8, <1>9

LEMMA FlushTimeoutEffect ==
  ASSUME Counted, FlushTimeout
  PROVE  Fired(State, State') \/ \E f \in Flush : Taken(State, State', f)
<1> DEFINE f == CHOOSE f \in IdleFlushes : TRUE
           E == [State EXCEPT !.timer = "fired"]
           F == [State EXCEPT !.timer = "fired", !.copy[f] = body, !.body = <<>>,
                              !.sem = Acquired(@, f, setting.concurrency)]
<1>1. timer = "armed" /\ setting.interval
  BY DEF FlushTimeout
<1>2. CASE body = <<>>
  <2>1. Becomes(E)
    BY <1>2 DEF FlushTimeout
  <2>2. IsState(E) /\ Fired(State, E)
    BY <1>1, <1>2, Hands, StateFields DEF IsState, Fields, Fired, SameDocs, SameFlags
  <2> HIDE DEF E
  <2> QED
    BY <2>1, <2>2, BecomesState
<1>3. CASE body # <<>>
  <2>1. Becomes(F) /\ IdleFlushes # {}
    BY <1>3, Zenon DEF FlushTimeout
  <2>2. f \in IdleFlushes
    BY <2>1
  <2>3. f \in Flush /\ State.sem.at[f] = "none"
    BY <2>2, StateFields, Zenon DEF IdleFlushes
  <2> HIDE DEF f
  <2>4. IsState(F) /\ F.sem = Acquired(State.sem, f, setting.concurrency) /\ F.ops = State.ops
        /\ SameFlags(State, F) /\ F.loop = State.loop /\ F.timer = "fired"
        /\ F.copy = [State.copy EXCEPT ![f] = State.body] /\ F.body = <<>>
        /\ F.source = State.source /\ F.stats = State.stats
    BY Hands, StateFields DEF IsState, Fields, SameFlags
  <2> HIDE DEF F
  <2>5. F.sem.at[f] # "none" /\ AtKept(State, F, f)
    BY <2>3, <2>4, Hands, AcquiredAt DEF AtKept
  <2>6. Taken(State, F, f)
    BY <1>1, <2>3, <2>4, <2>5, StateFields DEF Taken
  <2> QED
    BY <2>1, <2>3, <2>4, <2>6, BecomesState
<1> QED
  BY <1>2, <1>3

\* A process that has its slot sends the body it came for.
LEMMA SendEffect ==
  ASSUME Counted, Typed(State), NEW p \in Granted(State.sem), NEW b,
         NEW S, IsState(S), S.sem = Resumed(State.sem, p), S.ops = State.ops,
         SameFlags(State, S), S.loop = State.loop, S.timer = State.timer,
         S.source = State.source, S.stats = State.stats
  PROVE  /\ IsState(Send(S, b)) /\ Sent(State, Send(S, b), b) /\ Keeps(S, Send(S, b))
         /\ AtKept(State, Send(S, b), p)
<1>1. Good(State)
  BY DEF Counted
<1>2. Ready(S, 1)
  BY <1>1, ResumeGood DEF SameFlags
<1>3. Flags(S)
  BY DEF Flags, Typed, SameFlags
<1> DEFINE T == Send(S, b)
<1>4. /\ IsState(T) /\ Keeps(S, T) /\ T.stats = S.stats
      /\ T.shouldAbort = S.shouldAbort /\ T.error = S.error
      /\ T.sem \in {S.sem, Released(S.sem)}
      /\ \E s \in Slot :
           /\ S.ops[s].pc = "free"
           /\ T.ops = [S.ops EXCEPT ![s] =
                IF S.shouldAbort THEN Free
                ELSE [pc |-> "sent", body |-> b, retries |-> setting.retries]]
  BY <1>2, <1>3, SendFrame DEF Counted
<1> HIDE DEF T
<1>5. Sent(State, T, b)
  BY <1>4 DEF Sent, SameFlags, Keeps
<1>6. AtKept(State, T, p)
  <2>1. SemOk(S.sem)
    BY <1>2 DEF Ready
  <2>2. \A g \in Flush \ {p} : g \in Process /\ S.sem.at[g] = State.sem.at[g]
    BY Hands, ResumedAt DEF Granted
  <2>3. Served(State.sem) => Served(S.sem)
    BY Hands, ResumedAt DEF Granted
  <2> QED
    BY <1>4, <2>1, <2>2, <2>3, Hands, ReleasedAt DEF AtKept
<1> QED
  BY <1>4, <1>5, <1>6 DEF T

LEMMA ResumeLoopEffect ==
  ASSUME Counted, Typed(State), ResumeLoop
  PROVE  LoopSent(State, State')
<1> DEFINE S == [State EXCEPT !.sem = Resumed(@, Loop)]
           T == Send(S, body)
           R == [T EXCEPT !.loop = "reading", !.body = <<>>]
<1>1. Good(State) /\ loop # "crashed" /\ Loop \in Granted(State.sem)
  BY StateFields, BulkAssumption DEF Counted, ResumeLoop, Runnable, Granted
<1>2. loop \in {"flushing", "flushingLast"}
  BY <1>1, StateFields DEF Good, Ready, LoopOk, Granted
<1>3. IsState(S) /\ S.sem = Resumed(State.sem, Loop) /\ S.ops = State.ops
      /\ SameFlags(State, S) /\ S.loop = State.loop /\ S.timer = State.timer
      /\ S.source = State.source /\ S.stats = State.stats
      /\ S.body = State.body /\ S.copy = State.copy
  BY Hands, StateFields DEF IsState, Fields, SameFlags
<1>4. IF loop = "flushing" THEN Becomes(R) ELSE Becomes(Finish(T))
  BY Zenon DEF ResumeLoop
<1> HIDE DEF S
<1>5. IsState(T) /\ Sent(State, T, body) /\ Keeps(S, T) /\ AtKept(State, T, Loop)
  BY <1>1, <1>3, SendEffect
<1>6. AtKept(State, T, NoOne)
  BY <1>5, Hands DEF AtKept
<1>7. T.loop = State.loop /\ T.copy = State.copy /\ T.body = State.body
  BY <1>2, <1>3, <1>5, StateFields DEF Keeps
<1> HIDE DEF T
<1>8. CASE loop = "flushing"
  <2>1. IsState(R) /\ R.sem = T.sem /\ R.ops = T.ops /\ R.loop = "reading" /\ R.body = <<>>
        /\ R.copy = T.copy /\ R.source = T.source /\ R.stats = T.stats /\ R.timer = T.timer
        /\ SameFlags(T, R)
    BY <1>5 DEF IsState, Fields, SameFlags
  <2>2. Becomes(R)
    BY <1>4, <1>8
  <2> HIDE DEF R
  <2>3. Sent(State, R, body) /\ AtKept(State, R, NoOne)
    BY <1>5, <1>6, <2>1 DEF Sent, SameFlags, AtKept
  <2>4. LoopSent(State, R)
    BY <1>7, <1>8, <2>1, <2>3, StateFields DEF LoopSent
  <2> QED
    BY <2>1, <2>2, <2>4, BecomesState
<1>9. CASE loop = "flushingLast"
  <2> DEFINE F == Finish(T)
  <2>1. Same(T, F) /\ F.loop \in Endings \cup {"finishing"} /\ IsState(F)
    <3>1. IsState([T EXCEPT !.loop = "finishing"])
      BY <1>5 DEF IsState, Fields
    <3> QED
      BY <1>5, <3>1, FinishFrame, SettleFrame DEF Finish
  <2>2. Becomes(F)
    BY <1>4, <1>9
  <2> HIDE DEF F
  <2>3. Sent(State, F, body) /\ AtKept(State, F, NoOne)
    BY <1>5, <1>6, <2>1 DEF Sent, SameFlags, AtKept, Same
  <2>4. LoopSent(State, F)
    BY <1>7, <1>9, <2>1, <2>3, StateFields DEF LoopSent, Same
  <2> QED
    BY <2>1, <2>2, <2>4, BecomesState
<1> QED
  BY <1>2, <1>8, <1>9

LEMMA ResumeFlushEffect ==
  ASSUME Counted, Typed(State), NEW f \in Flush, ResumeFlush(f)
  PROVE  FlushSent(State, State', f)
<1> DEFINE S == [State EXCEPT !.sem = Resumed(@, f), !.copy[f] = <<>>]
           T == Send(S, copy[f])
<1>1. f \in Granted(State.sem)
  BY StateFields DEF ResumeFlush, Runnable, Granted, Flush
<1>2. IsState(S) /\ S.sem = Resumed(State.sem, f) /\ S.ops = State.ops
      /\ SameFlags(State, S) /\ S.loop = State.loop /\ S.timer = State.timer
      /\ S.source = State.source /\ S.stats = State.stats
      /\ S.body = State.body /\ S.copy = [State.copy EXCEPT ![f] = <<>>]
  BY Hands, StateFields DEF IsState, Fields, SameFlags
<1>3. Becomes(T)
  BY Zenon DEF ResumeFlush
<1> HIDE DEF S
<1>4. IsState(T) /\ Sent(State, T, copy[f]) /\ Keeps(S, T) /\ AtKept(State, T, f)
  BY <1>1, <1>2, SendEffect
<1> HIDE DEF T
<1>5. FlushSent(State, T, f)
  <2>1. /\ T.copy = [State.copy EXCEPT ![f] = <<>>] /\ T.body = State.body
        /\ \/ T.loop = State.loop
           \/ State.loop = "finishing" /\ T.loop \in Endings
    BY <1>2, <1>4 DEF Keeps
  <2>2. Sent(State, T, State.copy[f]) /\ AtKept(State, T, f) /\ State.sem.at[f] # "none"
    BY <1>1, <1>4, StateFields DEF Granted
  <2> QED
    BY <2>1, <2>2 DEF FlushSent
<1> QED
  BY <1>3, <1>4, <1>5, BecomesState

\* An operation ends for an error, or because the helper is aborted.
LEMMA OverEffect ==
  ASSUME Counted, Typed(State), NEW s \in Slot,
         \/ Becomes(OperationEnded(State, s, TRUE))
         \/ State.shouldAbort /\ Becomes(OperationEnded(State, s, FALSE))
  PROVE  Over(State, State', s)
<1>1. Flags(State)
  BY DEF Typed, Flags
<1>2. ASSUME NEW T, EndedAs(State, s, T), T.shouldAbort = TRUE, T.error \in BOOLEAN, Becomes(T)
      PROVE  Over(State, State', s)
  <2>1. AtKept(State, T, NoOne)
    BY <1>2, Hands, ReleasedAt DEF EndedAs, AtKept
  <2>2. Over(State, T, s)
    BY <1>2, <2>1 DEF EndedAs, Over
  <2> QED
    BY <1>2, <2>2, BecomesState DEF EndedAs
<1>3. CASE Becomes(OperationEnded(State, s, TRUE))
  <2> DEFINE T == OperationEnded(State, s, TRUE)
  <2>1. EndedAs(State, s, T) /\ T.shouldAbort = TRUE /\ T.error = TRUE
    BY Hands, EndedBadly
  <2>2. Becomes(T)
    BY <1>3
  <2> HIDE DEF T
  <2> QED
    BY <1>2, <2>1, <2>2
<1>4. CASE State.shouldAbort /\ Becomes(OperationEnded(State, s, FALSE))
  <2> DEFINE T == OperationEnded(State, s, FALSE)
  <2>1. EndedAs(State, s, T) /\ T.shouldAbort = State.shouldAbort /\ T.error = State.error
    BY <1>1, Hands, EndedWell
  <2>2. Becomes(T)
    BY <1>4
  <2> HIDE DEF T
  <2>3. T.shouldAbort = TRUE /\ T.error \in BOOLEAN
    BY <1>1, <1>4, <2>1 DEF Flags
  <2> QED
    BY <1>2, <2>1, <2>2, <2>3
<1> QED
  BY <1>3, <1>4

LEMMA AnsweredEffect ==
  ASSUME Counted, Typed(State), NEW s \in Slot, Answered(s)
  PROVE  \/ Over(State, State', s)
         \/ \E outcome \in [Actions(ops[s].body) -> {"ok", "busy", "error"}] :
              AnsweredAs(State, State', s, outcome)
<1>1. CASE Becomes(OperationEnded(State, s, TRUE))
  BY <1>1, OverEffect
<1>2. ASSUME NEW outcome \in [Actions(ops[s].body) -> {"ok", "busy", "error"}],
             WellFormed(State, ops[s].body), Becomes(Answer(State, s, outcome))
      PROVE  AnsweredAs(State, State', s, outcome)
  <2> DEFINE T == Answer(State, s, outcome)
  <2>1. Flags(State)
    BY DEF Typed, Flags
  <2>2. Frame(State, T) /\ AnswerOutcome(State, s, outcome, T)
    BY <2>1, Hands, AnswerFrame DEF AnswerOutcome
  <2>3. Becomes(T)
    BY <1>2
  <2> HIDE DEF T
  <2>4. State' = T
    BY <2>2, <2>3, BecomesState DEF Frame
  <2>5. AtKept(State, T, NoOne)
    BY <2>2, Hands, ReleasedAt DEF AtKept, Frame
  <2> QED
    BY <1>2, <2>2, <2>4, <2>5, StateFields DEF AnsweredAs
<1>3. \/ Becomes(OperationEnded(State, s, TRUE))
      \/ \E outcome \in [Actions(ops[s].body) -> {"ok", "busy", "error"}] :
           WellFormed(State, ops[s].body) /\ Becomes(Answer(State, s, outcome))
  BY Zenon DEF Answered
<1> QED
  BY <1>1, <1>2, <1>3

LEMMA RetryEffect ==
  ASSUME Counted, Typed(State), NEW s \in Slot, Retry(s)
  PROVE  Over(State, State', s) \/ SentAgain(State, State', s)
<1> DEFINE o == [ops[s] EXCEPT !.pc = "sent"]
           T == [State EXCEPT !.ops = [ops EXCEPT ![s] = o]]
<1>1. \/ State.shouldAbort /\ Becomes(OperationEnded(State, s, FALSE))
      \/ Becomes(T)
  <2> DEFINE T0 == [State EXCEPT !.ops[s].pc = "sent"]
  <2>1. T0 = T
    BY StateFields
  <2>2. \/ State.shouldAbort /\ Becomes(OperationEnded(State, s, FALSE))
        \/ Becomes(T0)
    BY StateFields, Zenon DEF Retry
  <2> HIDE DEF T, T0
  <2> QED
    BY <2>1, <2>2
<1>2. IsState(T) /\ T.source = State.source /\ T.body = State.body /\ T.copy = State.copy
      /\ T.stats = State.stats /\ SameFlags(State, T) /\ T.sem = State.sem
      /\ T.loop = State.loop /\ T.timer = State.timer /\ T.ops = [State.ops EXCEPT ![s] = o]
  <2> HIDE DEF o
  <2> QED
    BY StateFields, Hands DEF IsState, Fields, SameFlags
<1>3. SentAgain(State, T, s)
  <2> HIDE DEF T
  <2> QED
    BY <1>2, StateFields DEF SentAgain
<1> HIDE DEF T
<1> QED
  BY <1>1, <1>2, <1>3, OverEffect, BecomesState

LEMMA AbortEffect ==
  ASSUME Counted, Abort
  PROVE  Aborted(State, State')
<1> DEFINE T == [State EXCEPT !.shouldAbort = TRUE, !.timer = "cleared"]
<1>1. Becomes(T)
  BY DEF Abort
<1>2. IsState(T) /\ Aborted(State, T)
  BY Hands DEF IsState, Fields, Aborted, SameDocs
<1> HIDE DEF T
<1> QED
  BY <1>1, <1>2, BecomesState

LEMMA RefreshedEffect ==
  ASSUME Counted, Refreshed
  PROVE  Ended(State, State')
<1>1. PICK end \in {"resolved", "rejected"} : Becomes([State EXCEPT !.loop = end])
  BY DEF Refreshed
<1> DEFINE T == [State EXCEPT !.loop = end]
<1>2. IsState(T) /\ Ended(State, T)
  BY Hands, StateFields DEF Refreshed, IsState, Fields, Ended, SameDocs, SameFlags
<1>3. Becomes(T)
  BY <1>1
<1> HIDE DEF T
<1> QED
  BY <1>2, <1>3, BecomesState

-----------------------------------------------------------------------------
\* Every step keeps the types.
LEMMA Grown ==
  ASSUME NEW n \in Nat, NEW b, BodyOk(b, n)
  PROVE  BodyOk(b, n + 1)
<1> SUFFICES ASSUME NEW l, LineOk(l, n) PROVE LineOk(l, n + 1)
  BY DEF BodyOk
<1>1. 1..n \subseteq 1..(n + 1)
  OBVIOUS
<1> QED
  BY <1>1 DEF LineOk

\* Types are kept by each effect, one after the other.
LEMMA ChunkTyped ==
  ASSUME NEW S, Typed(S), NEW operation \in Operations, NEW T, Chunk(S, T, operation)
  PROVE  Typed(T)
<1> DEFINE n == Len(S.source)
           new == Lines(n + 1, operation)
<1>1. n \in Nat /\ S.source \in Seq(OperationNames) /\ operation \in OperationNames
  BY BulkAssumption DEF Typed
<1>2. T.source \in Seq(OperationNames) /\ Len(T.source) = n + 1 /\ n + 1 <= MaxDocs
  BY <1>1, BulkAssumption DEF Chunk
<1>3. BodyOk(S.body, n + 1) /\ CopyOk(S.copy, n + 1) /\ OpsOk(S.ops, n + 1)
  BY <1>1, Grown DEF Typed, CopyOk, OpsOk
<1>4. S.stats \in StatsType(n + 1)
  <2>1. \A X, Y : X \subseteq Y =>
          [successful : Nat, failed : Nat, stored : SUBSET X, dropped : SUBSET X] \subseteq
            [successful : Nat, failed : Nat, stored : SUBSET Y, dropped : SUBSET Y]
    OBVIOUS
  <2>2. 1..n \subseteq 1..(n + 1) /\ S.stats \in StatsType(n)
    BY <1>1 DEF Typed
  <2> QED
    BY <2>1, <2>2, Zenon DEF StatsType
<1>5. new \in Seq(LineType) /\ \A k \in DOMAIN new : LineOk(new[k], n + 1)
  <2>1. n + 1 \in 0..MaxDocs /\ n + 1 \in 1..(n + 1)
    BY <1>1, <1>2, BulkAssumption
  <2>2. Line(n + 1, "action") \in LineType /\ Line(n + 1, "source") \in LineType
        /\ LineOk(Line(n + 1, "action"), n + 1) /\ LineOk(Line(n + 1, "source"), n + 1)
    BY <2>1 DEF Line, LineType, LineOk
  <2> QED
    BY <2>2 DEF Lines
<1>6. BodyOk(T.body, n + 1)
  <2>1. T.body = S.body \o new /\ S.body \in Seq(LineType)
    BY DEF Chunk, Typed, BodyOk
  <2>2. \A k \in DOMAIN S.body : LineOk(S.body[k], n + 1)
    BY <1>3 DEF BodyOk
  <2> HIDE DEF new
  <2>3. T.body \in Seq(LineType)
    BY <1>5, <2>1
  <2>4. ASSUME NEW k \in DOMAIN T.body PROVE LineOk(T.body[k], n + 1)
    <3>1. CASE k \in DOMAIN S.body
      BY <2>1, <2>2, <1>5, <3>1
    <3>2. CASE k \notin DOMAIN S.body
      <4>1. k - Len(S.body) \in DOMAIN new /\ T.body[k] = new[k - Len(S.body)]
        BY <1>5, <2>1, <2>4, <3>2
      <4> QED
        BY <1>5, <4>1
    <3> QED
      BY <3>1, <3>2
  <2> QED
    BY <2>3, <2>4 DEF BodyOk
<1>7. T.loop \in LoopStates
  BY DEF Chunk, LoopStates
<1> HIDE DEF n
<1> QED
  BY <1>2, <1>3, <1>4, <1>6, <1>7 DEF Typed, Chunk, SameFlags, n

LEMMA SentTyped ==
  ASSUME setting \in Settings, NEW S, Typed(S), NEW b, BodyOk(b, Len(S.source)),
         NEW T, Sent(S, T, b)
  PROVE  OpsOk(T.ops, Len(S.source))
<1>1. PICK s \in Slot :
        T.ops = [S.ops EXCEPT ![s] =
                   IF S.shouldAbort THEN Free
                   ELSE [pc |-> "sent", body |-> b, retries |-> setting.retries]]
  BY DEF Sent
<1>2. setting.retries \in Nat
  BY BulkAssumption DEF SettingType
<1>3. [pc |-> "sent", body |-> b, retries |-> setting.retries] \in OperationType
  BY <1>2 DEF OperationType, BodyOk
<1>4. OpsOk(S.ops, Len(S.source))
  BY DEF Typed
<1>5. CASE S.shouldAbort
  BY <1>1, <1>4, <1>5, FreeOk
<1>6. CASE ~S.shouldAbort
  BY <1>1, <1>3, <1>4, <1>6, WithOpOk
<1> QED
  BY <1>5, <1>6

LEMMA AnsweredTyped ==
  ASSUME NEW S, Typed(S), NEW s \in Slot, NEW outcome, NEW T, AnsweredAs(S, T, s, outcome)
  PROVE  Typed(T)
<1> DEFINE n == Len(S.source)
           b == S.ops[s].body
           st == Counting(S, b, outcome)
           r == RetryLines(S, b, With(b, outcome, "busy"))
<1>1. n \in Nat /\ n <= MaxDocs /\ OpsOk(S.ops, n) /\ S.stats \in StatsType(n)
      /\ BodyOk(b, n)
  BY DEF Typed, OpsOk
<1>2. BodyOk(r, n)
  <2>1. With(b, outcome, "busy") \in SUBSET Actions(b)
    BY DEF With
  <2> QED
    BY <1>1, <2>1, RetryLinesOk
<1>3. OpsOk(T.ops, n) /\ T.stats \in StatsType(n)
  <2>1. CASE T.ops = S.ops /\ T.stats = S.stats
    BY <1>1, <2>1
  <2>2. CASE ~Missing(S, b, outcome) /\ \E D : ItemsCounted(S, st, D) /\ Retried(D, s, r, T)
    <3>1. PICK D : ItemsCounted(S, st, D) /\ Retried(D, s, r, T)
      BY <2>2
    <3>2. st \in StatsType(n)
      BY <1>1, <2>2, StatsCounted
    <3> HIDE DEF n, b, st, r
    <3> QED
      BY <1>1, <1>2, <3>1, <3>2, RetriedTyped DEF ItemsCounted
  <2> QED
    BY <2>1, <2>2 DEF AnsweredAs, AnswerOutcome
<1>4. T.loop \in LoopStates
  BY DEF AnsweredAs, Frame, Typed, Endings, LoopStates
<1> HIDE DEF b, st, r
<1> QED
  BY <1>1, <1>3, <1>4 DEF Typed, AnsweredAs, Frame

LEMMA OverTyped ==
  ASSUME NEW S, Typed(S), NEW s \in Slot, NEW T, Over(S, T, s)
  PROVE  Typed(T)
<1>1. OpsOk(T.ops, Len(S.source))
  BY FreeOk DEF Typed, Over
<1>2. T.loop \in LoopStates
  BY DEF Typed, Over, Keeps, Endings, LoopStates
<1> QED
  BY <1>1, <1>2 DEF Typed, Over, Keeps

LEMMA TakenTyped ==
  ASSUME NEW S, Typed(S), NEW f \in Flush, NEW T, Taken(S, T, f)
  PROVE  Typed(T)
<1>1. CopyOk(T.copy, Len(S.source))
  BY DEF Typed, Taken, CopyOk, BodyOk
<1> QED
  BY <1>1, EmptyOk DEF Typed, Taken, SameFlags

LEMMA SameTyped ==
  ASSUME NEW S, Typed(S), NEW T,
         \/ LoopEnded(S, T) \/ Rejected(S, T) \/ Fired(S, T) \/ Aborted(S, T) \/ Ended(S, T)
  PROVE  Typed(T)
<1>1. SameDocs(S, T) /\ T.loop \in LoopStates /\ T.timer \in {"armed", "fired", "cleared"}
      /\ T.shouldAbort \in BOOLEAN /\ T.error \in BOOLEAN
  <2>1. CASE LoopEnded(S, T)
    BY <2>1 DEF LoopEnded, SameFlags, Endings, LoopStates, Typed
  <2>2. CASE Rejected(S, T)
    BY <2>2 DEF Rejected, SameFlags, LoopStates, Typed
  <2>3. CASE Fired(S, T)
    BY <2>3 DEF Fired, SameFlags, Typed
  <2>4. CASE Aborted(S, T)
    BY <2>4 DEF Aborted, Typed
  <2>5. CASE Ended(S, T)
    BY <2>5 DEF Ended, SameFlags, LoopStates, Typed
  <2> QED
    BY <2>1, <2>2, <2>3, <2>4, <2>5
<1> QED
  BY <1>1 DEF Typed, SameDocs

LEMMA LoopSentTyped ==
  ASSUME setting \in Settings, NEW S, Typed(S), NEW T, LoopSent(S, T)
  PROVE  Typed(T)
<1>1. BodyOk(S.body, Len(S.source)) /\ Sent(S, T, S.body)
  BY DEF Typed, LoopSent
<1>2. OpsOk(T.ops, Len(S.source))
  BY <1>1, SentTyped
<1>3. BodyOk(T.body, Len(S.source)) /\ T.loop \in LoopStates
  BY EmptyOk DEF Typed, LoopSent, Endings, LoopStates
<1> QED
  BY <1>2, <1>3 DEF Typed, LoopSent, Sent, SameFlags

LEMMA FlushSentTyped ==
  ASSUME setting \in Settings, NEW S, Typed(S), NEW f \in Flush, NEW T, FlushSent(S, T, f)
  PROVE  Typed(T)
<1>1. BodyOk(S.copy[f], Len(S.source)) /\ Sent(S, T, S.copy[f])
  BY DEF Typed, FlushSent, CopyOk
<1>2. OpsOk(T.ops, Len(S.source))
  BY <1>1, SentTyped
<1>3. CopyOk(T.copy, Len(S.source)) /\ T.loop \in LoopStates
  BY EmptyOk DEF Typed, FlushSent, CopyOk, Endings, LoopStates
<1> QED
  BY <1>2, <1>3 DEF Typed, FlushSent, Sent, SameFlags

LEMMA SentAgainTyped ==
  ASSUME NEW S, Typed(S), NEW s \in Slot, NEW T, SentAgain(S, T, s)
  PROVE  Typed(T)
<1> DEFINE o == [S.ops[s] EXCEPT !.pc = "sent"]
<1>1. o \in OperationType /\ o.body = S.ops[s].body
  BY DEF Typed, OpsOk, OperationType
<1> HIDE DEF o
<1>2. OpsOk([S.ops EXCEPT ![s] = o], Len(S.source))
  BY <1>1, WithOpOk DEF Typed, OpsOk
<1> QED
  BY <1>2 DEF Typed, SentAgain, SameFlags, o

\* What each step does, in one formula.
Effects(S, T) ==
  \/ LoopEnded(S, T) \/ Rejected(S, T) \/ \E operation \in Operations : Chunk(S, T, operation)
  \/ Fired(S, T) \/ \E f \in Flush : Taken(S, T, f) \/ FlushSent(S, T, f)
  \/ LoopSent(S, T)
  \/ \E s \in Slot :
       \/ Over(S, T, s) \/ SentAgain(S, T, s)
       \/ \E outcome \in [Actions(S.ops[s].body) -> {"ok", "busy", "error"}] :
            AnsweredAs(S, T, s, outcome)
  \/ Aborted(S, T) \/ Ended(S, T)

\* Each step has one of the effects.
LEMMA NextEffects ==
  ASSUME Counted, Typed(State), Next
  PROVE  Effects(State, State')
<1>1. CASE \E operation \in Operations : NextChunk(operation)
  BY <1>1, NextChunkEffect DEF Effects
<1>2. CASE EndOfData
  BY <1>2, EndLoopEffect DEF Effects, EndOfData
<1>3. CASE FlushTimeout
  BY <1>3, FlushTimeoutEffect DEF Effects
<1>4. CASE ResumeLoop
  BY <1>4, ResumeLoopEffect DEF Effects
<1>5. CASE \E f \in Flush : ResumeFlush(f)
  BY <1>5, ResumeFlushEffect DEF Effects
<1>6. CASE \E s \in Slot : Answered(s)
  BY <1>6, AnsweredEffect, StateFields DEF Effects
<1>7. CASE \E s \in Slot : Retry(s)
  BY <1>7, RetryEffect DEF Effects
<1>8. CASE Abort
  BY <1>8, AbortEffect DEF Effects
<1>9. CASE Refreshed
  BY <1>9, RefreshedEffect DEF Effects
<1> QED
  BY <1>1, <1>2, <1>3, <1>4, <1>5, <1>6, <1>7, <1>8, <1>9 DEF Next, Read

\* Each effect keeps the types.
LEMMA TypedStep ==
  ASSUME setting \in Settings, NEW S, Typed(S), NEW T, Effects(S, T)
  PROVE  Typed(T)
<1>1. CASE LoopEnded(S, T) \/ Rejected(S, T) \/ Fired(S, T) \/ Aborted(S, T) \/ Ended(S, T)
  BY <1>1, SameTyped
<1>2. CASE \E operation \in Operations : Chunk(S, T, operation)
  BY <1>2, ChunkTyped
<1>3. CASE \E f \in Flush : Taken(S, T, f) \/ FlushSent(S, T, f)
  BY <1>3, TakenTyped, FlushSentTyped
<1>4. CASE LoopSent(S, T)
  BY <1>4, LoopSentTyped
<1>5. CASE \E s \in Slot :
       \/ Over(S, T, s) \/ SentAgain(S, T, s)
       \/ \E outcome \in [Actions(S.ops[s].body) -> {"ok", "busy", "error"}] :
            AnsweredAs(S, T, s, outcome)
  BY <1>5, OverTyped, SentAgainTyped, AnsweredTyped
<1> QED
  BY <1>1, <1>2, <1>3, <1>4, <1>5 DEF Effects

Sound == Counted /\ Typed(State)

\* The inductive invariant: the semaphore counts right, and the state is typed.
LEMMA InitSound == Init => Sound
<1> SUFFICES ASSUME Init PROVE Typed(State)
  BY InitGood DEF Sound
<1>1. /\ State.loop = "reading" /\ State.source = <<>> /\ State.body = <<>> /\ State.timer = "armed"
      /\ State.copy = [f \in Flush |-> <<>>] /\ State.shouldAbort = FALSE /\ State.error = FALSE
      /\ State.ops = [s \in Slot |-> Free]
      /\ State.stats = [successful |-> 0, failed |-> 0, stored |-> {}, dropped |-> {}]
  BY DEF Init, State
<1>2. <<>> \in Seq(OperationNames) /\ Len(<<>>) = 0 /\ <<>> \in Seq(LineType)
  OBVIOUS
<1>3. Free \in OperationType /\ Free.body = <<>>
  BY DEF Free, OperationType
<1>4. OpsOk(State.ops, 0) /\ CopyOk(State.copy, 0) /\ BodyOk(State.body, 0)
  BY <1>1, <1>2, <1>3, EmptyOk DEF OpsOk, CopyOk
<1>5. State.stats \in StatsType(0)
  BY <1>1 DEF StatsType
<1>6. Len(State.source) = 0 /\ 0 <= MaxDocs /\ State.source \in Seq(OperationNames)
  BY <1>1, <1>2, BulkAssumption
<1>7. State.loop \in LoopStates /\ State.timer \in {"armed", "fired", "cleared"}
      /\ State.shouldAbort \in BOOLEAN /\ State.error \in BOOLEAN
  BY <1>1 DEF LoopStates
<1> QED
  BY <1>4, <1>5, <1>6, <1>7 DEF Typed

LEMMA NextSound == Sound /\ [Next]_vars => Sound'
<1> SUFFICES ASSUME Sound, [Next]_vars PROVE Sound'
  OBVIOUS
<1>1. Counted'
  BY NextGood DEF Sound
<1>2. Typed(State')
  <2>1. CASE Next
    BY <2>1, NextEffects, TypedStep DEF Sound, Counted
  <2>2. CASE UNCHANGED vars
    <3>1. State' = State
      BY <2>2 DEF vars, State
    <3> QED
      BY <3>1 DEF Sound
  <2> QED
    BY <2>1, <2>2
<1> QED
  BY <1>1, <1>2 DEF Sound

\* It implies the type invariant that the run checks.
LEMMA SoundIsTyped == Sound => TypeOK
<1> SUFFICES ASSUME Sound PROVE TypeOK
  OBVIOUS
<1>1. sem \in SemaphoreType /\ setting \in Settings
  BY StateFields DEF Sound, Counted, Good, Ready, SemOk
<1>2. State.stats = stats /\ DOMAIN source = 1..Len(source)
  BY DEF State, Sound, Typed
<1>3. stats \in [successful : Nat, failed : Nat, stored : SUBSET Docs, dropped : SUBSET Docs]
  BY <1>2, StateFields DEF Sound, Typed, StatsType, Docs
<1> QED
  BY <1>1, <1>3, StateFields DEF Sound, Typed, TypeOK, BodyOk, CopyOk, OpsOk, OperationType

\* Every variable of the bulk helper has its type, in particular with deletes, where the code takes
\* lines from the wrong place.
THEOREM BulkTyped == Spec => []TypeOK
BY InitSound, NextSound, SoundIsTyped, PTL DEF Spec

-----------------------------------------------------------------------------
\* Without deletes, each operation of a body has two lines, and no document has two operations.
Paired(b) ==
  /\ Len(b) % 2 = 0
  /\ \A k \in DOMAIN b : b[k].part = IF k % 2 = 1 THEN "action" ELSE "source"
  /\ \A k \in Heads(b) : b[k + 1].doc = b[k].doc
  /\ \A j, k \in Heads(b) : b[j].doc = b[k].doc => j = k

\* The documents of a body are those of its odd lines.
LEMMA PairedDocs ==
  ASSUME NEW b \in Seq(LineType), Paired(b)
  PROVE  /\ DocsIn(b) = {b[k].doc : k \in Heads(b)}
         /\ Actions(b) = Heads(b)
         /\ \A k \in Heads(b) : k \in Nat /\ k + 1 \in DOMAIN b
<1>1. Len(b) \in Nat /\ DOMAIN b = 1..Len(b)
  OBVIOUS
<1>2. Actions(b) = Heads(b)
  BY DEF Actions, Heads, Paired
<1>3. ASSUME NEW k \in Heads(b) PROVE k \in Nat /\ k + 1 \in DOMAIN b
  BY <1>1 DEF Heads, Paired
<1>4. ASSUME NEW k \in DOMAIN b PROVE \E j \in Heads(b) : b[k].doc = b[j].doc
  <2>1. CASE k % 2 = 1
    BY <2>1 DEF Heads
  <2>2. CASE k % 2 # 1
    <3>1. k - 1 \in Heads(b)
      BY <1>1, <2>2 DEF Heads
    <3>2. b[(k - 1) + 1].doc = b[k - 1].doc
      BY <3>1 DEF Paired
    <3>3. (k - 1) + 1 = k
      BY <1>1
    <3> QED
      BY <3>1, <3>2, <3>3
  <2> QED
    BY <2>1, <2>2
<1>5. DocsIn(b) = {b[k].doc : k \in DOMAIN b}
  BY DEF DocsIn, Range
<1>6. Heads(b) \subseteq DOMAIN b
  BY DEF Heads
<1>7. {b[k].doc : k \in DOMAIN b} = {b[k].doc : k \in Heads(b)}
  BY <1>4, <1>6
<1> QED
  BY <1>2, <1>3, <1>5, <1>7

\* One document for each operation.
LEMMA DocsCounted ==
  ASSUME NEW b \in Seq(LineType), Paired(b), NEW items \in SUBSET Heads(b)
  PROVE  /\ IsFiniteSet(items) /\ IsFiniteSet({b[k].doc : k \in items})
         /\ Cardinality({b[k].doc : k \in items}) = Cardinality(items)
<1> DEFINE D == {b[k].doc : k \in items}
           f == [k \in items |-> b[k].doc]
<1>1. IsFiniteSet(items)
  <2>1. Heads(b) \subseteq DOMAIN b
    BY DEF Heads
  <2> QED
    BY <2>1, ActionsFinite, FS_Subset
<1>2. f \in [items -> D] /\ (\A x \in D : \E k \in items : f[k] = x)
      /\ \A j, k \in items : f[j] = f[k] => j = k
  BY DEF Paired
<1>3. f \in Bijection(items, D)
  <2> HIDE DEF f, D
  <2> QED
    BY <1>2 DEF Bijection, Injection, Surjection, IsInjective
<1>4. ExistsBijection(items, D)
  BY <1>3 DEF ExistsBijection
<1> QED
  BY <1>1, <1>4, FS_Bijection

\* The code looks for the lines of an item where they are.
LEMMA SliceRight ==
  ASSUME NEW n \in Nat, NEW S, \A d \in 1..n : S.source[d] # "delete",
         NEW b, BodyOk(b, n), Paired(b), NEW k \in Heads(b)
  PROVE  /\ k \in DOMAIN b /\ b[k].part = "action" /\ b[k].doc \in 1..n
         /\ ~IsDelete(S, b[k]) /\ Slice(S, b, k) = k
         /\ At(b, k) = b[k] /\ At(b, k + 1) = b[k + 1]
         /\ b[k + 1].part = "source" /\ k + 1 \in DOMAIN b
<1>1. b \in Seq(LineType) /\ DOMAIN b = 1..Len(b) /\ Len(b) \in Nat
  BY DEF BodyOk
<1>2. k \in DOMAIN b /\ k + 1 \in DOMAIN b /\ k \in Nat /\ k % 2 = 1
  BY <1>1, PairedDocs DEF Heads
<1>3. b[k].part = "action" /\ b[k + 1].part = "source"
  BY <1>1, <1>2 DEF Paired
<1>4. b[k].doc \in 1..n
  <2>1. LineOk(b[k], n)
    BY <1>2 DEF BodyOk
  <2> QED
    BY <1>3, <2>1 DEF LineOk, Undefined, Line
<1>5. ~IsDelete(S, b[k])
  BY <1>4 DEF IsDelete
<1>6. 2 * Rank(Actions(b), k) - 1 = k
  <2>1. Actions(b) \in SUBSET Nat /\ 0 \notin Actions(b)
    BY <1>1 DEF Actions
  <2>2. \A j \in 1..k : j \in Actions(b) <=> j % 2 = 1
    BY <1>1, <1>2 DEF Actions, Paired
  <2> QED
    BY <1>2, <2>1, <2>2, OddRank
<1> QED
  BY <1>2, <1>3, <1>4, <1>5, <1>6 DEF Slice, At

\* What is retried: both lines of each item, one item after the other.
LEMMA RetryPaired ==
  ASSUME NEW n \in Nat, n <= MaxDocs, NEW S, \A d \in 1..n : S.source[d] # "delete",
         NEW b, BodyOk(b, n), Paired(b), NEW items \in SUBSET Heads(b)
  PROVE  /\ RetryLines(S, b, items) \in Seq(LineType)
         /\ Paired(RetryLines(S, b, items))
         /\ DocsIn(RetryLines(S, b, items)) = {b[k].doc : k \in items}
         /\ Cardinality(Heads(RetryLines(S, b, items))) = Cardinality(items)
<1> DEFINE P == {2 * k : k \in items} \cup {2 * k + 1 : k \in items}
           r == RetryLines(S, b, items)
           L == Cardinality(P)
<1>0. \A k \in items : Slice(S, b, k) = k /\ At(b, k) = b[k] /\ At(b, k + 1) = b[k + 1]
  BY SliceRight
<1>1. b \in Seq(LineType) /\ Actions(b) = Heads(b) /\ IsFiniteSet(items) /\ items \in SUBSET Nat
  BY PairedDocs, DocsCounted DEF BodyOk
<1>2. r = [i \in 1..L |-> At(b, Slice(S, b, Nth(P, i) \div 2) + (Nth(P, i) % 2))]
  <2>1. {j \in items : ~IsDelete(S, b[j])} = items
    BY SliceRight
  <2> QED
    BY <2>1 DEF RetryLines
<1>3. /\ P \in SUBSET Nat /\ IsFiniteSet(P) /\ L = 2 * Cardinality(items)
      /\ \A k \in items : Rank(P, 2 * k) % 2 = 1 /\ Rank(P, 2 * k + 1) = Rank(P, 2 * k) + 1
  BY <1>1, PushedRanks
<1>4. Cardinality(items) \in Nat /\ L \in Nat
  BY <1>1, <1>3, FS_CardinalityType
<1>5. \A k \in items : 2 * k \in P /\ 2 * k + 1 \in P
  OBVIOUS
<1>6. \A m \in P : \E k \in items : m = 2 * k \/ m = 2 * k + 1
  OBVIOUS
<1> HIDE DEF P, L, r
<1>7. ASSUME NEW i \in 1..L, NEW k \in items
      PROVE  /\ Nth(P, i) = 2 * k => r[i] = b[k]
             /\ Nth(P, i) = 2 * k + 1 => r[i] = b[k + 1]
  <2>1. k \in Nat
    BY <1>1
  <2>2. (2 * k) \div 2 = k /\ (2 * k) % 2 = 0 /\ (2 * k + 1) \div 2 = k /\ (2 * k + 1) % 2 = 1
        /\ k + 0 = k
    BY <2>1
  <2>3. Slice(S, b, k) = k /\ At(b, k) = b[k] /\ At(b, k + 1) = b[k + 1]
    BY <1>0
  <2>4. r[i] = At(b, Slice(S, b, Nth(P, i) \div 2) + (Nth(P, i) % 2))
    BY <1>2
  <2> QED
    BY <2>2, <2>3, <2>4
<1>8. ASSUME NEW k \in items
      PROVE  LET i == Rank(P, 2 * k)
             IN  /\ i \in 1..L /\ i + 1 \in 1..L /\ i % 2 = 1
                 /\ Nth(P, i) = 2 * k /\ r[i] = b[k] /\ r[i + 1] = b[k + 1]
  <2> DEFINE i == Rank(P, 2 * k)
  <2>1. 2 * k \in P /\ 2 * k + 1 \in P /\ i % 2 = 1 /\ Rank(P, 2 * k + 1) = i + 1
    BY <1>3, <1>5
  <2>2. i \in 1..L /\ i + 1 \in 1..L
    BY <1>3, <2>1, RankRange DEF L
  <2>3. Nth(P, i) = 2 * k /\ Nth(P, i + 1) = 2 * k + 1
    BY <1>3, <2>1, NthOfRank
  <2> HIDE DEF i
  <2>4. r[i] = b[k] /\ r[i + 1] = b[k + 1]
    BY <1>7, <2>2, <2>3
  <2> QED
    BY <2>1, <2>2, <2>3, <2>4 DEF i
<1>9. ASSUME NEW i \in 1..L
      PROVE  \E k \in items : \/ i % 2 = 1 /\ i = Rank(P, 2 * k)
                              \/ i % 2 = 0 /\ i = Rank(P, 2 * k) + 1
  <2>1. Nth(P, i) \in P /\ Rank(P, Nth(P, i)) = i
    BY <1>3, NthHasRank DEF L
  <2>2. PICK k \in items : Nth(P, i) = 2 * k \/ Nth(P, i) = 2 * k + 1
    BY <1>6, <2>1
  <2>3. Rank(P, 2 * k) \in 1..L /\ Rank(P, 2 * k) % 2 = 1 /\ Rank(P, 2 * k + 1) = Rank(P, 2 * k) + 1
    BY <1>3, <1>8
  <2>4. CASE Nth(P, i) = 2 * k
    BY <2>1, <2>3, <2>4
  <2>5. CASE Nth(P, i) = 2 * k + 1
    <3>1. i = Rank(P, 2 * k) + 1
      BY <2>1, <2>3, <2>5
    <3>2. i % 2 = 0
      BY <1>4, <2>3, <3>1
    <3> QED
      BY <3>1, <3>2
  <2> QED
    BY <2>2, <2>4, <2>5
<1>10. DOMAIN r = 1..L /\ r \in Seq(LineType) /\ Len(r) = L
  <2>1. \A k : At(b, k) \in LineType
    BY AtOk
  <2> QED
    BY <1>2, <1>4, <2>1
<1>11. L % 2 = 0
  BY <1>3, <1>4
<1>12. Heads(r) = {i \in 1..L : i % 2 = 1}
  BY <1>10 DEF Heads
<1>13. ASSUME NEW i \in Heads(r)
       PROVE  \E k \in items : /\ i = Rank(P, 2 * k) /\ Nth(P, i) = 2 * k
                               /\ r[i] = b[k] /\ r[i + 1] = b[k + 1]
  <2>1. i \in 1..L /\ i % 2 = 1
    BY <1>12
  <2>2. PICK k \in items : i = Rank(P, 2 * k)
    BY <1>9, <2>1
  <2> QED
    BY <1>8, <2>2
<1>14. \A k \in items : b[k].part = "action" /\ b[k + 1].part = "source"
                        /\ b[k + 1].doc = b[k].doc
  BY SliceRight DEF Paired
<1>15. \A i \in DOMAIN r : r[i].part = IF i % 2 = 1 THEN "action" ELSE "source"
  <2> SUFFICES ASSUME NEW i \in 1..L PROVE r[i].part = IF i % 2 = 1 THEN "action" ELSE "source"
    BY <1>10
  <2>1. PICK k \in items : \/ i % 2 = 1 /\ i = Rank(P, 2 * k)
                           \/ i % 2 = 0 /\ i = Rank(P, 2 * k) + 1
    BY <1>9
  <2>2. r[Rank(P, 2 * k)] = b[k] /\ r[Rank(P, 2 * k) + 1] = b[k + 1]
    BY <1>8
  <2>3. b[k].part = "action" /\ b[k + 1].part = "source"
    BY <1>14
  <2> QED
    BY <2>1, <2>2, <2>3
<1>16. \A i \in Heads(r) : r[i + 1].doc = r[i].doc
  BY <1>13, <1>14
<1>17. \A i, j \in Heads(r) : r[i].doc = r[j].doc => i = j
  <2> SUFFICES ASSUME NEW i \in Heads(r), NEW j \in Heads(r), r[i].doc = r[j].doc PROVE i = j
    OBVIOUS
  <2>1. PICK k \in items : i = Rank(P, 2 * k) /\ r[i] = b[k]
    BY <1>13
  <2>2. PICK m \in items : j = Rank(P, 2 * m) /\ r[j] = b[m]
    BY <1>13
  <2>3. k = m
    BY <2>1, <2>2 DEF Paired
  <2> QED
    BY <2>1, <2>2, <2>3
<1>18. Paired(r)
  BY <1>10, <1>11, <1>15, <1>16, <1>17 DEF Paired
<1>19. {r[i].doc : i \in Heads(r)} = {b[k].doc : k \in items}
  <2>1. \A i \in Heads(r) : \E k \in items : r[i].doc = b[k].doc
    BY <1>13
  <2>2. \A k \in items : \E i \in Heads(r) : r[i].doc = b[k].doc
    BY <1>8, <1>12
  <2> QED
    BY <2>1, <2>2
<1>20. Cardinality(Heads(r)) = Cardinality(items)
  BY <1>1, <1>10, <1>18, <1>19, DocsCounted, ZenonT(30)
<1> QED
  BY <1>10, <1>18, <1>19, <1>20, PairedDocs DEF r

\* A response splits the documents of the operation in slot s: stored, dropped, to be retried.
Split(S, T, s, stored, dropped, again) ==
  /\ IsFiniteSet(stored) /\ IsFiniteSet(dropped)
  /\ stored \cap dropped = {} /\ stored \cap again = {} /\ dropped \cap again = {}
  /\ stored \cup dropped \cup again \subseteq DocsIn(S.ops[s].body)
  /\ S.shouldAbort \/ stored \cup dropped \cup again = DocsIn(S.ops[s].body)
  /\ T.stats.stored = S.stats.stored \cup stored
  /\ T.stats.dropped = S.stats.dropped \cup dropped
  /\ T.stats.successful = S.stats.successful + Cardinality(stored)
  /\ T.stats.failed = S.stats.failed + Cardinality(dropped)
  /\ \E o : /\ T.ops = [S.ops EXCEPT ![s] = o] /\ Paired(o.body) /\ DocsIn(o.body) = again
            /\ o.pc = "free" => o.body = <<>>

NoDelete(S) == \A i \in 1..Len(S.source) : S.source[i] # "delete"

\* Bodies without documents.
LEMMA EmptyPaired == Paired(<<>>) /\ DocsIn(<<>>) = {}
BY DEF Paired, Heads, DocsIn, Range

LEMMA FreePaired == Paired(Free.body) /\ DocsIn(Free.body) = {} /\ Free.body = <<>>
BY EmptyPaired DEF Free

\* onDrop finds all the lines it reads.
LEMMA PairedWhole ==
  ASSUME NEW S, NEW b \in Seq(LineType), Paired(b)
  PROVE  ~Crashing(S, b)
<1> SUFFICES ASSUME NEW k \in Heads(b) PROVE b[k] # Undefined /\ At(b, k + 1) # Undefined
  BY DEF Crashing
<1>1. k \in DOMAIN b /\ k + 1 \in DOMAIN b
  BY PairedDocs DEF Heads
<1> QED
  BY <1>1 DEF Paired, At, Undefined, Line

\* The documents of an operation that is answered are stored, dropped or to be retried.
LEMMA AnswerSplits ==
  ASSUME NEW S, Typed(S), NoDelete(S), NEW s \in Slot, Paired(S.ops[s].body),
         NEW outcome \in [Actions(S.ops[s].body) -> {"ok", "busy", "error"}],
         NEW T, AnsweredAs(S, T, s, outcome)
  PROVE  \E stored, dropped, again : Split(S, T, s, stored, dropped, again)
<1> DEFINE n == Len(S.source)
           b == S.ops[s].body
           I(o) == With(b, outcome, o)
           D(o) == {b[k].doc : k \in I(o)}
           st == Counting(S, b, outcome)
           r == RetryLines(S, b, I("busy"))
<1>1. n \in Nat /\ n <= MaxDocs /\ BodyOk(b, n) /\ b \in Seq(LineType) /\ Paired(b)
      /\ \A d \in 1..n : S.source[d] # "delete"
  BY DEF Typed, OpsOk, BodyOk, NoDelete
<1>2. DocsIn(b) = {b[k].doc : k \in Heads(b)} /\ Actions(b) = Heads(b)
  BY <1>1, PairedDocs
<1>3. \A o : I(o) \in SUBSET Heads(b)
  BY <1>2 DEF With
<1>4. Heads(b) = I("ok") \cup I("busy") \cup I("error")
  BY <1>2 DEF With
<1>5. \A o, p : o # p => I(o) \cap I(p) = {}
  BY DEF With
<1>6. \A o, p : o # p => D(o) \cap D(p) = {}
  BY <1>1, <1>3, <1>5 DEF Paired
<1>7. DocsIn(b) = D("ok") \cup D("busy") \cup D("error")
  BY <1>2, <1>4
<1>8. \A o : IsFiniteSet(I(o)) /\ IsFiniteSet(D(o)) /\ Cardinality(D(o)) = Cardinality(I(o))
             /\ Cardinality(I(o)) \in Nat
  BY <1>1, <1>3, DocsCounted, FS_CardinalityType
<1>9. \A k \in I("error") : LinesOfItem(S, b, k) = <<b[k], b[k + 1]>>
                            /\ b[k] # Undefined /\ b[k + 1] # Undefined
  <2> SUFFICES ASSUME NEW k \in Heads(b)
               PROVE  LinesOfItem(S, b, k) = <<b[k], b[k + 1]>>
                      /\ b[k] # Undefined /\ b[k + 1] # Undefined
    BY <1>3
  <2>1. ~IsDelete(S, b[k]) /\ Slice(S, b, k) = k /\ At(b, k) = b[k] /\ At(b, k + 1) = b[k + 1]
        /\ b[k].part = "action" /\ b[k + 1].part = "source"
    BY <1>1, SliceRight
  <2> QED
    BY <2>1 DEF LinesOfItem, Undefined, Line
<1>10. ~Missing(S, b, outcome)
  BY <1>9 DEF Missing, Range
<1>11. {LinesOfItem(S, b, k)[1].doc : k \in I("error")} = D("error")
  BY <1>9
<1>12. st = [S.stats EXCEPT
               !.successful = @ + Cardinality(I("ok")), !.failed = @ + Cardinality(I("error")),
               !.stored = @ \cup D("ok"), !.dropped = @ \cup D("error")]
  BY <1>11 DEF Counting
<1>13. r \in Seq(LineType) /\ Paired(r) /\ DocsIn(r) = D("busy")
       /\ Cardinality(Heads(r)) = Cardinality(I("busy"))
  BY <1>1, <1>3, RetryPaired
<1>14. PICK E : ItemsCounted(S, st, E) /\ Retried(E, s, r, T)
  BY <1>10 DEF AnsweredAs, AnswerOutcome
<1> HIDE DEF I, r, st, b
<1>15. ~Crashing(E, r)
  BY <1>13, PairedWhole
<1>16. S.stats \in StatsType(n)
  BY DEF Typed
<1>17. /\ st.stored = S.stats.stored \cup D("ok") /\ st.dropped = S.stats.dropped \cup D("error")
       /\ st.successful = S.stats.successful + Cardinality(I("ok"))
       /\ st.failed = S.stats.failed + Cardinality(I("error"))
       /\ st = [st EXCEPT !.failed = st.failed]
       /\ Dropping(st, r).stored = st.stored /\ Dropping(st, r).successful = st.successful
       /\ Dropping(st, r).dropped = st.dropped \cup {r[k].doc : k \in Heads(r)}
       /\ Dropping(st, r).failed = st.failed + Cardinality(Heads(r))
  <2> DEFINE c == Cardinality(I("ok"))
             e == Cardinality(I("error"))
             A == D("ok")
             C == D("error")
             h == Cardinality(Heads(r))
             H == {r[k].doc : k \in Heads(r)}
  <2> HIDE DEF c, e, A, C, D, h, H
  <2>1. st = [S.stats EXCEPT !.successful = @ + c, !.failed = @ + e,
                             !.stored = @ \cup A, !.dropped = @ \cup C]
    BY <1>12 DEF c, e, A, C
  <2>2. Dropping(st, r) = [st EXCEPT !.failed = @ + h, !.dropped = @ \cup H]
    BY DEF Dropping, h, H
  <2>3. S.stats = [x \in {"successful", "failed", "stored", "dropped"} |-> S.stats[x]]
    BY <1>16 DEF StatsType
  <2>4. /\ st.stored = S.stats.stored \cup A /\ st.dropped = S.stats.dropped \cup C
        /\ st.successful = S.stats.successful + c /\ st.failed = S.stats.failed + e
        /\ st = [x \in {"successful", "failed", "stored", "dropped"} |-> st[x]]
    BY <2>1, <2>3
  <2>5. /\ Dropping(st, r).stored = st.stored /\ Dropping(st, r).successful = st.successful
        /\ Dropping(st, r).dropped = st.dropped \cup H /\ Dropping(st, r).failed = st.failed + h
        /\ st = [st EXCEPT !.failed = st.failed]
    BY <2>2, <2>4
  <2> QED
    BY <2>4, <2>5 DEF c, e, A, C, h, H
<1>18. {r[k].doc : k \in Heads(r)} = D("busy")
  BY <1>13, PairedDocs
<1> DEFINE ok == D("ok")
           bad == D("error")
           busy == D("busy")
<1>19. /\ IsFiniteSet(ok) /\ IsFiniteSet(bad) /\ IsFiniteSet(busy)
       /\ ok \cap bad = {} /\ ok \cap busy = {} /\ bad \cap busy = {}
       /\ ok \cup bad \cup busy = DocsIn(b)
       /\ Cardinality(I("ok")) = Cardinality(ok) /\ Cardinality(I("error")) = Cardinality(bad)
       /\ Cardinality(I("busy")) = Cardinality(busy)
  BY <1>6, <1>7, <1>8
<1>20. Cardinality(bad \cup busy) = Cardinality(bad) + Cardinality(busy)
       /\ IsFiniteSet(bad \cup busy)
       /\ Cardinality(bad) \in Nat /\ Cardinality(busy) \in Nat /\ S.stats.failed \in Nat
  <2> HIDE DEF D
  <2>1. Cardinality(bad \cap busy) = 0
    BY <1>19, FS_EmptySet
  <2>2. S.stats.failed \in Nat
    BY <1>16 DEF StatsType
  <2> QED
    <3>1. Cardinality(bad) \in Nat /\ Cardinality(busy) \in Nat
      BY <1>19, FS_CardinalityType
    <3>2. IsFiniteSet(bad \cup busy)
          /\ Cardinality(bad \cup busy) =
               Cardinality(bad) + Cardinality(busy) - Cardinality(bad \cap busy)
      BY <1>19, FS_Union
    <3> HIDE DEF bad, busy
    <3> QED
      BY <2>1, <2>2, <3>1, <3>2
<1> HIDE DEF D, ok, bad, busy
<1>21. E.ops = S.ops /\ E.stats = st /\ E.shouldAbort = S.shouldAbort
  BY <1>14 DEF ItemsCounted
<1>22. CASE E.shouldAbort /\ T.ops = [E.ops EXCEPT ![s] = Free] /\ T.stats = E.stats
  <2>1. Split(S, T, s, ok, bad, {})
    <3>1. \E o : /\ T.ops = [S.ops EXCEPT ![s] = o] /\ Paired(o.body) /\ DocsIn(o.body) = {}
                 /\ o.pc = "free" => o.body = <<>>
      BY <1>21, <1>22, FreePaired
    <3>2. S.shouldAbort /\ ok \cup bad \cup {} \subseteq DocsIn(b)
      BY <1>19, <1>21, <1>22
    <3> QED
      BY <1>17, <1>19, <1>21, <1>22, <3>1, <3>2 DEF Split, ok, bad, b
  <2> QED
    BY <2>1
<1>23. CASE r = <<>> /\ T.ops = [E.ops EXCEPT ![s] = Free] /\ T.stats = E.stats
  <2>1. busy = {}
    BY <1>13, <1>23, EmptyPaired DEF busy
  <2>2. Split(S, T, s, ok, bad, busy)
    <3>1. \E o : /\ T.ops = [S.ops EXCEPT ![s] = o] /\ Paired(o.body) /\ DocsIn(o.body) = busy
                 /\ o.pc = "free" => o.body = <<>>
      BY <1>21, <1>23, <2>1, FreePaired
    <3> QED
      BY <1>17, <1>19, <1>21, <1>23, <3>1 DEF Split, ok, bad, b
  <2> QED
    BY <2>2
<1>24. ASSUME NEW again, T.ops = [E.ops EXCEPT ![s] = again], again.body = r, again.pc = "waiting",
              T.stats = E.stats
       PROVE  Split(S, T, s, ok, bad, busy)
  <2>1. /\ T.ops = [S.ops EXCEPT ![s] = again] /\ Paired(again.body) /\ DocsIn(again.body) = busy
        /\ again.pc = "free" => again.body = <<>>
    BY <1>13, <1>21, <1>24 DEF busy
  <2> QED
    BY <1>17, <1>19, <1>21, <1>24, <2>1 DEF Split, ok, bad, b
<1>25. CASE T.ops = [E.ops EXCEPT ![s] = Free] /\ T.stats = Dropping(E.stats, r)
  <2>1. \E o : /\ T.ops = [S.ops EXCEPT ![s] = o] /\ Paired(o.body) /\ DocsIn(o.body) = {}
               /\ o.pc = "free" => o.body = <<>>
    BY <1>21, <1>25, FreePaired
  <2>2. T.stats.dropped = S.stats.dropped \cup (bad \cup busy)
        /\ T.stats.stored = S.stats.stored \cup ok
        /\ T.stats.successful = S.stats.successful + Cardinality(ok)
    BY <1>17, <1>18, <1>19, <1>21, <1>25 DEF ok, bad, busy
  <2>3. T.stats.failed = S.stats.failed + Cardinality(bad \cup busy)
    <3>1. T.stats.failed = (S.stats.failed + Cardinality(bad)) + Cardinality(busy)
      BY <1>13, <1>17, <1>19, <1>21, <1>25
    <3> QED
      BY <1>20, <3>1
  <2>4. Split(S, T, s, ok, bad \cup busy, {})
    BY <1>19, <1>20, <2>1, <2>2, <2>3 DEF Split, b
  <2> QED
    BY <2>4
<1>26. PICK again : again = [pc |-> "waiting", body |-> r, retries |-> E.ops[s].retries - 1]
  OBVIOUS
<1>27. again.body = r /\ again.pc = "waiting"
  BY <1>26
<1>28. \/ E.shouldAbort /\ T.ops = [E.ops EXCEPT ![s] = Free] /\ T.stats = E.stats
       \/ r = <<>> /\ T.ops = [E.ops EXCEPT ![s] = Free] /\ T.stats = E.stats
       \/ T.ops = [E.ops EXCEPT ![s] = again] /\ T.stats = E.stats
       \/ T.ops = [E.ops EXCEPT ![s] = Free] /\ T.stats = Dropping(E.stats, r)
  BY <1>14, <1>15, <1>26 DEF Retried
<1> QED
  BY <1>22, <1>23, <1>24, <1>25, <1>27, <1>28

-----------------------------------------------------------------------------
\* Where documents are.
AtBody    == <<"body", NoOne>>
AtCopy(f) == <<"copy", f>>
AtOp(s)   == <<"op", s>>
AtStored  == <<"stored", NoOne>>
AtDropped == <<"dropped", NoOne>>

\* Whether bulkBody may still be sent.
Live(S) == S.loop \in {"reading", "flushing", "flushingLast"} \/ S.timer = "armed"

Holds(S, x, d) ==
  \/ x = AtBody /\ Live(S) /\ d \in DocsIn(S.body)
  \/ \E f \in Flush : x = AtCopy(f) /\ d \in DocsIn(S.copy[f])
  \/ \E s \in Slot : x = AtOp(s) /\ d \in DocsIn(S.ops[s].body)
  \/ x = AtStored /\ d \in S.stats.stored
  \/ x = AtDropped /\ d \in S.stats.dropped

\* No document is in two places.
Alone(S) == \A d, x, y : Holds(S, x, d) /\ Holds(S, y, d) => x = y

\* None is lost, unless the helper fails or is aborted.
Accounted(S) ==
  ~S.shouldAbort /\ S.loop \notin {"crashed", "rejected"} =>
    \A d \in 1..Len(S.source) : \E x : Holds(S, x, d)

Whole(S) ==
  /\ Paired(S.body) /\ \A f \in Flush : Paired(S.copy[f])
  /\ \A s \in Slot : Paired(S.ops[s].body)

\* What is not used is empty.
Tidy(S) ==
  /\ \A s \in Slot : S.ops[s].pc = "free" => S.ops[s].body = <<>>
  /\ \A f \in Flush : S.sem.at[f] = "none" => S.copy[f] = <<>>

Tallied(S) ==
  /\ S.stats.successful = Cardinality(S.stats.stored)
  /\ S.stats.failed = Cardinality(S.stats.dropped)

Kept(S) == NoDelete(S) /\ Whole(S) /\ Tidy(S) /\ Tallied(S) /\ Alone(S) /\ Accounted(S)

\* The places are different.
LEMMA SpotsDiffer ==
  /\ \A f, s : AtCopy(f) # AtOp(s) /\ AtBody # AtCopy(f) /\ AtBody # AtOp(s)
  /\ \A f, s : AtStored # AtCopy(f) /\ AtStored # AtOp(s)
  /\ \A f, s : AtDropped # AtCopy(f) /\ AtDropped # AtOp(s)
  /\ AtBody # AtStored /\ AtBody # AtDropped /\ AtStored # AtDropped
  /\ \A f, g : AtCopy(f) = AtCopy(g) => f = g
  /\ \A s, t : AtOp(s) = AtOp(t) => s = t
BY DEF AtBody, AtCopy, AtOp, AtStored, AtDropped

\* What it is to be in each place.
LEMMA HoldsAt ==
  ASSUME NEW S, NEW d
  PROVE  /\ Holds(S, AtBody, d) <=> Live(S) /\ d \in DocsIn(S.body)
         /\ \A f \in Flush : Holds(S, AtCopy(f), d) <=> d \in DocsIn(S.copy[f])
         /\ \A s \in Slot : Holds(S, AtOp(s), d) <=> d \in DocsIn(S.ops[s].body)
         /\ Holds(S, AtStored, d) <=> d \in S.stats.stored
         /\ Holds(S, AtDropped, d) <=> d \in S.stats.dropped
BY SpotsDiffer DEF Holds

\* The documents of D go where m says, and the others stay, or vanish.
LEMMA MoveAlone ==
  ASSUME NEW S, NEW T, Alone(S), NEW D, NEW m,
         \A x, d : Holds(T, x, d) => IF d \in D THEN x = m[d] ELSE Holds(S, x, d)
  PROVE  Alone(T)
<1> SUFFICES ASSUME NEW d, NEW x, NEW y, Holds(T, x, d), Holds(T, y, d) PROVE x = y
  BY DEF Alone
<1>1. CASE d \in D
  BY <1>1
<1>2. CASE d \notin D
  <2>1. Holds(S, x, d) /\ Holds(S, y, d)
    BY <1>2
  <2> QED
    BY <2>1 DEF Alone
<1> QED
  BY <1>1, <1>2

\* Documents that vanish disturb nobody.
LEMMA StayAlone ==
  ASSUME NEW S, NEW T, Alone(S), \A x, d : Holds(T, x, d) => Holds(S, x, d)
  PROVE  Alone(T)
BY DEF Alone

\* Documents are numbered as they are read.
LEMMA HeldDocs ==
  ASSUME NEW S, Typed(S), Whole(S), NEW x, NEW d, Holds(S, x, d)
  PROVE  d \in 1..Len(S.source)
<1> DEFINE n == Len(S.source)
<1>1. ASSUME NEW b, BodyOk(b, n), Paired(b), d \in DocsIn(b) PROVE d \in 1..n
  <2>1. PICK k \in DOMAIN b : d = b[k].doc
    BY <1>1 DEF DocsIn, Range
  <2>2. LineOk(b[k], n) /\ b[k].part \in {"action", "source"}
    BY <1>1 DEF BodyOk, Paired
  <2> QED
    BY <2>1, <2>2 DEF LineOk, Undefined, Line
<1> QED
  BY <1>1 DEF Holds, Typed, Whole, CopyOk, OpsOk, StatsType

\* Steps that leave the documents where they are.
LEMMA SameKept ==
  ASSUME NEW S, Kept(S), NEW T, SameDocs(S, T), AtKept(S, T, NoOne),
         Live(T) => Live(S),
         \/ T.shouldAbort = TRUE
         \/ T.loop \in {"crashed", "rejected"}
         \/ /\ Live(S) /\ S.body # <<>> => Live(T)
            /\ T.shouldAbort = S.shouldAbort
            /\ T.loop = S.loop \/ S.loop \notin {"crashed", "rejected"}
  PROVE  Kept(T)
<1>1. NoDelete(T) /\ Whole(T) /\ Tallied(T)
  BY DEF Kept, SameDocs, NoDelete, Whole, Tallied
<1>2. Tidy(T)
  BY ProcessAssumption DEF Kept, SameDocs, Tidy, AtKept, Flush
<1>3. \A x, d : Holds(T, x, d) => Holds(S, x, d)
  BY DEF SameDocs, Holds
<1>4. Alone(T)
  BY <1>3, StayAlone DEF Kept
<1>5. Accounted(T)
  <2> SUFFICES ASSUME ~T.shouldAbort, T.loop \notin {"crashed", "rejected"},
                      NEW d \in 1..Len(T.source)
               PROVE  \E x : Holds(T, x, d)
    BY DEF Accounted
  <2>1. /\ Live(S) /\ S.body # <<>> => Live(T)
        /\ ~S.shouldAbort /\ S.loop \notin {"crashed", "rejected"}
    OBVIOUS
  <2>2. PICK x : Holds(S, x, d)
    BY <2>1 DEF Kept, Accounted, SameDocs
  <2>3. Live(S) /\ d \in DocsIn(S.body) => Live(T)
    BY <2>1, EmptyPaired
  <2>4. Holds(T, x, d)
    BY <2>2, <2>3 DEF SameDocs, Holds
  <2> QED
    BY <2>4
<1> QED
  BY <1>1, <1>2, <1>4, <1>5 DEF Kept

\* The loop ends: the last body waits for a slot, or there is none.
LEMMA LoopEndedKept ==
  ASSUME NEW S, Typed(S), Kept(S), NEW T, LoopEnded(S, T)
  PROVE  Kept(T)
<1>1. Live(S) /\ (T.loop = "flushingLast" => Live(T))
  BY DEF LoopEnded, Live
<1>2. S.shouldAbort => T.shouldAbort = TRUE
  BY DEF LoopEnded, SameFlags, Typed
<1>3. S.body # <<>> /\ ~S.shouldAbort => Live(T)
  BY <1>1 DEF LoopEnded
<1> QED
  BY <1>1, <1>2, <1>3, SameKept DEF LoopEnded, SameFlags

\* Steps that touch no document.
LEMMA RestKept ==
  ASSUME NEW S, Kept(S), NEW T,
         \/ Rejected(S, T) \/ Fired(S, T) \/ Aborted(S, T) \/ Ended(S, T)
  PROVE  Kept(T)
<1>1. CASE Rejected(S, T)
  BY <1>1, SameKept DEF Rejected, Live, AtKept
<1>2. CASE Fired(S, T)
  BY <1>2, SameKept DEF Fired, Live, AtKept, SameFlags
<1>3. CASE Aborted(S, T)
  BY <1>3, SameKept DEF Aborted, Live, AtKept
<1>4. CASE Ended(S, T)
  BY <1>4, SameKept DEF Ended, Live, AtKept, SameFlags
<1> QED
  BY <1>1, <1>2, <1>3, <1>4

\* The operation in slot s loses its documents, as the helper is aborted, or keeps its body.
LEMMA OverKept ==
  ASSUME NEW S, Typed(S), Kept(S), NEW s \in Slot, NEW T, Over(S, T, s)
  PROVE  Kept(T)
<1>1. T.source = S.source /\ T.body = S.body /\ T.copy = S.copy /\ T.timer = S.timer
      /\ T.stats = S.stats /\ (Live(T) => Live(S))
  BY DEF Over, Keeps, Live, Endings
<1>2. NoDelete(T) /\ Tallied(T)
  BY <1>1 DEF Kept, NoDelete, Tallied
<1>3. /\ S.ops \in [Slot -> OperationType]
      /\ T.ops[s] = Free /\ \A t \in Slot \ {s} : T.ops[t] = S.ops[t]
  BY DEF Typed, OpsOk, Over
<1>4. Whole(T)
  BY <1>1, <1>3, FreePaired DEF Kept, Whole
<1>5. Tidy(T)
  BY <1>1, <1>3, FreePaired, ProcessAssumption DEF Kept, Tidy, Over, AtKept, Flush
<1>6. \A x, d : Holds(T, x, d) => Holds(S, x, d)
  BY <1>1, <1>3, FreePaired DEF Holds
<1>7. Alone(T)
  BY <1>6, StayAlone DEF Kept
<1>8. Accounted(T)
  BY DEF Accounted, Over
<1> QED
  BY <1>2, <1>4, <1>5, <1>7, <1>8 DEF Kept

\* A retry keeps the documents of its operation.
LEMMA SentAgainKept ==
  ASSUME NEW S, Typed(S), Kept(S), NEW s \in Slot, NEW T, SentAgain(S, T, s)
  PROVE  Kept(T)
<1>1. T.source = S.source /\ T.body = S.body /\ T.copy = S.copy /\ T.timer = S.timer
      /\ T.stats = S.stats /\ T.loop = S.loop /\ T.sem = S.sem /\ T.shouldAbort = S.shouldAbort
  BY DEF SentAgain, SameFlags
<1>2. S.ops \in [Slot -> OperationType]
  BY DEF Typed, OpsOk
<1>3. \A t \in Slot : T.ops[t].body = S.ops[t].body
                      /\ (T.ops[t].pc = "free" => S.ops[t].pc = "free")
  BY <1>2 DEF SentAgain, OperationType
<1>4. NoDelete(T) /\ Tallied(T) /\ Whole(T) /\ Tidy(T)
  BY <1>1, <1>3 DEF Kept, NoDelete, Tallied, Whole, Tidy
<1>5. \A x, d : Holds(T, x, d) <=> Holds(S, x, d)
  BY <1>1, <1>3 DEF Holds, Live
<1>6. Alone(T)
  BY <1>5, StayAlone DEF Kept
<1>7. Accounted(T)
  BY <1>1, <1>5 DEF Kept, Accounted
<1> QED
  BY <1>4, <1>6, <1>7 DEF Kept

\* A document and its source are read.
LEMMA ChunkKept ==
  ASSUME "delete" \notin Operations, NEW S, Typed(S), Kept(S),
         NEW operation \in Operations, NEW T, Chunk(S, T, operation)
  PROVE  Kept(T)
<1> DEFINE n == Len(S.source)
           a == Line(n + 1, "action")
           c == Line(n + 1, "source")
           b == S.body
           w == T.body
           L == Len(b)
<1>1. n \in Nat /\ S.source \in Seq(OperationNames) /\ operation \in OperationNames
      /\ operation # "delete" /\ b \in Seq(LineType) /\ Paired(b) /\ BodyOk(b, n)
  BY BulkAssumption DEF Typed, BodyOk, Kept, Whole
<1>2. T.source = Append(S.source, operation) /\ Len(T.source) = n + 1
      /\ T.copy = S.copy /\ T.ops = S.ops /\ T.stats = S.stats /\ Live(S) /\ Live(T)
  BY <1>1 DEF Chunk, Live
<1>3. NoDelete(T)
  BY <1>1, <1>2 DEF Kept, NoDelete
<1>4. w = b \o <<a, c>> /\ w \in Seq(LineType)
  <2>1. w = b \o <<a, c>>
    BY <1>1 DEF Chunk, Lines
  <2>2. a \in LineType /\ c \in LineType
    <3>1. n + 1 \in 0..MaxDocs
      BY <1>1, BulkAssumption DEF Chunk
    <3> QED
      BY <3>1 DEF Line, LineType
  <2> HIDE DEF a, c, w, b
  <2> QED
    BY <1>1, <2>1, <2>2
<1>5. a.doc = n + 1 /\ c.doc = n + 1 /\ a.part = "action" /\ c.part = "source"
  BY DEF Line
<1> HIDE DEF a, c, w, b
<1>17. L \in Nat /\ DOMAIN b = 1..L
  BY <1>1
<1>18. Len(<<a, c>>) = 2 /\ <<a, c>>[1] = a /\ <<a, c>>[2] = c
  OBVIOUS
<1>19. Len(w) = L + 2 /\ DOMAIN w = 1..(L + 2)
      /\ (\A k \in 1..L : w[k] = b[k]) /\ w[L + 1] = a /\ w[L + 2] = c
  <2>1. PICK v : v = <<a, c>>
    OBVIOUS
  <2>2. a \in {a, c} /\ c \in {a, c} /\ v \in Seq({a, c}) /\ Len(v) = 2 /\ v[1] = a /\ v[2] = c
    BY <2>1
  <2> QED
    BY <1>1, <1>4, <1>17, <2>1, <2>2
<1>20. L % 2 = 0
  BY <1>1 DEF Paired
<1> HIDE DEF L
<1>6. L \in Nat /\ L % 2 = 0 /\ DOMAIN b = 1..L /\ Len(w) = L + 2 /\ DOMAIN w = 1..(L + 2)
      /\ (\A k \in 1..L : w[k] = b[k]) /\ w[L + 1] = a /\ w[L + 2] = c
  BY <1>17, <1>19, <1>20
<1>7. Heads(w) = Heads(b) \cup {L + 1} /\ (\A k \in Heads(b) : k \in 1..L /\ k + 1 \in 1..L)
  <2>1. \A k \in 1..(L + 2) : k % 2 = 1 <=> (k \in 1..L /\ k % 2 = 1) \/ k = L + 1
    BY <1>6
  <2>2. \A k \in 1..L : k % 2 = 1 => k + 1 \in 1..L
    BY <1>6
  <2> QED
    BY <1>6, <2>1, <2>2 DEF Heads
<1>8. \A k \in Heads(b) : b[k].doc # n + 1
  <2> SUFFICES ASSUME NEW k \in Heads(b) PROVE b[k].doc \in 1..n
    BY <1>1
  <2>1. \A d \in 1..n : S.source[d] # "delete"
    BY DEF Kept, NoDelete
  <2> QED
    BY <1>1, <2>1, SliceRight
<1>9. Paired(w)
  <2>1. Len(w) % 2 = 0
    BY <1>6
  <2>2. \A k \in DOMAIN w : w[k].part = IF k % 2 = 1 THEN "action" ELSE "source"
    <3> SUFFICES ASSUME NEW k \in 1..(L + 2)
                 PROVE  w[k].part = IF k % 2 = 1 THEN "action" ELSE "source"
      BY <1>6
    <3>1. CASE k \in 1..L
      BY <1>1, <1>6, <3>1 DEF Paired
    <3>2. CASE k = L + 1
      <4>1. (L + 1) % 2 = 1
        BY <1>6
      <4> QED
        BY <1>5, <1>6, <3>2, <4>1
    <3>3. CASE k = L + 2
      <4>1. (L + 2) % 2 # 1
        BY <1>6
      <4> QED
        BY <1>5, <1>6, <3>3, <4>1
    <3> QED
      BY <1>6, <3>1, <3>2, <3>3
  <2>3. \A k \in Heads(w) : w[k + 1].doc = w[k].doc
    <3>1. \A k \in Heads(b) : w[k + 1].doc = w[k].doc
      BY <1>1, <1>6, <1>7 DEF Paired
    <3>2. w[(L + 1) + 1].doc = w[L + 1].doc
      BY <1>5, <1>6
    <3> QED
      BY <1>7, <3>1, <3>2
  <2>4. \A j, k \in Heads(w) : w[j].doc = w[k].doc => j = k
    <3>1. \A j, k \in Heads(b) : w[j].doc = w[k].doc => j = k
      BY <1>1, <1>6, <1>7 DEF Paired
    <3>2. \A k \in Heads(b) : w[k].doc # w[L + 1].doc
      BY <1>5, <1>6, <1>7, <1>8
    <3> QED
      BY <1>7, <3>1, <3>2
  <2> QED
    BY <2>1, <2>2, <2>3, <2>4 DEF Paired
<1>10. Whole(T) /\ Tallied(T)
  BY <1>2, <1>9 DEF Kept, Whole, Tallied, w, b
<1>11. Tidy(T)
  BY <1>2, ProcessAssumption DEF Kept, Tidy, Chunk, AtKept, Flush
<1>12. DocsIn(T.body) = DocsIn(S.body) \cup {n + 1}
  <2>1. DocsIn(w) = {w[k].doc : k \in Heads(w)} /\ DocsIn(b) = {b[k].doc : k \in Heads(b)}
    BY <1>1, <1>4, <1>9, PairedDocs
  <2>2. {w[k].doc : k \in Heads(w)} = {w[k].doc : k \in Heads(b)} \cup {w[L + 1].doc}
    BY <1>7
  <2>3. \A k \in Heads(b) : w[k].doc = b[k].doc
    BY <1>6, <1>7
  <2>4. {w[k].doc : k \in Heads(b)} = {b[k].doc : k \in Heads(b)}
    BY <2>3
  <2> QED
    BY <1>5, <1>6, <2>1, <2>2, <2>4 DEF w, b
<1>13. \A x, d : Holds(T, x, d) <=> Holds(S, x, d) \/ (x = AtBody /\ d = n + 1)
  BY <1>2, <1>12 DEF Holds
<1>14. \A x : ~Holds(S, x, n + 1)
  <2>1. n + 1 \notin 1..n
    BY <1>1
  <2> QED
    BY <2>1, HeldDocs DEF Kept
<1>15. Alone(T)
  BY <1>13, <1>14 DEF Kept, Alone
<1>21. Accounted(T)
  <2> SUFFICES ASSUME ~T.shouldAbort, T.loop \notin {"crashed", "rejected"},
                      NEW d \in 1..(n + 1)
               PROVE  \E x : Holds(T, x, d)
    BY <1>2 DEF Accounted
  <2>1. CASE d = n + 1
    BY <1>13, <2>1
  <2>2. CASE d # n + 1
    <3>1. d \in 1..n
      BY <1>1, <2>2
    <3>2. ~S.shouldAbort /\ S.loop \notin {"crashed", "rejected"}
      BY DEF Chunk, SameFlags
    <3> QED
      BY <1>13, <3>1, <3>2 DEF Kept, Accounted
  <2> QED
    BY <2>1, <2>2
<1> QED
  BY <1>3, <1>10, <1>11, <1>15, <1>21 DEF Kept

\* A flush takes the body.
LEMMA TakenKept ==
  ASSUME NEW S, Typed(S), Kept(S), NEW f \in Flush, NEW T, Taken(S, T, f)
  PROVE  Kept(T)
<1>1. /\ T.source = S.source /\ T.ops = S.ops /\ T.stats = S.stats /\ T.loop = S.loop
      /\ T.shouldAbort = S.shouldAbort /\ T.body = <<>> /\ Live(S)
      /\ S.copy \in [Flush -> Seq(LineType)] /\ S.copy[f] = <<>>
      /\ T.copy[f] = S.body /\ \A g \in Flush \ {f} : T.copy[g] = S.copy[g]
  BY DEF Taken, SameFlags, Live, Typed, CopyOk, Kept, Tidy
<1>2. NoDelete(T) /\ Tallied(T)
  BY <1>1 DEF Kept, NoDelete, Tallied
<1>3. Whole(T)
  BY <1>1, EmptyPaired DEF Kept, Whole
<1>4. Tidy(T)
  BY <1>1 DEF Kept, Tidy, Taken, AtKept
<1> DEFINE D == DocsIn(S.body)
           m == [d \in D |-> AtCopy(f)]
<1>5. \A x, d : Holds(T, x, d) => IF d \in D THEN x = m[d] ELSE Holds(S, x, d)
  <2> SUFFICES ASSUME NEW x, NEW d, Holds(T, x, d)
               PROVE  IF d \in D THEN x = AtCopy(f) ELSE Holds(S, x, d)
    OBVIOUS
  <2>1. Holds(S, x, d) \/ (x = AtCopy(f) /\ d \in D)
    BY <1>1, EmptyPaired DEF Holds
  <2>2. CASE d \in D /\ x # AtCopy(f)
    <3>1. Holds(S, AtBody, d) /\ Holds(S, x, d)
      BY <1>1, <2>1, <2>2, HoldsAt
    <3>2. x = AtBody
      BY <3>1 DEF Kept, Alone
    <3>3. d \in DocsIn(T.body)
      BY <3>2, HoldsAt
    <3> QED
      BY <1>1, <3>3, EmptyPaired
  <2> QED
    BY <2>1, <2>2
<1>6. Alone(T)
  <2> HIDE DEF D, m
  <2> QED
    BY <1>5, MoveAlone DEF Kept
<1>7. \A x, d : Holds(S, x, d) => \E y : Holds(T, y, d)
  <2> SUFFICES ASSUME NEW x, NEW d, Holds(S, x, d) PROVE \E y : Holds(T, y, d)
    OBVIOUS
  <2>1. CASE d \in D
    BY <1>1, <2>1, HoldsAt
  <2>2. CASE d \notin D
    <3>1. Holds(T, x, d)
      BY <1>1, <2>2, EmptyPaired DEF Holds
    <3> QED
      BY <3>1
  <2> QED
    BY <2>1, <2>2
<1>8. Accounted(T)
  BY <1>1, <1>7 DEF Kept, Accounted
<1> QED
  BY <1>2, <1>3, <1>4, <1>6, <1>8 DEF Kept

\* The documents of D go from one place to another.
LEMMA MovedAlone ==
  ASSUME NEW S, NEW T, Alone(S), NEW D, NEW from, NEW to,
         \A d \in D : Holds(S, from, d),
         \A x, d : Holds(T, x, d) => (x # from /\ Holds(S, x, d)) \/ (x = to /\ d \in D)
  PROVE  Alone(T)
<1> SUFFICES ASSUME NEW d, NEW x, NEW y, Holds(T, x, d), Holds(T, y, d) PROVE x = y
  BY DEF Alone
<1>1. CASE d \in D
  <2>1. Holds(S, from, d)
    BY <1>1
  <2>2. \A z : Holds(S, z, d) => z = from
    BY <2>1 DEF Alone
  <2> QED
    BY <2>2
<1>2. CASE d \notin D
  BY <1>2 DEF Alone
<1> QED
  BY <1>1, <1>2

\* The documents of the body b leave `from`; but for the operations, the others stay.
Leaves(S, T, b, from) ==
  /\ \A d : Holds(S, from, d) <=> d \in DocsIn(b)
  /\ \A d : ~Holds(T, from, d)
  /\ \A s : from # AtOp(s)
  /\ \A x, d : x # from /\ (\A s : x # AtOp(s)) => (Holds(T, x, d) <=> Holds(S, x, d))
  /\ T.loop \in {"crashed", "rejected"} \/ S.loop \notin {"crashed", "rejected"}

OpsKept(T) ==
  /\ NoDelete(T) /\ Tallied(T) /\ Alone(T) /\ Accounted(T)
  /\ \A s \in Slot : Paired(T.ops[s].body)
  /\ \A s \in Slot : T.ops[s].pc = "free" => T.ops[s].body = <<>>

\* A body is sent: its documents go from the place where they waited to the operation.
LEMMA SentKept ==
  ASSUME NEW S, Typed(S), Kept(S), NEW b, Paired(b), NEW T, Sent(S, T, b), NEW from,
         Leaves(S, T, b, from)
  PROVE  OpsKept(T)
<1>1. T.source = S.source /\ T.stats = S.stats /\ T.shouldAbort = S.shouldAbort
  BY DEF Sent, SameFlags
<1>2. S.ops \in [Slot -> OperationType]
  BY DEF Typed, OpsOk
<1>3. PICK s \in Slot : /\ S.ops[s].pc = "free"
                        /\ T.ops = [S.ops EXCEPT ![s] =
                             IF S.shouldAbort THEN Free
                             ELSE [pc |-> "sent", body |-> b, retries |-> setting.retries]]
  BY DEF Sent
<1>4. /\ \A t \in Slot \ {s} : T.ops[t] = S.ops[t]
      /\ S.shouldAbort => T.ops[s] = Free
      /\ ~S.shouldAbort => T.ops[s].pc = "sent" /\ T.ops[s].body = b
  BY <1>2, <1>3
<1>5. NoDelete(T) /\ Tallied(T)
  BY <1>1 DEF Kept, NoDelete, Tallied
<1>6. \A t \in Slot : Paired(T.ops[t].body) /\ (T.ops[t].pc = "free" => T.ops[t].body = <<>>)
  BY <1>4, FreePaired DEF Kept, Whole, Tidy
<1>7. ASSUME NEW x, NEW d, Holds(T, x, d)
      PROVE  (x # from /\ Holds(S, x, d)) \/ (x = AtOp(s) /\ d \in DocsIn(b))
  <2>1. x # from
    BY <1>7 DEF Leaves
  <2>2. CASE \A t : x # AtOp(t)
    BY <1>7, <2>1, <2>2 DEF Leaves
  <2>3. CASE \E t : x = AtOp(t)
    <3>1. PICK t \in Slot : x = AtOp(t) /\ d \in DocsIn(T.ops[t].body)
      BY <1>7, <2>3, SpotsDiffer DEF Holds
    <3>2. CASE t = s
      BY <1>4, <3>1, <3>2, FreePaired
    <3>3. CASE t # s
      BY <1>4, <2>1, <3>1, <3>3, HoldsAt
    <3> QED
      BY <3>2, <3>3
  <2> QED
    BY <2>2, <2>3
<1>8. Alone(T)
  <2>1. \A d \in DocsIn(b) : Holds(S, from, d)
    BY DEF Leaves
  <2> QED
    BY <1>7, <2>1, MovedAlone DEF Kept
<1>9. Accounted(T)
  <2> SUFFICES ASSUME ~T.shouldAbort, T.loop \notin {"crashed", "rejected"},
                      NEW d \in 1..Len(T.source)
               PROVE  \E x : Holds(T, x, d)
    BY DEF Accounted
  <2>1. PICK x : Holds(S, x, d)
    BY <1>1 DEF Kept, Accounted, Leaves
  <2>2. CASE x = from
    <3>1. d \in DocsIn(b)
      BY <2>1, <2>2 DEF Leaves
    <3> QED
      BY <1>1, <1>4, <3>1, HoldsAt, ZenonT(30)
  <2>3. CASE x # from /\ \A t : x # AtOp(t)
    BY <2>1, <2>3 DEF Leaves
  <2>4. CASE \E t : x = AtOp(t)
    <3>1. PICK t \in Slot : x = AtOp(t) /\ d \in DocsIn(S.ops[t].body)
      BY <2>1, <2>4, SpotsDiffer DEF Holds
    <3>2. t # s
      BY <1>3, <3>1, EmptyPaired DEF Kept, Tidy
    <3>3. Holds(T, AtOp(t), d)
      BY <1>4, <3>1, <3>2, HoldsAt
    <3> QED
      BY <3>3
  <2> QED
    BY <2>2, <2>3, <2>4
<1> QED
  BY <1>5, <1>6, <1>8, <1>9 DEF OpsKept

\* iterate() sends the body.
LEMMA LoopSentKept ==
  ASSUME NEW S, Typed(S), Kept(S), NEW T, LoopSent(S, T),
         S.loop = "flushingLast" => S.timer = "cleared"
  PROVE  Kept(T)
<1>1. Sent(S, T, S.body) /\ T.timer = S.timer /\ T.copy = S.copy /\ T.stats = S.stats
  BY DEF LoopSent, Sent
<1>2. Live(S) /\ (T.body = <<>> \/ (T.body = S.body /\ ~Live(T)))
  BY DEF LoopSent, Live, Sent, Endings
<1>3. \A d : Holds(S, AtBody, d) <=> d \in DocsIn(S.body)
  BY <1>2, HoldsAt
<1>4. \A d : ~Holds(T, AtBody, d)
  BY <1>2, HoldsAt, EmptyPaired
<1>5. \A x, d : x # AtBody /\ (\A s : x # AtOp(s)) => (Holds(T, x, d) <=> Holds(S, x, d))
  BY <1>1 DEF Holds
<1>6. Paired(S.body) /\ S.loop \notin {"crashed", "rejected"}
  BY DEF Kept, Whole, LoopSent
<1>7. OpsKept(T)
  <2>1. Leaves(S, T, S.body, AtBody)
    BY <1>3, <1>4, <1>5, <1>6, SpotsDiffer DEF Leaves
  <2> QED
    BY <1>1, <1>6, <2>1, SentKept
<1>8. Whole(T)
  BY <1>1, <1>2, <1>7, EmptyPaired DEF Kept, Whole, OpsKept
<1>9. Tidy(T)
  BY <1>1, <1>7, ProcessAssumption DEF Kept, OpsKept, Tidy, LoopSent, AtKept, Flush
<1> QED
  BY <1>7, <1>8, <1>9 DEF Kept, OpsKept

\* onFlushTimeout sends the body it has taken.
LEMMA FlushSentKept ==
  ASSUME NEW S, Typed(S), Kept(S), NEW f \in Flush, NEW T, FlushSent(S, T, f)
  PROVE  Kept(T)
<1>1. /\ Sent(S, T, S.copy[f]) /\ T.timer = S.timer /\ T.body = S.body /\ T.stats = S.stats
      /\ S.copy \in [Flush -> Seq(LineType)]
  BY DEF FlushSent, Sent, Typed, CopyOk
<1>2. T.copy[f] = <<>> /\ \A g \in Flush \ {f} : T.copy[g] = S.copy[g]
  BY <1>1 DEF FlushSent
<1>3. Live(T) <=> Live(S)
  BY <1>1 DEF FlushSent, Live, Endings
<1>4. \A d : Holds(S, AtCopy(f), d) <=> d \in DocsIn(S.copy[f])
  BY HoldsAt
<1>5. \A d : ~Holds(T, AtCopy(f), d)
  BY <1>2, HoldsAt, EmptyPaired
<1>6. ASSUME NEW x, NEW d, x # AtCopy(f), \A s : x # AtOp(s)
      PROVE  Holds(T, x, d) <=> Holds(S, x, d)
  BY <1>1, <1>2, <1>3, <1>6 DEF Holds
<1>7. /\ Paired(S.copy[f])
      /\ T.loop \in {"crashed", "rejected"} \/ S.loop \notin {"crashed", "rejected"}
  BY DEF Kept, Whole, FlushSent
<1>8. OpsKept(T)
  <2>1. Leaves(S, T, S.copy[f], AtCopy(f))
    BY <1>4, <1>5, <1>6, <1>7, SpotsDiffer DEF Leaves
  <2> QED
    BY <1>1, <1>7, <2>1, SentKept
<1>9. Whole(T)
  BY <1>1, <1>2, <1>8, EmptyPaired DEF Kept, Whole, OpsKept
<1>10. Tidy(T)
  BY <1>2, <1>8 DEF Kept, OpsKept, Tidy, FlushSent, AtKept
<1> QED
  BY <1>8, <1>9, <1>10 DEF Kept, OpsKept

\* Disjoint sets add up.
LEMMA DisjointUnion ==
  ASSUME NEW A, NEW B, IsFiniteSet(A), IsFiniteSet(B), A \cap B = {}
  PROVE  Cardinality(A \cup B) = Cardinality(A) + Cardinality(B)
<1>1. Cardinality(A) \in Nat /\ Cardinality(B) \in Nat /\ Cardinality(A \cap B) = 0
  BY FS_CardinalityType, FS_EmptySet
<1>2. Cardinality(A \cup B) = Cardinality(A) + Cardinality(B) - Cardinality(A \cap B)
  BY FS_Union
<1> QED
  BY <1>1, <1>2

\* The documents stored and dropped are finitely many.
LEMMA CountedFinite ==
  ASSUME NEW S, Typed(S)
  PROVE  IsFiniteSet(S.stats.stored) /\ IsFiniteSet(S.stats.dropped)
<1>1. Len(S.source) \in Nat /\ S.stats.stored \in SUBSET (1..Len(S.source))
      /\ S.stats.dropped \in SUBSET (1..Len(S.source))
  BY DEF Typed, StatsType
<1>2. IsFiniteSet(1..Len(S.source))
  BY <1>1, FS_Interval
<1> QED
  BY <1>1, <1>2, FS_Subset

\* A response: documents of the operation are stored, dropped, or stay to be retried.
LEMMA AnsweredKept ==
  ASSUME NEW S, Typed(S), Kept(S), NEW s \in Slot,
         NEW outcome \in [Actions(S.ops[s].body) -> {"ok", "busy", "error"}],
         NEW T, AnsweredAs(S, T, s, outcome)
  PROVE  Kept(T)
<1> DEFINE D == DocsIn(S.ops[s].body)
<1>1. PICK stored, dropped, again : Split(S, T, s, stored, dropped, again)
  BY AnswerSplits DEF Kept, Whole
<1>2. /\ T.source = S.source /\ T.body = S.body /\ T.copy = S.copy /\ T.timer = S.timer
      /\ T.shouldAbort = S.shouldAbort /\ (Live(T) => Live(S))
      /\ T.loop \notin {"crashed", "rejected"} =>
           S.loop \notin {"crashed", "rejected"} /\ (Live(S) => Live(T))
  BY DEF AnsweredAs, Frame, Live, Endings
<1>3. PICK o : /\ T.ops = [S.ops EXCEPT ![s] = o] /\ Paired(o.body) /\ DocsIn(o.body) = again
               /\ o.pc = "free" => o.body = <<>>
  BY <1>1 DEF Split
<1>4. T.ops[s] = o /\ \A t \in Slot \ {s} : T.ops[t] = S.ops[t]
  BY <1>3 DEF Typed, OpsOk
<1>5. NoDelete(T) /\ Whole(T)
  BY <1>2, <1>3, <1>4 DEF Kept, NoDelete, Whole
<1>6. Tidy(T)
  BY <1>2, <1>3, <1>4, ProcessAssumption DEF Kept, Tidy, AnsweredAs, AtKept, Flush
<1>7. /\ T.stats.stored = S.stats.stored \cup stored
      /\ T.stats.dropped = S.stats.dropped \cup dropped
      /\ stored \subseteq D /\ dropped \subseteq D /\ again \subseteq D
      /\ stored \cap dropped = {} /\ stored \cap again = {} /\ dropped \cap again = {}
      /\ S.shouldAbort \/ stored \cup dropped \cup again = D
  BY <1>1 DEF Split
<1>8. ASSUME NEW x, NEW d, Holds(T, x, d)
      PROVE  \/ x # AtOp(s) /\ Holds(S, x, d)
             \/ x = AtOp(s) /\ d \in again
             \/ x = AtStored /\ d \in stored
             \/ x = AtDropped /\ d \in dropped
  <2>1. CASE x = AtBody \/ \E f \in Flush : x = AtCopy(f)
    <3>1. x # AtOp(s) /\ x # AtStored /\ x # AtDropped /\ \A t : x # AtOp(t)
      BY <2>1, SpotsDiffer
    <3> QED
      BY <1>2, <1>8, <3>1 DEF Holds
  <2>2. CASE \E t \in Slot : x = AtOp(t)
    <3>1. PICK t \in Slot : x = AtOp(t) /\ d \in DocsIn(T.ops[t].body)
      BY <1>8, <2>2, HoldsAt, ZenonT(30)
    <3> QED
      BY <1>3, <1>4, <3>1, HoldsAt, SpotsDiffer
  <2>3. CASE x = AtStored \/ x = AtDropped
    BY <1>7, <1>8, <2>3, HoldsAt, SpotsDiffer
  <2> QED
    BY <1>8, <2>1, <2>2, <2>3 DEF Holds
<1>9. \A d \in D : Holds(S, AtOp(s), d)
  BY HoldsAt
<1>10. \A d \in D : \A x : Holds(S, x, d) => x = AtOp(s)
  BY <1>9 DEF Kept, Alone
<1>11. Alone(T)
  <2> DEFINE m == [d \in D |-> IF d \in stored THEN AtStored
                               ELSE IF d \in dropped THEN AtDropped ELSE AtOp(s)]
  <2>1. ASSUME NEW x, NEW d, Holds(T, x, d) PROVE IF d \in D THEN x = m[d] ELSE Holds(S, x, d)
    <3>1. CASE d \in D
      BY <1>7, <1>8, <1>10, <2>1, <3>1
    <3>2. CASE d \notin D
      BY <1>7, <1>8, <2>1, <3>2
    <3> QED
      BY <3>1, <3>2
  <2> HIDE DEF D, m
  <2> QED
    BY <2>1, MoveAlone DEF Kept
<1>12. Tallied(T)
  <2>1. IsFiniteSet(S.stats.stored) /\ IsFiniteSet(S.stats.dropped)
    BY CountedFinite
  <2>2. S.stats.stored \cap D = {} /\ S.stats.dropped \cap D = {}
    BY <1>10, HoldsAt, SpotsDiffer
  <2>3. IsFiniteSet(stored) /\ IsFiniteSet(dropped)
        /\ T.stats.successful = S.stats.successful + Cardinality(stored)
        /\ T.stats.failed = S.stats.failed + Cardinality(dropped)
    BY <1>1 DEF Split
  <2>4. Cardinality(T.stats.stored) = Cardinality(S.stats.stored) + Cardinality(stored)
    BY <1>7, <2>1, <2>2, <2>3, DisjointUnion
  <2>5. Cardinality(T.stats.dropped) = Cardinality(S.stats.dropped) + Cardinality(dropped)
    BY <1>7, <2>1, <2>2, <2>3, DisjointUnion
  <2> QED
    BY <2>3, <2>4, <2>5 DEF Kept, Tallied
<1>13. Accounted(T)
  <2> SUFFICES ASSUME ~T.shouldAbort, T.loop \notin {"crashed", "rejected"},
                      NEW d \in 1..Len(T.source)
               PROVE  \E x : Holds(T, x, d)
    BY DEF Accounted
  <2>1. PICK x : Holds(S, x, d)
    BY <1>2 DEF Kept, Accounted
  <2>2. CASE d \in D
    <3>1. d \in stored \/ d \in dropped \/ d \in again
      BY <1>2, <1>7, <2>2
    <3>2. Holds(T, AtStored, d) \/ Holds(T, AtDropped, d) \/ Holds(T, AtOp(s), d)
      BY <1>3, <1>4, <1>7, <3>1, HoldsAt
    <3> QED
      BY <3>2
  <2>3. CASE d \notin D
    <3>1. x # AtOp(s)
      BY <2>1, <2>3, HoldsAt
    <3>2. Holds(T, x, d)
      BY <1>2, <1>4, <1>7, <2>1, <3>1 DEF Holds
    <3> QED
      BY <3>2
  <2> QED
    BY <2>2, <2>3
<1> QED
  BY <1>5, <1>6, <1>11, <1>12, <1>13 DEF Kept

-----------------------------------------------------------------------------
\* Every step keeps the documents.
KeptSound == Sound /\ Kept(State) /\ Served(State.sem)

\* Initially there is no document.
LEMMA InitKept == Init => KeptSound
<1> SUFFICES ASSUME Init PROVE KeptSound
  OBVIOUS
<1>1. Sound
  BY InitSound
<1>2. /\ State.source = <<>> /\ State.body = <<>>
      /\ State.copy = [f \in Flush |-> <<>>] /\ State.ops = [s \in Slot |-> Free]
      /\ State.stats = [successful |-> 0, failed |-> 0, stored |-> {}, dropped |-> {}]
      /\ State.sem = Unused
  BY DEF Init, State
<1>3. NoDelete(State)
  BY <1>2 DEF NoDelete
<1>4. Whole(State) /\ Tidy(State)
  BY <1>2, EmptyPaired, FreePaired DEF Whole, Tidy
<1>5. Tallied(State)
  BY <1>2, FS_EmptySet DEF Tallied
<1>6. \A x, d : ~Holds(State, x, d)
  BY <1>2, EmptyPaired, FreePaired DEF Holds
<1>7. Alone(State) /\ Accounted(State)
  BY <1>2, <1>6 DEF Alone, Accounted
<1>8. Served(State.sem)
  BY <1>2 DEF Served, Unused
<1> QED
  BY <1>1, <1>3, <1>4, <1>5, <1>7, <1>8 DEF KeptSound, Kept

\* Each effect keeps the documents.
LEMMA KeptStep ==
  ASSUME "delete" \notin Operations, NEW S, Typed(S), Kept(S), NEW T, Effects(S, T),
         S.loop = "flushingLast" => S.timer = "cleared"
  PROVE  Kept(T)
<1>1. CASE LoopEnded(S, T)
  BY <1>1, LoopEndedKept
<1>2. CASE Rejected(S, T) \/ Fired(S, T) \/ Aborted(S, T) \/ Ended(S, T)
  BY <1>2, RestKept
<1>3. CASE \E operation \in Operations : Chunk(S, T, operation)
  BY <1>3, ChunkKept
<1>4. CASE \E f \in Flush : Taken(S, T, f) \/ FlushSent(S, T, f)
  BY <1>4, TakenKept, FlushSentKept
<1>5. CASE LoopSent(S, T)
  BY <1>5, LoopSentKept
<1>6. CASE \E s \in Slot : Over(S, T, s) \/ SentAgain(S, T, s)
  BY <1>6, OverKept, SentAgainKept
<1>7. CASE \E s \in Slot : \E outcome \in [Actions(S.ops[s].body) -> {"ok", "busy", "error"}] :
             AnsweredAs(S, T, s, outcome)
  BY <1>7, AnsweredKept
<1> QED
  BY <1>1, <1>2, <1>3, <1>4, <1>5, <1>6, <1>7 DEF Effects

\* Each effect keeps a way to serve who waits.
LEMMA ServedStep ==
  ASSUME NEW S, NEW T, Effects(S, T), Served(S.sem)
  PROVE  Served(T.sem)
BY DEF Effects, LoopEnded, Rejected, Chunk, Fired, Taken, FlushSent, LoopSent, Over, SentAgain,
       AnsweredAs, Aborted, Ended, AtKept

\* The inductive invariant of the documents.
LEMMA NextKept ==
  ASSUME "delete" \notin Operations
  PROVE  KeptSound /\ [Next]_vars => KeptSound'
<1> SUFFICES ASSUME KeptSound, [Next]_vars PROVE KeptSound'
  OBVIOUS
<1>1. Sound'
  BY NextSound DEF KeptSound
<1>2. Kept(State') /\ Served(State'.sem)
  <2>1. CASE Next
    <3>1. Effects(State, State')
      BY <2>1, NextEffects DEF KeptSound, Sound
    <3>2. State.loop = "flushingLast" => State.timer = "cleared"
      BY DEF KeptSound, Sound, Counted, Good, Ready, LoopOk
    <3> QED
      BY <3>1, <3>2, KeptStep, ServedStep DEF KeptSound, Sound
  <2>2. CASE UNCHANGED vars
    <3>1. State' = State
      BY <2>2 DEF vars, State
    <3> QED
      BY <3>1 DEF KeptSound
  <2> QED
    BY <2>1, <2>2
<1> QED
  BY <1>1, <1>2 DEF KeptSound

\* Where documents are alone, none is in two places.
LEMMA KeptApart == KeptSound => NoDocumentTwice
<1> SUFFICES ASSUME KeptSound PROVE NoDocumentTwice
  OBVIOUS
<1> DEFINE reading == IF loop \in {"reading", "flushing"} THEN DocsIn(body) ELSE {}
<1>1. Alone(State)
  BY DEF KeptSound, Kept
<1>2. \A d \in reading : Holds(State, AtBody, d)
  BY StateFields, HoldsAt DEF Live
<1>3. \A s \in Slot : \A d \in DocsIn(ops[s].body) : Holds(State, AtOp(s), d)
  BY StateFields, HoldsAt
<1>4. \A f \in Flush : \A d \in DocsIn(copy[f]) : Holds(State, AtCopy(f), d)
  BY StateFields, HoldsAt
<1>5. \A d : (d \in stats.stored => Holds(State, AtStored, d))
             /\ (d \in stats.dropped => Holds(State, AtDropped, d))
  BY StateFields, HoldsAt
<1> HIDE DEF reading
<1>6. \A s \in Slot : DocsIn(ops[s].body) \cap reading = {}
  BY <1>1, <1>2, <1>3, SpotsDiffer DEF Alone
<1>7. \A s \in Slot : \A t \in Slot \ {s} : DocsIn(ops[s].body) \cap DocsIn(ops[t].body) = {}
  BY <1>1, <1>3, SpotsDiffer DEF Alone
<1>8. \A s \in Slot : \A f \in Flush : DocsIn(ops[s].body) \cap DocsIn(copy[f]) = {}
  BY <1>1, <1>3, <1>4, SpotsDiffer DEF Alone
<1>9. \A f \in Flush : DocsIn(copy[f]) \cap reading = {}
  BY <1>1, <1>2, <1>4, SpotsDiffer DEF Alone
<1>10. stats.dropped \cap stats.stored = {}
  BY <1>1, <1>5, SpotsDiffer DEF Alone
<1> QED
  BY <1>6, <1>7, <1>8, <1>9, <1>10 DEF NoDocumentTwice, reading

\* No document is in two places: no request sends it while another does, and none is stored and
\* given to onDrop.  With deletes it is otherwise, as the retry takes lines of other documents.
THEOREM DocumentsApart ==
  ASSUME "delete" \notin Operations
  PROVE  Spec => []NoDocumentTwice
BY InitKept, NextKept, KeptApart, PTL DEF Spec

\* Whoever waits for a slot is the one that the semaphore knows of.
NobodyDisplaced == \A p \in Process : sem.at[p] = "queued" => sem.waiter = p

\* A helper that has resolved holds its documents in the statistics, and nowhere else.
LEMMA KeptAccounted == KeptSound /\ NobodyDisplaced => AllAccounted
<1> SUFFICES ASSUME KeptSound, NobodyDisplaced, loop = "resolved", ~shouldAbort
             PROVE  /\ stats.stored \cup stats.dropped = Docs
                    /\ stats.successful + stats.failed = Len(source)
  BY DEF AllAccounted
<1>1. /\ Typed(State) /\ Kept(State) /\ Served(sem) /\ SemOk(sem) /\ LoopOk(State)
      /\ Counts(sem, ops, 0)
  BY StateFields DEF KeptSound, Sound, Counted, Good, Ready
<1>2. sem.running = 0 /\ timer = "cleared"
  BY <1>1, StateFields DEF LoopOk
<1>3. Busy(ops) = {} /\ Granted(sem) = {}
  <2>1. Cardinality(Busy(ops)) = 0 /\ Cardinality(Granted(sem)) = 0
    BY <1>1, <1>2, Finite DEF Counts
  <2> QED
    BY <2>1, Finite, FS_EmptySet
<1>4. \A f \in Flush : sem.at[f] = "none"
  <2> SUFFICES ASSUME NEW f \in Flush PROVE sem.at[f] = "none"
    OBVIOUS
  <2>1. f \in Process /\ f # NoOne /\ sem.at[f] \in Places
    BY <1>1, ProcessAssumption DEF SemOk, SemaphoreType, Flush
  <2>2. sem.at[f] # "queued"
    BY <1>1, <1>2, <2>1 DEF NobodyDisplaced, Served
  <2> QED
    BY <1>3, <2>1, <2>2 DEF Granted, Places
<1>5. \A d \in Docs : d \in stats.stored \/ d \in stats.dropped
  <2> SUFFICES ASSUME NEW d \in 1..Len(source) PROVE d \in stats.stored \/ d \in stats.dropped
    BY <1>1, StateFields DEF Docs, Typed
  <2>1. PICK x : Holds(State, x, d)
    BY <1>1, StateFields DEF Kept, Accounted
  <2>2. ~Live(State)
    BY <1>2, StateFields DEF Live
  <2>3. \A f \in Flush : State.copy[f] = <<>>
    BY <1>1, <1>4, StateFields DEF Kept, Tidy
  <2>4. \A s \in Slot : State.ops[s].body = <<>>
    BY <1>1, <1>3, StateFields DEF Kept, Tidy, Busy
  <2> QED
    BY <2>1, <2>2, <2>3, <2>4, StateFields, EmptyPaired DEF Holds
<1>6. stats.stored \subseteq Docs /\ stats.dropped \subseteq Docs
  BY SoundIsTyped DEF KeptSound, TypeOK
<1>7. stats.stored \cup stats.dropped = Docs
  BY <1>5, <1>6
<1>8. stats.stored \cap stats.dropped = {}
  BY KeptApart DEF NoDocumentTwice
<1>9. Cardinality(Docs) = Len(source)
  <2>1. Docs = 1..Len(source) /\ Len(source) \in Nat
    BY <1>1, StateFields DEF Docs, Typed
  <2>2. IsFiniteSet(1..Len(source)) /\ Cardinality(1..Len(source)) = Len(source)
    <3> DEFINE n == Len(source)
    <3>1. n \in Int /\ 1 \in Int /\ (1 > n <=> n = 0) /\ n - 1 + 1 = n
      BY <2>1
    <3> HIDE DEF n
    <3> QED
      BY <3>1, FS_Interval DEF n
  <2> QED
    BY <2>1, <2>2
<1>10. Cardinality(stats.stored \cup stats.dropped) =
         Cardinality(stats.stored) + Cardinality(stats.dropped)
  BY <1>1, <1>8, CountedFinite, DisjointUnion, StateFields
<1>11. stats.successful = Cardinality(stats.stored) /\ stats.failed = Cardinality(stats.dropped)
  BY <1>1, StateFields DEF Kept, Tallied
<1> QED
  BY <1>7, <1>9, <1>10, <1>11

\* When the helper resolves, every document was stored or given to onDrop, and is counted once:
\* unless a call of semaphore() has displaced another, whose body is then never sent.
THEOREM DocumentsAccounted ==
  ASSUME "delete" \notin Operations
  PROVE  Spec => [](NobodyDisplaced => AllAccounted)
BY InitKept, NextKept, KeptAccounted, PTL DEF Spec

-----------------------------------------------------------------------------
\* While the flush interval does not elapse, iterate() alone asks for slots.
FlushesRest == ~setting.interval => \A f \in Flush : sem.at[f] = "none"

\* The options never change.
LEMMA NextSetting == Next => setting' = setting
<1>1. \A T : Becomes(T) => setting' = setting
  BY DEF Becomes
<1>2. Next => \E T : Becomes(T)
  BY Zenon DEF Next, Read, EndOfData, NextChunk, FlushTimeout, ResumeLoop, ResumeFlush, Answered,
     Retry, Abort, Refreshed
<1> QED
  BY <1>1, <1>2

\* Without the flush timer, no flush begins.
LEMMA RestStep ==
  ASSUME NEW S, NEW T, Effects(S, T), ~setting.interval, \A f \in Flush : S.sem.at[f] = "none"
  PROVE  \A f \in Flush : T.sem.at[f] = "none"
<1>1. AtKept(S, T, NoOne) \/ T.sem = S.sem
  BY DEF Effects, LoopEnded, Rejected, Chunk, Fired, Taken, FlushSent, LoopSent, Over, SentAgain,
         AnsweredAs, Aborted, Ended, AtKept
<1> QED
  BY <1>1, ProcessAssumption DEF AtKept, Flush

\* So all flushes rest for ever.
LEMMA NextRest == Sound /\ FlushesRest /\ [Next]_vars => FlushesRest'
<1> SUFFICES ASSUME Sound, FlushesRest, [Next]_vars, ~setting'.interval
             PROVE  \A f \in Flush : sem'.at[f] = "none"
  BY DEF FlushesRest
<1>1. CASE Next
  <2>1. Effects(State, State') /\ setting' = setting
    BY <1>1, NextEffects, NextSetting DEF Sound
  <2> QED
    <3>1. ~setting.interval /\ \A f \in Flush : State.sem.at[f] = "none"
      BY <2>1, StateFields DEF FlushesRest
    <3>2. \A f \in Flush : State'.sem.at[f] = "none"
      BY <2>1, <3>1, RestStep
    <3>3. State'.sem = sem'
      BY DEF State
    <3> QED
      BY <3>2, <3>3
<1>2. CASE UNCHANGED vars
  BY <1>2 DEF vars, FlushesRest
<1> QED
  BY <1>1, <1>2

\* Then none is lost, with any concurrency.
THEOREM AccountedWithoutFlush ==
  ASSUME "delete" \notin Operations, \A s \in Settings : ~s.interval
  PROVE  Spec => []AllAccounted
<1>1. Init => FlushesRest
  <2> SUFFICES ASSUME sem = Unused, NEW f \in Process PROVE sem.at[f] = "none"
    BY DEF Init, FlushesRest, Flush
  <2> QED
    BY DEF Unused
<1>2. KeptSound /\ FlushesRest /\ [Next]_vars => FlushesRest'
  BY NextRest DEF KeptSound
<1>3. KeptSound /\ FlushesRest => AllAccounted
  <2> SUFFICES ASSUME KeptSound, FlushesRest, loop = "resolved" PROVE NobodyDisplaced
    BY KeptAccounted DEF AllAccounted
  <2>1. setting \in Settings /\ LoopOk(State)
    BY DEF KeptSound, Sound, Counted, Good, Ready
  <2>2. sem.at[Loop] = "none"
    BY <2>1, StateFields DEF LoopOk
  <2> QED
    BY <2>1, <2>2 DEF NobodyDisplaced, FlushesRest, Flush
<1> QED
  BY <1>1, <1>2, <1>3, InitKept, NextKept, PTL DEF Spec
=============================================================================
