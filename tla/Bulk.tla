-------------------------------- MODULE Bulk --------------------------------
(***************************************************************************)
(* The bulk helper: iterate() reads the datasource into bulkBody and sends *)
(* it when it is large enough, onFlushTimeout sends it when the datasource *)
(* is slow, both through one semaphore; bulkOperation() sends a body and   *)
(* retries the operations that Elasticsearch was too busy for.             *)
(*                                                                         *)
(* Documents are numbered as they are read.  A body is a sequence of       *)
(* lines: the operation of a document and, unless it is a delete, its      *)
(* source.  chunkBytes is the number of lines: it is zero exactly when the *)
(* body is empty.  As in Transport, a handler is an operator from a state  *)
(* record to the state it leaves; an action is one callback of the runtime *)
(* or one call of the user.                                                *)
(***************************************************************************)
EXTENDS SemaphoreOps, Ranks, Sequences, Functions

CONSTANTS
  Loop,        \* iterate(), as a caller of semaphore()
  Settings,    \* helpers to consider: see SettingType
  Operations,  \* what onDocument may return
  MaxDocs,     \* bound: documents of the datasource
  FlushLines,  \* flushBytes
  Slot         \* bulk operations under way, one more than any concurrency to notice an excess

\* Calls of onFlushTimeout that wait for a slot; their number is a bound.
Flush == Process \ {Loop}

\* "invalid": an action that is not known; "throws": onDocument or the datasource throws.
OperationNames == {"write", "delete", "invalid", "throws"}

\* interval: whether flushInterval ever elapses;  abortable: whether the user may call abort().
SettingType ==
  [concurrency : Nat \ {0}, retries : Nat, interval : BOOLEAN, abortable : BOOLEAN, refresh : BOOLEAN]

ASSUME BulkAssumption ==
  /\ Loop \in Process
  /\ Settings \subseteq SettingType
  /\ Operations \subseteq OperationNames
  /\ MaxDocs \in Nat /\ FlushLines \in Nat
  /\ IsFiniteSet(Slot) /\ IsFiniteSet(Process)
  /\ \A s \in Settings : Cardinality(Slot) > s.concurrency

VARIABLES
  setting,      \* the options of this helper
  loop,         \* where iterate() stands, see LoopStates
  source,       \* the operations read from the datasource
  body,         \* bulkBody
  timer,        \* "armed", "fired" or "cleared"
  copy,         \* the body each pending onFlushTimeout has taken
  sem,          \* the semaphore
  shouldAbort,
  error,        \* whether `error` is set
  ops,          \* the bulk operations under way
  stats         \* successful, failed; and which documents were stored and dropped

vars == <<setting, loop, source, body, timer, copy, sem, shouldAbort, error, ops, stats>>

State ==
  [loop |-> loop, source |-> source, body |-> body, timer |-> timer, copy |-> copy, sem |-> sem,
   shouldAbort |-> shouldAbort, error |-> error, ops |-> ops, stats |-> stats]

Becomes(S) ==
  /\ \E T \in {S} :
       /\ loop' = T.loop
       /\ source' = T.source
       /\ body' = T.body
       /\ timer' = T.timer
       /\ copy' = T.copy
       /\ sem' = T.sem
       /\ shouldAbort' = T.shouldAbort
       /\ error' = T.error
       /\ ops' = T.ops
       /\ stats' = T.stats
  /\ UNCHANGED setting

\* iterate() awaits the next chunk, a slot for a full body, a slot for the last body, the end of
\* the operations, or the refresh; or its promise is settled; or an exception ended the process.
LoopStates ==
  {"reading", "flushing", "flushingLast", "finishing", "refreshing", "resolved", "rejected", "crashed"}

Settled == loop \in {"resolved", "rejected", "crashed"}

-----------------------------------------------------------------------------
Line(d, part) == [doc |-> d, part |-> part]

Lines(d, operation) ==
  IF operation = "delete" THEN <<Line(d, "action")>> ELSE <<Line(d, "action"), Line(d, "source")>>

\* What indexing past the end of a body yields.
Undefined == Line(0, "undefined")
At(b, k) == IF k \in DOMAIN b THEN b[k] ELSE Undefined

LineType == [doc : 0..MaxDocs, part : {"action", "source", "undefined"}]

IsDelete(S, line) == line.part = "action" /\ S.source[line.doc] = "delete"

\* Elasticsearch refuses a body unless each line is an action, or the source after its action.
WellFormed(S, b) ==
  /\ b # <<>>
  /\ \A k \in DOMAIN b :
       /\ b[k].part = "action" /\ ~IsDelete(S, b[k]) => At(b, k + 1).part = "source"
       /\ b[k].part = "source" => k > 1 /\ b[k - 1].part = "action" /\ ~IsDelete(S, b[k - 1])
       /\ b[k].part # "undefined"

\* Where a body has actions: the response has an item for each, in order.
Actions(b) == {k \in DOMAIN b : b[k].part = "action"}

\* indexSlice, counted from 1: where the code looks for the lines of the item for the action at k.
Slice(S, b, k) == IF IsDelete(S, b[k]) THEN Rank(Actions(b), k) ELSE 2 * Rank(Actions(b), k) - 1

\* The lines the code takes for that item.
LinesOfItem(S, b, k) ==
  LET i == Slice(S, b, k)
  IN  IF IsDelete(S, b[k]) THEN <<At(b, i)>> ELSE <<At(b, i), At(b, i + 1)>>

\* `retry`: the lines of the given items, one after the other.  2 * k is the first line of the item
\* for the action at k, 2 * k + 1 the second.
RetryLines(S, b, items) ==
  LET Pushed == {2 * k : k \in items} \cup {2 * k + 1 : k \in {j \in items : ~IsDelete(S, b[j])}}
      Pick(m) == At(b, Slice(S, b, m \div 2) + (m % 2))
  IN  [n \in 1..Cardinality(Pushed) |-> Pick(Nth(Pushed, n))]

-----------------------------------------------------------------------------
FreeSlots(S) == {s \in Slot : S.ops[s].pc = "free"}
Free == [pc |-> "free", body |-> <<>>, retries |-> 0]

\* The promise of finish() is settled, and iterate() goes on.
Settle(S) ==
  [S EXCEPT !.loop = IF S.error THEN "rejected"
                     ELSE IF setting.refresh THEN "refreshing"
                     ELSE "resolved"]

\* Mutation of Finish: it does not look at the operations under way.
FinishAtOnce(S) == Settle(S)

\* await finish()
Finish(S) ==
  IF S.sem.running = 0 THEN Settle(S) ELSE [S EXCEPT !.loop = "finishing"]

\* The callback of bulkOperation: the operation in slot s is over, with or without an error.
OperationEnded(S, s, failed) ==
  LET T == [S EXCEPT !.ops[s] = Free,
                     !.shouldAbort = @ \/ failed,
                     !.error = @ \/ failed,
                     !.sem = Released(@)]
  IN  IF S.sem.waiter = NoOne /\ S.loop = "finishing" /\ T.sem.running = 0 THEN Settle(T) ELSE T

\* send(): bulkOperation and its first tryBulk.
Send(S, b) ==
  LET s == CHOOSE s \in FreeSlots(S) : TRUE
      T == [S EXCEPT !.ops[s] = [pc |-> "sent", body |-> b, retries |-> setting.retries]]
  IN  IF S.shouldAbort THEN OperationEnded(T, s, FALSE) ELSE T

\* Mutation of EndLoop: the last body is not sent.
EndLoopUnsent(S) == Finish([S EXCEPT !.timer = "cleared"])

\* The loop of iterate() is over: send what is left, then wait for the operations.
EndLoop(S) ==
  LET T == [S EXCEPT !.timer = "cleared"]
  IN  IF ~S.shouldAbort /\ S.body # <<>>
      THEN [T EXCEPT !.loop = "flushingLast", !.sem = Acquired(@, Loop, setting.concurrency)]
      ELSE Finish(T)

\* retryDocuments(null, b): wait and retry, or drop what is left.  It takes every other line for an
\* operation, and reads the one after it unless it is a delete.
RetryDocuments(S, s, b) ==
  LET Heads   == {k \in DOMAIN b : k % 2 = 1}
      Dropped == {b[k].doc : k \in Heads}
      Crash   == \E k \in Heads : \/ b[k] = Undefined
                                  \/ ~IsDelete(S, b[k]) /\ At(b, k + 1) = Undefined
  IN  IF S.shouldAbort \/ b = <<>> THEN OperationEnded(S, s, FALSE)
      ELSE IF S.ops[s].retries > 0
      THEN [S EXCEPT !.ops[s] = [pc |-> "waiting", body |-> b, retries |-> @.retries - 1]]
      ELSE IF Crash THEN [S EXCEPT !.loop = "crashed"]
      ELSE OperationEnded([S EXCEPT !.stats.failed = @ + Cardinality(Heads),
                                    !.stats.dropped = @ \cup Dropped], s, FALSE)

\* A response with the given outcome for each item: "ok", "busy" (429) or "error" (another error).
Answer(S, s, outcome) ==
  LET b       == S.ops[s].body
      With(o) == {k \in Actions(b) : outcome[k] = o}
      T       == [S EXCEPT !.stats.successful = @ + Cardinality(With("ok")),
                           !.stats.failed     = @ + Cardinality(With("error")),
                           !.stats.stored     = @ \cup {b[k].doc : k \in With("ok")},
                           !.stats.dropped    = @ \cup {LinesOfItem(S, b, k)[1].doc : k \in With("error")}]
  IN  IF \E k \in With("error") : Undefined \in Range(LinesOfItem(S, b, k))
      THEN [S EXCEPT !.loop = "crashed"]
      ELSE RetryDocuments(T, s, RetryLines(S, b, With("busy")))

-----------------------------------------------------------------------------
Init ==
  /\ setting \in Settings
  /\ loop = "reading"
  /\ source = <<>>
  /\ body = <<>>
  /\ timer = "armed"
  /\ copy = [f \in Flush |-> <<>>]
  /\ sem = Unused
  /\ shouldAbort = FALSE
  /\ error = FALSE
  /\ ops = [s \in Slot |-> Free]
  /\ stats = [successful |-> 0, failed |-> 0, stored |-> {}, dropped |-> {}]

\* The runtime may call something back: microtasks come first, and the process is alive.
Callback == Drained(sem) /\ loop # "crashed"

\* The datasource yields a chunk and onDocument says what to do with it.
NextChunk(operation) ==
  LET d == Len(source) + 1
      T == [State EXCEPT !.source = Append(@, operation),
                         !.timer  = "armed",
                         !.body   = @ \o Lines(d, operation)]
  IN  /\ Callback
      /\ loop = "reading"
      /\ Len(source) < MaxDocs
      /\ CASE shouldAbort -> Becomes(EndLoop(State))
           [] ~shouldAbort /\ operation = "invalid" ->
                Becomes([State EXCEPT !.timer = "cleared", !.loop = "rejected"])
           [] ~shouldAbort /\ operation = "throws" ->
                \E t \in {timer, "armed"} : Becomes([State EXCEPT !.timer = t, !.loop = "rejected"])
           [] OTHER ->
                Becomes(IF Len(T.body) >= FlushLines
                        THEN [T EXCEPT !.loop = "flushing",
                                       !.sem  = Acquired(@, Loop, setting.concurrency)]
                        ELSE T)

\* The datasource ends.
EndOfData == Callback /\ loop = "reading" /\ Becomes(EndLoop(State))

\* Calls of onFlushTimeout are alike: any name will do for the next one.
IdleFlushes == {f \in Flush : sem.at[f] = "none"}

\* Mutation of FlushTimeout: the body it takes is left in place.
FlushTimeoutUncleared ==
  /\ Callback
  /\ setting.interval /\ timer = "armed"
  /\ body # <<>>
  /\ IdleFlushes # {}
  /\ LET f == CHOOSE f \in IdleFlushes : TRUE
     IN  Becomes([State EXCEPT !.timer = "fired", !.copy[f] = body,
                               !.sem = Acquired(@, f, setting.concurrency)])

\* The flush interval elapses.  refresh() arms a timer that fired, so several calls may wait.
FlushTimeout ==
  /\ Callback
  /\ setting.interval
  /\ timer = "armed"
  /\ IF body = <<>>
     THEN Becomes([State EXCEPT !.timer = "fired"])
     ELSE /\ IdleFlushes # {}
          /\ LET f == CHOOSE f \in IdleFlushes : TRUE
             IN  Becomes([State EXCEPT !.timer = "fired", !.copy[f] = body, !.body = <<>>,
                                       !.sem = Acquired(@, f, setting.concurrency)])

\* A call of semaphore() goes on: setImmediate calls it back, or its promise is resolved.
Runnable(p) == loop # "crashed" /\ (sem.at[p] = "ready" \/ (Drained(sem) /\ sem.at[p] = "immediate"))

\* iterate() has a slot.
ResumeLoop ==
  /\ Runnable(Loop)
  /\ LET T == Send([State EXCEPT !.sem = Resumed(@, Loop)], body)
     IN  Becomes(IF loop = "flushing" THEN [T EXCEPT !.loop = "reading", !.body = <<>>]
                                      ELSE Finish(T))

\* onFlushTimeout has a slot.
ResumeFlush(f) ==
  /\ Runnable(f)
  /\ Becomes(Send([State EXCEPT !.sem = Resumed(@, f), !.copy[f] = <<>>], copy[f]))

\* client.bulk is answered: with an error, or with an outcome for each item.
Answered(s) ==
  /\ Callback
  /\ ops[s].pc = "sent"
  /\ \/ Becomes(OperationEnded(State, s, TRUE))
     \/ /\ WellFormed(State, ops[s].body)
        /\ \E outcome \in [Actions(ops[s].body) -> {"ok", "busy", "error"}] :
             Becomes(Answer(State, s, outcome))

\* The wait before a retry is over: tryBulk.
Retry(s) ==
  /\ Callback
  /\ ops[s].pc = "waiting"
  /\ Becomes(IF shouldAbort THEN OperationEnded(State, s, FALSE)
                            ELSE [State EXCEPT !.ops[s].pc = "sent"])

\* The user calls abort().
Abort ==
  /\ Callback
  /\ setting.abortable
  /\ ~shouldAbort
  /\ Becomes([State EXCEPT !.shouldAbort = TRUE, !.timer = "cleared"])

\* client.indices.refresh is answered.
Refreshed ==
  /\ Callback
  /\ loop = "refreshing"
  /\ \E end \in {"resolved", "rejected"} : Becomes([State EXCEPT !.loop = end])

Read == EndOfData \/ \E operation \in Operations : NextChunk(operation)

Next ==
  \/ Read
  \/ FlushTimeout
  \/ ResumeLoop
  \/ \E f \in Flush : ResumeFlush(f)
  \/ \E s \in Slot : Answered(s) \/ Retry(s)
  \/ Abort
  \/ Refreshed

Spec == Init /\ [][Next]_vars

(***************************************************************************)
(* The datasource yields its chunks and ends; promises, timers of retries  *)
(* and setImmediate call back; every request of the client is answered,    *)
(* see Answered of Transport.  Nothing is assumed of the flush interval    *)
(* and of the user.                                                        *)
(***************************************************************************)
Fairness ==
  /\ WF_vars(Read)
  /\ WF_vars(ResumeLoop)
  /\ \A f \in Flush : WF_vars(ResumeFlush(f))
  /\ \A s \in Slot : WF_vars(Answered(s) \/ Retry(s))
  /\ WF_vars(Refreshed)

FairSpec == Spec /\ Fairness

-----------------------------------------------------------------------------
(***************************************************************************)
(* Properties.                                                             *)
(***************************************************************************)
Docs == DOMAIN source
DocsIn(b) == {line.doc : line \in Range(b)}

\* Every variable has its type.
TypeOK ==
  /\ setting \in Settings
  /\ loop \in LoopStates
  /\ source \in Seq(OperationNames)
  /\ body \in Seq(LineType)
  /\ timer \in {"armed", "fired", "cleared"}
  /\ copy \in [Flush -> Seq(LineType)]
  /\ sem \in SemaphoreType
  /\ shouldAbort \in BOOLEAN /\ error \in BOOLEAN
  /\ ops \in [Slot -> [pc : {"free", "sent", "waiting"}, body : Seq(LineType), retries : Nat]]
  /\ stats \in [successful : Nat, failed : Nat, stored : SUBSET Docs, dropped : SUBSET Docs]

\* `running` counts the operations under way and the slots granted, and never exceeds the
\* concurrency: 'Max concurrency reached' is never thrown, and finish() waits for all of them.
SlotsCounted ==
  LET busy == {s \in Slot : ops[s].pc # "free"}
  IN  /\ sem.running = Cardinality(busy) + Cardinality(Granted(sem))
      /\ sem.running <= setting.concurrency

\* No document is in two places: the body being read, a body a flush has taken, and the bodies of
\* the operations are disjoint.  So none is sent twice, except to retry it, and none is stored and
\* given to onDrop too.
NoDocumentTwice ==
  LET reading == IF loop \in {"reading", "flushing"} THEN DocsIn(body) ELSE {}
  IN  /\ \A s \in Slot : /\ DocsIn(ops[s].body) \cap reading = {}
                         /\ \A t \in Slot \ {s} : DocsIn(ops[s].body) \cap DocsIn(ops[t].body) = {}
                         /\ \A f \in Flush : DocsIn(ops[s].body) \cap DocsIn(copy[f]) = {}
      /\ \A f \in Flush : DocsIn(copy[f]) \cap reading = {}
      /\ stats.dropped \cap stats.stored = {}

\* When the helper resolves, and was not aborted, each document read was stored, or given to
\* onDrop, and the statistics say how many of each.
AllAccounted ==
  loop = "resolved" /\ ~shouldAbort =>
    /\ stats.stored \cup stats.dropped = Docs
    /\ stats.successful + stats.failed = Len(source)

\* When the helper resolves, no operation is under way, none is to come, and none has failed: "It
\* rejects an error if one of the request has failed for some reason".
QuietWhenResolved ==
  loop = "resolved" => sem.running = 0 /\ timer = "cleared" /\ ~error

\* The promise of the helper is settled.
Ends == <>Settled
=============================================================================
