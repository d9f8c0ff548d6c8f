------------------------------- MODULE Msearch -------------------------------
(***************************************************************************)
(* The multi search helper: search() pushes to a stream that iterate()     *)
(* reads into msearchBody and callbacks; it sends them when they are full  *)
(* or the stream ends, onFlushTimeout when searches come slowly, both      *)
(* through the semaphore; msearchOperation() answers each search and       *)
(* retries those that Elasticsearch was too busy for.                      *)
(*                                                                         *)
(* Searches are numbered in the order of the calls of search().  A body is *)
(* a sequence of lines, the header and the body of a search; callbacks are *)
(* the searches they belong to.  Handlers are operators on a state record, *)
(* actions are callbacks of the runtime or calls of the user, as in Bulk.  *)
(***************************************************************************)
EXTENDS SemaphoreOps, Ranks, Sequences

CONSTANTS
  Loop,            \* iterate(), as a caller of semaphore()
  Slot,            \* the operations that may be under way, more than any concurrency
  MsearchSettings, \* helpers to consider: see MsearchSettingType
  MaxSearches,     \* bound: calls of search()
  PerOperation     \* the option `operations`

Flush == Process \ {Loop}
Search == 1..MaxSearches

\* interval: whether flushInterval ever elapses.
MsearchSettingType == [concurrency : Nat \ {0}, retries : Nat, interval : BOOLEAN]

\* Assumed where the module is instantiated.
MsearchAssumption ==
  /\ Loop \in Process
  /\ MsearchSettings \subseteq MsearchSettingType
  /\ MaxSearches \in Nat /\ PerOperation \in Nat \ {0}
  /\ IsFiniteSet(Process) /\ IsFiniteSet(Slot)
  /\ \A o \in MsearchSettings : Cardinality(Slot) > o.concurrency

VARIABLES
  options,     \* the options of this helper
  iteration,   \* where iterate() stands: see Iterations
  asked,       \* calls of search() so far
  queue,       \* operationsStream
  stop,        \* "no", or stop() was called: "plain", "error"
  loaded,      \* msearchBody and callbacks
  flushTimer,  \* "armed", "fired" or "cleared"
  copied,      \* what each pending onFlushTimeout has taken
  slots,       \* the semaphore
  operations,  \* the operations under way
  answers      \* what the callback of each search was called with

vars == <<options, iteration, asked, queue, stop, loaded, flushTimer, copied, slots, operations, answers>>

State ==
  [iteration |-> iteration, queue |-> queue, loaded |-> loaded, flushTimer |-> flushTimer,
   copied |-> copied, slots |-> slots, operations |-> operations, answers |-> answers]

Becomes(S) ==
  \E T \in {S} :
    /\ iteration' = T.iteration
    /\ queue' = T.queue
    /\ loaded' = T.loaded
    /\ flushTimer' = T.flushTimer
    /\ copied' = T.copied
    /\ slots' = T.slots
    /\ operations' = T.operations
    /\ answers' = T.answers

\* iterate() awaits a search, a slot for a full body or for the last one, or the operations.
Iterations == {"reading", "flushing", "flushingLast", "finishing", "resolved", "rejected"}

Over == iteration \in {"resolved", "rejected"}

-----------------------------------------------------------------------------
Nothing == [body |-> <<>>, callbacks |-> <<>>]

Loaded(batch, s) ==
  [body      |-> batch.body \o <<[search |-> s, part |-> "header"], [search |-> s, part |-> "body"]>>,
   callbacks |-> Append(batch.callbacks, s)]

\* Mutation of Chosen: callbacks are taken from the front.
ChosenFromFront(batch, kept) ==
  [body      |-> [k \in 1..(2 * Len(kept)) |-> batch.body[2 * kept[(k + 1) \div 2] - (k % 2)]],
   callbacks |-> [k \in DOMAIN kept |-> batch.callbacks[k]]]

\* retryBody and retryCallbacks: the searches at the indices `kept`, counted from 1.
Chosen(batch, kept) ==
  [body      |-> [k \in 1..(2 * Len(kept)) |-> batch.body[2 * kept[(k + 1) \div 2] - (k % 2)]],
   callbacks |-> [k \in DOMAIN kept |-> batch.callbacks[kept[k]]]]

\* Elasticsearch reads a header and a body for each search and refuses an empty request.
WellFormed(body) ==
  /\ body # <<>>
  /\ \A k \in DOMAIN body : body[k].part = IF k % 2 = 1 THEN "header" ELSE "body"

FreeSlots(S) == {s \in Slot : S.operations[s].pc = "free"}
Free == [pc |-> "free", batch |-> Nothing, retries |-> 0]

\* The promise of iterate() is settled.
Settled(S) == [S EXCEPT !.iteration = IF stop = "error" THEN "rejected" ELSE "resolved"]

\* await finish()
Finished(S) == IF S.slots.running = 0 THEN Settled(S) ELSE [S EXCEPT !.iteration = "finishing"]

\* done(): the operation in slot s is over.
OperationOver(S, s) ==
  LET T == [S EXCEPT !.operations[s] = Free, !.slots = Released(@)]
  IN  IF S.slots.waiter = NoOne /\ S.iteration = "finishing" /\ T.slots.running = 0
      THEN Settled(T) ELSE T

\* send(), msearchOperation() and its first tryMsearch().
Sent(S, batch) ==
  LET s == CHOOSE s \in FreeSlots(S) : TRUE
  IN  [S EXCEPT !.operations[s] = [pc |-> "sent", batch |-> batch, retries |-> options.retries]]

\* The callbacks at the indices I are called, each with the response at its index or with an error.
Told(S, batch, I, outcome) ==
  LET Answer(i) == [of |-> IF outcome[i] = "failed" THEN batch.callbacks[i]
                           ELSE batch.body[2 * i - 1].search,
                    outcome |-> outcome[i]]
  IN  [S EXCEPT !.answers = [s \in Search |->
         LET mine == {i \in I : batch.callbacks[i] = s}
         IN  @[s] \o [k \in 1..Cardinality(mine) |-> Answer(CHOOSE i \in mine : TRUE)]]]

\* The searches that tryMsearch() does not answer but keeps for a retry.
Retried(S, s, outcome) ==
  {i \in DOMAIN S.operations[s].batch.callbacks :
     outcome[i] = "busy" /\ S.operations[s].retries > 0}

\* tryMsearch() with the outcome of each search: "ok", "busy" (429), "error" (another status), or
\* "failed" for all if client.msearch reports an error; then retrySearch().
Responded(S, s, outcome) ==
  LET batch == S.operations[s].batch
      all   == DOMAIN batch.callbacks
      retry == Retried(S, s, outcome)
      kept  == Chosen(batch, [n \in 1..Cardinality(retry) |-> Nth(retry, n)])
      T     == Told(S, batch, all \ retry, outcome)
  IN  IF retry # {} /\ S.operations[s].retries > 0
      THEN [T EXCEPT !.operations[s] = [pc |-> "waiting", batch |-> kept, retries |-> @.retries - 1]]
      ELSE OperationOver(T, s)

-----------------------------------------------------------------------------
Init ==
  /\ options \in MsearchSettings
  /\ iteration = "reading"
  /\ asked = 0
  /\ queue = <<>>
  /\ stop = "no"
  /\ loaded = Nothing
  /\ flushTimer = "armed"
  /\ copied = [f \in Flush |-> Nothing]
  /\ slots = Unused
  /\ operations = [s \in Slot |-> Free]
  /\ answers = [s \in Search |-> <<>>]

Callback == Drained(slots)

\* The user calls search(), with a header or a body that is no object, or before or after stop().
CallSearch(valid) ==
  LET s == asked + 1
      Refused(why) == [State EXCEPT !.answers[s] = Append(@, [of |-> s, outcome |-> why])]
  IN  /\ Callback
      /\ s \in Search
      /\ asked' = s
      /\ Becomes(CASE stop # "no" -> Refused("stopped")
                   [] stop = "no" /\ ~valid -> Refused("invalid")
                   [] OTHER -> [State EXCEPT !.queue = Append(@, s)])
      /\ UNCHANGED <<options, stop>>

\* The user calls stop(); what it does the second time is nothing.
Stop(how) ==
  /\ Callback
  /\ stop = "no"
  /\ stop' = how
  /\ UNCHANGED <<options, iteration, asked, queue, loaded, flushTimer, copied, slots, operations, answers>>

\* iterate() reads a search.
Read ==
  LET batch == Loaded(loaded, Head(queue))
      T     == [State EXCEPT !.queue = Tail(@), !.flushTimer = "armed", !.loaded = batch]
  IN  /\ Callback
      /\ iteration = "reading" /\ queue # <<>>
      /\ Becomes(IF Len(batch.callbacks) >= PerOperation
                 THEN [T EXCEPT !.iteration = "flushing",
                                !.slots = Acquired(@, Loop, options.concurrency)]
                 ELSE T)
      /\ UNCHANGED <<options, asked, stop>>

\* Mutation of EndOfStream: what is loaded is forgotten.
EndOfStreamUnsent ==
  /\ Callback
  /\ iteration = "reading" /\ queue = <<>> /\ stop # "no"
  /\ Becomes(Finished([State EXCEPT !.flushTimer = "cleared"]))
  /\ UNCHANGED <<options, asked, stop>>

\* The stream ends.
EndOfStream ==
  LET T == [State EXCEPT !.flushTimer = "cleared"]
  IN  /\ Callback
      /\ iteration = "reading" /\ queue = <<>> /\ stop # "no"
      /\ Becomes(IF loaded.callbacks # <<>>
                 THEN [T EXCEPT !.iteration = "flushingLast",
                                !.slots = Acquired(@, Loop, options.concurrency)]
                 ELSE Finished(T))
      /\ UNCHANGED <<options, asked, stop>>

IdleFlushes == {f \in Flush : slots.at[f] = "none"}

\* The flush interval elapses.
FlushTimeout ==
  /\ Callback
  /\ options.interval
  /\ flushTimer = "armed"
  /\ IF loaded = Nothing
     THEN Becomes([State EXCEPT !.flushTimer = "fired"])
     ELSE /\ IdleFlushes # {}
          /\ LET f == CHOOSE f \in IdleFlushes : TRUE
             IN  Becomes([State EXCEPT !.flushTimer = "fired", !.copied[f] = loaded,
                                       !.loaded = Nothing,
                                       !.slots = Acquired(@, f, options.concurrency)])
  /\ UNCHANGED <<options, asked, stop>>

Runnable(p) == slots.at[p] = "ready" \/ (Drained(slots) /\ slots.at[p] = "immediate")

\* iterate() has a slot.
ResumeLoop ==
  /\ Runnable(Loop)
  /\ LET T == Sent([State EXCEPT !.slots = Resumed(@, Loop)], loaded)
     IN  Becomes(IF iteration = "flushing" THEN [T EXCEPT !.iteration = "reading", !.loaded = Nothing]
                                           ELSE Finished(T))
  /\ UNCHANGED <<options, asked, stop>>

\* onFlushTimeout has a slot.
ResumeFlush(f) ==
  /\ Runnable(f)
  /\ Becomes(Sent([State EXCEPT !.slots = Resumed(@, f), !.copied[f] = Nothing], copied[f]))
  /\ UNCHANGED <<options, asked, stop>>

\* client.msearch is answered: with an error, or with a response for each search.
Answered(s) ==
  LET batch == operations[s].batch
      of    == DOMAIN batch.callbacks
  IN  /\ Callback
      /\ operations[s].pc = "sent"
      /\ \/ Becomes(Responded(State, s, [i \in of |-> "failed"]))
         \/ /\ WellFormed(batch.body)
            /\ \E outcome \in [of -> {"ok", "busy", "error"}] : Becomes(Responded(State, s, outcome))
      /\ UNCHANGED <<options, asked, stop>>

\* The wait before a retry is over.
Retry(s) ==
  /\ Callback
  /\ operations[s].pc = "waiting"
  /\ Becomes([State EXCEPT !.operations[s].pc = "sent"])
  /\ UNCHANGED <<options, asked, stop>>

Next ==
  \/ \E valid \in BOOLEAN : CallSearch(valid)
  \/ \E how \in {"plain", "error"} : Stop(how)
  \/ Read \/ EndOfStream
  \/ FlushTimeout
  \/ ResumeLoop
  \/ \E f \in Flush : ResumeFlush(f)
  \/ \E s \in Slot : Answered(s) \/ Retry(s)

Spec == Init /\ [][Next]_vars

(***************************************************************************)
(* The stream is read, promises and timers call back, every request of the *)
(* client is answered, see Answered of Transport.  Nothing is assumed of   *)
(* the user.  The flush interval elapses in the helpers where it may: what *)
(* rearms the timer is a search, and there are MaxSearches.                *)
(***************************************************************************)
Fairness ==
  /\ WF_vars(Read \/ EndOfStream)
  /\ WF_vars(FlushTimeout)
  /\ WF_vars(ResumeLoop)
  /\ \A f \in Flush : WF_vars(ResumeFlush(f))
  /\ \A s \in Slot : WF_vars(Answered(s) \/ Retry(s))

FairSpec == Spec /\ Fairness

-----------------------------------------------------------------------------
\* Whatever full bodies, flushes, retries and stop() make of the order of the searches, and
\* although bodies and callbacks are kept in two arrays: a search is answered once, with the
\* response to itself.
OwnAnswer ==
  \A s \in Search : /\ Len(answers[s]) <= 1
                    /\ \A k \in DOMAIN answers[s] : answers[s][k].of = s

\* When the promise of the helper is settled, each search that was asked before has been answered.
NoneForgotten == Over => \A s \in 1..asked : answers[s] # <<>>

\* Every search is answered, if the flush interval elapses or the helper is stopped; and the
\* promise of the helper is settled, if it is stopped.
Served ==
  /\ options.interval \/ stop # "no" => \A s \in 1..asked : answers[s] # <<>>
  /\ stop # "no" => Over

\* However searches, flushes, retries and stop() interleave, all are served again and again.
Ends == []<>Served
=============================================================================
