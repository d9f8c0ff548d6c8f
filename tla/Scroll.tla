------------------------------- MODULE Scroll -------------------------------
(***************************************************************************)
(* The scroll search helper: a generator that opens a scroll context with  *)
(* a search, hands its pages one by one to a consumer, waits when          *)
(* Elasticsearch is too busy, and clears the context.                      *)
(*                                                                         *)
(* Pages are numbered.  Elasticsearch is external: it keeps the context,   *)
(* gives it a new id when it likes, answers the last id only, and answers  *)
(* 404 once the context is gone.  A request takes effect when it is        *)
(* answered; or its answer is lost, and the Transport sends it again.      *)
(***************************************************************************)
EXTENDS Naturals, Sequences

CONSTANTS
  MaxPages,       \* bound: pages of a search
  ScrollRetries,  \* maxRetries
  Clear,          \* calls of clear() the consumer may make; their number is a bound
  MaxIds          \* bound: ids of one context

\* Assumed where the module is instantiated.
ScrollAssumption == MaxPages \in Nat /\ ScrollRetries \in Nat /\ MaxIds \in Nat \ {0}

\* What the server knows, and what the answers told.
VARIABLES
  hits,       \* how many pages the search has
  context,    \* "none", "open" or "gone"
  serverId,   \* the id the context has now
  cursor,     \* the page it would return next
  lost,       \* the answer to a scroll was lost and the request sent again
  trouble     \* a request to clear the context failed or was answered 429, or the context expired

\* The generator.
VARIABLES
  stage,      \* see Stages
  attempt,    \* i of the loop of retries
  scrollId,   \* scroll_id
  stopped,    \* stop
  pages,      \* the pages yielded
  clears      \* each call of clear() by the consumer: its state, one of "none", "sent",
              \* "resolved" and "rejected", and the id it sent

server == <<hits, context, serverId, cursor, lost, trouble>>
generator == <<stage, attempt, scrollId, stopped, pages>>
vars == <<server, generator, clears>>

\* Before the first next(); a request under way, or the wait after a 429; suspended at a yield;
\* and how the generator ended: it returned, the consumer left it with return(), or it threw
\* because Elasticsearch was too busy, a search or a scroll failed, the context was not there,
\* or its own clear() was rejected ("uncleared").
Searching == {"searching", "waitingToSearch"}
Scrolling == {"scrolling", "waitingToScroll"}
Stages ==
  {"new", "yielded", "clearing", "returned", "left", "busy", "failed", "missing", "uncleared"}
    \cup Searching \cup Scrolling

Running == stage \in Searching \cup Scrolling \cup {"clearing"}

-----------------------------------------------------------------------------
Init ==
  /\ hits \in 0..MaxPages
  /\ context = "none"
  /\ serverId = 0 /\ cursor = 1
  /\ lost = FALSE /\ trouble = FALSE
  /\ stage = "new"
  /\ attempt = 0
  /\ scrollId = 0
  /\ stopped = FALSE
  /\ pages = <<>>
  /\ clears = [c \in Clear |-> [state |-> "none", id |-> 0]]

\* Mutation of LoopEnds: it is left to the server to expire the context.
LoopEndsUncleared ==
  /\ stage' = "returned"
  /\ stopped' = TRUE

\* The loop ends: clear, unless the consumer did.
LoopEnds ==
  /\ stage' = IF stopped THEN "returned" ELSE "clearing"
  /\ stopped' = TRUE

\* Mutation of WhileHits: scroll_id stays what it was at first.
WhileHitsSameId(p, id) ==
  IF p <= hits
  THEN /\ stage' = "yielded"
       /\ scrollId' = IF p = 1 THEN id ELSE scrollId
       /\ pages' = Append(pages, p)
       /\ UNCHANGED stopped
  ELSE LoopEnds /\ UNCHANGED <<scrollId, pages>>

\* The head of the while loop, with a response that has page p, or no hits: it is then that
\* scroll_id follows.
WhileHits(p, id) ==
  IF p <= hits
  THEN /\ stage' = "yielded"
       /\ scrollId' = id
       /\ pages' = Append(pages, p)
       /\ UNCHANGED stopped
  ELSE LoopEnds /\ UNCHANGED <<scrollId, pages>>

\* The first next().
Start ==
  /\ stage = "new"
  /\ stage' = "searching"
  /\ UNCHANGED <<server, attempt, scrollId, stopped, pages, clears>>

\* The search is answered: the context is open.
SearchAnswered ==
  /\ stage = "searching"
  /\ context' = "open"
  /\ serverId' = 1
  /\ cursor' = 2
  /\ IF hits = 0 THEN LoopEnds /\ scrollId' = 1 /\ UNCHANGED pages ELSE WhileHits(1, 1)
  /\ UNCHANGED <<hits, lost, trouble, attempt, clears>>

\* A scroll is answered, by the next page and an id that may be new.
ScrollAnswered ==
  /\ stage = "scrolling"
  /\ context = "open" /\ scrollId = serverId
  /\ \E id \in serverId..MaxIds :
       /\ serverId' = id
       /\ WhileHits(cursor, id)
  /\ cursor' = cursor + 1
  /\ UNCHANGED <<hits, context, lost, trouble, attempt, clears>>

\* The answer is lost on the way, and with it the id it may have brought.  The Transport sends the
\* same request again.
ScrollLost ==
  /\ stage = "scrolling"
  /\ context = "open" /\ scrollId = serverId
  /\ \E id \in serverId..MaxIds : serverId' = id
  /\ cursor' = IF cursor <= hits THEN cursor + 1 ELSE cursor
  /\ lost' = TRUE
  /\ UNCHANGED <<hits, context, trouble, generator, clears>>

\* The context is gone, or its id is another one.
ScrollMissing ==
  /\ stage = "scrolling"
  /\ context = "gone" \/ scrollId # serverId
  /\ stage' = "missing"
  /\ UNCHANGED <<server, attempt, scrollId, stopped, pages, clears>>

\* 429: sleep.
Busy ==
  /\ \/ stage = "searching" /\ stage' = "waitingToSearch"
     \/ stage = "scrolling" /\ stage' = "waitingToScroll"
  /\ UNCHANGED <<server, attempt, scrollId, stopped, pages, clears>>

\* Mutation of Wake: the attempts are not counted.
WakeUncounted ==
  /\ stage \in {"waitingToSearch", "waitingToScroll"}
  /\ stage' = IF stage = "waitingToSearch" THEN "searching" ELSE "scrolling"
  /\ UNCHANGED <<server, attempt, scrollId, stopped, pages, clears>>

\* The wait is over: the next attempt, or the ResponseError of the last.
Wake ==
  /\ stage \in {"waitingToSearch", "waitingToScroll"}
  /\ IF attempt < ScrollRetries
     THEN /\ attempt' = attempt + 1
          /\ stage' = IF stage = "waitingToSearch" THEN "searching" ELSE "scrolling"
     ELSE stage' = "busy" /\ UNCHANGED attempt
  /\ UNCHANGED <<server, scrollId, stopped, pages, clears>>

\* Any other error of the search or of a scroll is thrown.
Fails ==
  /\ stage \in {"searching", "scrolling"}
  /\ stage' = "failed"
  /\ UNCHANGED <<server, attempt, scrollId, stopped, pages, clears>>

\* The consumer, or the wait before a retry, takes longer than the `scroll` parameter allows.
Expire ==
  /\ context = "open"
  /\ stage \notin {"searching", "scrolling"}
  /\ context' = "gone"
  /\ trouble' = TRUE
  /\ UNCHANGED <<hits, serverId, cursor, lost, generator, clears>>

\* The consumer asks for the next page.
NextPage ==
  /\ stage = "yielded"
  /\ IF stopped THEN stage' = "returned" ELSE stage' = "scrolling"
  /\ attempt' = 0
  /\ UNCHANGED <<server, scrollId, stopped, pages, clears>>

\* The consumer leaves its loop: the generator runs no code of its own any more.
Leave ==
  /\ stage \in {"new", "yielded"}
  /\ stage' = "left"
  /\ UNCHANGED <<server, attempt, scrollId, stopped, pages, clears>>

\* The consumer calls result.clear(), at any time after the first page, and awaits it or not.  It
\* sends the scroll_id of that moment.
CallClear(c) ==
  /\ pages # <<>>
  /\ clears[c].state = "none"
  /\ clears' = [clears EXCEPT ![c] = [state |-> "sent", id |-> scrollId]]
  /\ stopped' = TRUE
  /\ UNCHANGED <<server, stage, attempt, scrollId, pages>>

\* clearScroll is answered: 404 when no context has the id that was sent.  400 is not ignored,
\* because `options` has an `ignore` of its own, which ignores 429 instead.
Cleared(id, resolved) ==
  \/ context = "open" /\ id = serverId /\ context' = "gone" /\ resolved /\ UNCHANGED trouble
  \/ (context = "gone" \/ id # serverId) /\ ~resolved /\ UNCHANGED <<context, trouble>>
  \/ resolved \in BOOLEAN /\ trouble' = TRUE /\ UNCHANGED context

ClearAnswered(c) ==
  /\ clears[c].state = "sent"
  /\ \E resolved \in BOOLEAN :
       /\ Cleared(clears[c].id, resolved)
       /\ clears' = [clears EXCEPT ![c].state = IF resolved THEN "resolved" ELSE "rejected"]
  /\ UNCHANGED <<hits, serverId, cursor, lost, generator>>

\* The generator's own clear().
EndCleared ==
  /\ stage = "clearing"
  /\ \E resolved \in BOOLEAN :
       /\ Cleared(scrollId, resolved)
       /\ stage' = IF resolved THEN "returned" ELSE "uncleared"
  /\ UNCHANGED <<hits, serverId, cursor, lost, attempt, scrollId, stopped, pages, clears>>

Answered == SearchAnswered \/ ScrollAnswered \/ ScrollMissing \/ Busy \/ Fails

Next ==
  \/ Start \/ NextPage \/ Leave
  \/ SearchAnswered \/ ScrollAnswered \/ ScrollLost \/ ScrollMissing \/ Busy \/ Fails \/ Wake
  \/ Expire
  \/ \E c \in Clear : CallClear(c) \/ ClearAnswered(c)
  \/ EndCleared

Spec == Init /\ [][Next]_vars

\* Requests are answered in the end and timers fire.  Nothing is assumed of the consumer.
Fairness ==
  /\ WF_vars(Answered)
  /\ WF_vars(Wake)
  /\ WF_vars(EndCleared)

FairSpec == Spec /\ Fairness

-----------------------------------------------------------------------------
\* The generator follows the ids: unless the consumer calls clear(), the context expires, or an
\* answer was lost that brought a new id, it never asks for a context that is not there.  Pages
\* come in order and none twice; one is missing only if an answer was lost.  If the generator
\* goes on to clear, and nobody else did, it has yielded all there are.
PagesComplete ==
  LET cleared == \E c \in Clear : clears[c].state # "none"
  IN  /\ stage = "missing" => cleared \/ trouble \/ (lost /\ scrollId # serverId)
      /\ \A k \in 1..(Len(pages) - 1) : pages[k] < pages[k + 1]
      /\ ~lost => pages = [k \in DOMAIN pages |-> k]
      /\ stage \in {"clearing", "returned", "uncleared"} /\ ~cleared /\ ~lost => Len(pages) = hits

\* A clear() by the consumer was rejected and had sent an id the context no longer has.
Outdated(c) == clears[c].state = "rejected" /\ clears[c].id # serverId

\* When the generator is at its end, the context is gone, or a call of clear() by the consumer is
\* still under way, unless such a request failed or came with an id the server had replaced: then
\* whoever called clear() was told.  In particular the generator never ends without a clear()
\* when it has met the last page, nor leaves that to a clear() of the consumer that was never
\* sent, and a clear() is turned down only for the reasons given.
ContextCleared ==
  stage \in {"returned", "uncleared"} =>
    \/ context = "gone" \/ trouble
    \/ stage = "uncleared" /\ scrollId # serverId
    \/ \E c \in Clear : clears[c].state = "sent" \/ Outdated(c)

\* Each next() is settled: the generator never runs for ever.
NextSettles == []<>~Running
=============================================================================
