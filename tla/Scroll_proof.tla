---------------------------- MODULE Scroll_proof ----------------------------
(***************************************************************************)
(* The scroll search helper, for any number of pages, ids, retries and     *)
(* calls of clear().                                                       *)
(***************************************************************************)
EXTENDS Scroll, SequenceTheorems, TLAPS

\* A call of clear().
Calls == [state : {"none", "sent", "resolved", "rejected"}, id : Nat]

Types ==
  /\ hits \in Nat /\ serverId \in Nat /\ scrollId \in Nat /\ attempt \in Nat
  /\ cursor \in Nat \ {0}
  /\ context \in {"none", "open", "gone"}
  /\ lost \in BOOLEAN /\ trouble \in BOOLEAN /\ stopped \in BOOLEAN
  /\ stage \in Stages
  /\ pages \in Seq(Nat \ {0})
  /\ clears \in [Clear -> Calls]

\* The consumer called clear().
IsCleared == \E c \in Clear : clears[c].state # "none"

\* A page is there, or asked for.
Open == {"yielded", "scrolling", "waitingToScroll"}

\* Nothing happened before the search is answered.
Fresh ==
  stage \in {"new"} \cup Searching =>
    /\ pages = <<>> /\ cursor = 1 /\ ~lost /\ serverId = 0
    /\ context = "none" /\ ~stopped
    /\ ~IsCleared

\* The pages are in order, and the server is past the last of them; it is at the next one unless
\* an answer was lost.
InOrder ==
  /\ \A k \in 1..(Len(pages) - 1) : pages[k] < pages[k + 1]
  /\ \A k \in 1..Len(pages) : pages[k] < cursor /\ pages[k] <= hits
  /\ ~lost => /\ pages = [k \in DOMAIN pages |-> k]
              /\ stage \in Open => cursor = Len(pages) + 1
  /\ stage \in {"clearing", "returned", "uncleared"} /\ ~IsCleared /\ ~lost
       => Len(pages) = hits

\* No id is ahead of the server's.
Behind == scrollId <= serverId /\ \A c \in Clear : clears[c].id <= serverId

\* While pages are asked for, the id is the last one unless an answer was lost, the context is
\* there unless it was cleared or expired, and it is the consumer who stopped.
Followed ==
  /\ stage \in Open =>
       /\ context # "none"
       /\ ~lost => scrollId = serverId
       /\ stopped => IsCleared
       /\ context = "gone" => IsCleared \/ trouble
  /\ stage = "missing" => IsCleared \/ trouble \/ (lost /\ scrollId # serverId)

\* Once stopped, the context is gone, was not cleared for a reason, or is about to be cleared.
Provided ==
  /\ stage \in {"clearing", "returned", "uncleared"} => stopped
  /\ stopped => \/ context = "gone" \/ trouble \/ stage = "clearing"
                \/ stage = "uncleared" /\ scrollId # serverId
                \/ \E c \in Clear : clears[c].state = "sent" \/ Outdated(c)

ScrollInv == Types /\ Fresh /\ InOrder /\ Behind /\ Followed /\ Provided

LEMMA ScrollInvInit == ScrollAssumption /\ Init => ScrollInv
<1> SUFFICES ASSUME ScrollAssumption, Init PROVE ScrollInv
  OBVIOUS
<1>1. Types
  <2>1. pages \in Seq(Nat \ {0})
    BY EmptySeq DEF Init
  <2>2. hits \in Nat
    BY DEF ScrollAssumption, Init
  <2>3. clears \in [Clear -> Calls]
    BY DEF Init, Calls
  <2>4. stage \in Stages
    BY DEF Init, Stages
  <2>5. /\ serverId \in Nat /\ scrollId \in Nat /\ attempt \in Nat /\ cursor \in Nat \ {0}
        /\ context \in {"none", "open", "gone"}
    BY DEF Init
  <2>6. lost \in BOOLEAN /\ trouble \in BOOLEAN /\ stopped \in BOOLEAN
    BY Zenon DEF Init
  <2> QED
    BY <2>1, <2>2, <2>3, <2>4, <2>5, <2>6 DEF Types
<1>2. Fresh
  BY DEF Init, Fresh, IsCleared
<1>3. InOrder
  <2>1. Len(pages) = 0 /\ DOMAIN pages = {} /\ pages = [k \in {} |-> k]
    BY DEF Init
  <2> QED
    BY <2>1 DEF Init, InOrder, Open
<1>4. Behind /\ Followed /\ Provided
  BY DEF Init, Behind, Followed, Provided, Open
<1> QED
  BY <1>1, <1>2, <1>3, <1>4 DEF ScrollInv

\* A page is appended in order.
LEMMA NextPageInOrder ==
  ASSUME Types, InOrder, Types', pages' = Append(pages, cursor), cursor' = cursor + 1,
         hits' = hits, lost' = lost, cursor <= hits, stage' = "yielded",
         ~lost => cursor = Len(pages) + 1
  PROVE  InOrder'
<1>1. /\ Len(pages') = Len(pages) + 1
      /\ \A k \in 1..Len(pages) : pages'[k] = pages[k]
      /\ pages'[Len(pages) + 1] = cursor
      /\ DOMAIN pages' = 1..(Len(pages) + 1)
      /\ Len(pages) \in Nat
      /\ DOMAIN pages = 1..Len(pages)
  BY DEF Types
<1>2. \A k \in 1..(Len(pages') - 1) : pages'[k] < pages'[k + 1]
  <2> SUFFICES ASSUME NEW k \in 1..Len(pages) PROVE pages'[k] < pages'[k + 1]
    BY <1>1
  <2>1. CASE k = Len(pages)
    BY <1>1, <2>1 DEF InOrder
  <2>2. CASE k # Len(pages)
    <3> DEFINE n == Len(pages)
    <3>0. n \in Nat /\ k \in 1..n /\ k # n
      BY <1>1, <2>2
    <3>1. k \in 1..(n - 1) /\ k + 1 \in 1..n
      <4> HIDE DEF n
      <4> QED
        BY <3>0
    <3> QED
      BY <1>1, <3>1 DEF InOrder
  <2> QED
    BY <2>1, <2>2
<1>3. \A k \in 1..Len(pages') : pages'[k] < cursor' /\ pages'[k] <= hits'
  <2> SUFFICES ASSUME NEW k \in 1..(Len(pages) + 1) PROVE pages'[k] < cursor' /\ pages'[k] <= hits'
    BY <1>1
  <2>1. CASE k = Len(pages) + 1
    BY <1>1, <2>1 DEF Types
  <2>2. CASE k # Len(pages) + 1
    <3>1. k \in 1..Len(pages)
      BY <1>1, <2>2
    <3>2. pages[k] \in Nat
      BY <1>1, <3>1 DEF Types
    <3> QED
      BY <1>1, <3>1, <3>2 DEF InOrder, Types
  <2> QED
    BY <2>1, <2>2
<1>4. ~lost => pages' = [k \in DOMAIN pages' |-> k]
  <2> SUFFICES ASSUME ~lost PROVE \A k \in 1..(Len(pages) + 1) : pages'[k] = k
    <3>1. pages' = [k \in DOMAIN pages' |-> pages'[k]]
      <4>1. pages' \in [1..Len(pages') -> Nat \ {0}]
        BY LenProperties, Zenon DEF Types
      <4> QED
        BY <4>1
    <3> QED
      BY <1>1, <3>1, Zenon
  <2>1. \A k \in 1..Len(pages) : pages[k] = k
    BY <1>1 DEF InOrder
  <2> QED
    BY <1>1, <2>1
<1> QED
  BY <1>1, <1>2, <1>3, <1>4 DEF InOrder

\* With no page left, all were yielded.
LEMMA AllPages ==
  ASSUME Types, InOrder, stage \in Open, ~(cursor <= hits), ~lost
  PROVE  Len(pages) = hits
<1> DEFINE n == Len(pages)
<1>1. n \in Nat /\ DOMAIN pages = 1..n /\ cursor = n + 1 /\ hits \in Nat
  BY LenProperties DEF InOrder, Types
<1>2. n # 0 => pages[n] = n /\ pages[n] <= hits
  BY <1>1 DEF InOrder
<1> HIDE DEF n
<1>3. n = hits
  BY <1>1, <1>2
<1> QED
  BY <1>3 DEF n

\* The server's id grows.
LEMMA StaysBehind ==
  ASSUME Types, Behind, serverId' \in Nat, serverId <= serverId', clears' = clears,
         scrollId' \in {scrollId, serverId'}
  PROVE  Behind'
<1>1. \A c \in Clear : clears[c].id \in Nat
  BY DEF Types, Calls
<1> QED
  BY <1>1 DEF Types, Behind

\* A clear() turned down for its id stays so.
LEMMA StaysOutdated ==
  ASSUME Types, Behind, serverId' \in Nat, serverId <= serverId', clears' = clears
  PROVE  \A c \in Clear : Outdated(c) => Outdated(c)'
<1>1. \A c \in Clear : clears[c].id \in Nat
  BY DEF Types, Calls
<1> QED
  BY <1>1 DEF Types, Behind, Outdated

\* Whatever the answer to a clear(), the context is at most taken away.
LEMMA ClearEffects ==
  ASSUME Types,
         \/ context' = "gone" /\ trouble' = trouble
         \/ context' = context /\ trouble' = trouble
         \/ context' = context /\ trouble' = TRUE
  PROVE  /\ context' \in {context, "gone"} /\ trouble' \in BOOLEAN /\ (trouble => trouble')
         /\ context = "gone" => context' = "gone"
<1>1. trouble \in BOOLEAN
  BY DEF Types
<1>2. trouble' = trouble \/ trouble' = TRUE
  OBVIOUS
<1>3. trouble' \in BOOLEAN /\ (trouble => trouble')
  <2>1. CASE trouble' = trouble
    BY <1>1, <2>1, Zenon
  <2>2. CASE trouble' = TRUE
    BY <2>2, Zenon
  <2> QED
    BY <1>2, <2>1, <2>2
<1> QED
  BY <1>3

LEMMA ScrollInvStep ==
  ASSUME ScrollAssumption, ScrollInv, [Next]_vars
  PROVE  ScrollInv'
<1> USE DEF Searching, Scrolling
<1>1. CASE Start
  BY <1>1 DEF Start, server, ScrollInv, Types, Fresh, InOrder, Behind, Followed, Provided,
         Outdated, IsCleared, Open, Stages
<1>2. CASE SearchAnswered
  <2> USE <1>2 DEF SearchAnswered
  <2>1. CASE hits = 0
    <3>1. stage' = "clearing" /\ stopped' = TRUE /\ pages' = pages /\ scrollId' = 1
      BY <2>1 DEF LoopEnds, ScrollInv, Fresh
    <3>2. Behind'
      BY <3>1, StaysBehind DEF ScrollInv, Fresh
    <3>3. Types'
      BY <3>1 DEF ScrollInv, Types, Stages
    <3> QED
      BY <2>1, <3>1, <3>2, <3>3
         DEF ScrollInv, Fresh, InOrder, Followed, Provided, IsCleared, Open
  <2>2. CASE hits # 0
    <3>1. /\ stage' = "yielded" /\ stopped' = stopped
          /\ pages' = Append(pages, cursor) /\ scrollId' = 1
      BY <2>2 DEF WhileHits, ScrollInv, Fresh, Types
    <3>2. Types'
      BY <3>1 DEF ScrollInv, Types, Stages
    <3>3. InOrder'
      <4>1. cursor <= hits /\ cursor = Len(pages) + 1 /\ cursor' = cursor + 1
        BY <2>2 DEF ScrollInv, Fresh, Types
      <4> QED
        BY <3>1, <3>2, <4>1, NextPageInOrder DEF ScrollInv
    <3>4. Behind'
      BY <3>1, StaysBehind DEF ScrollInv, Fresh
    <3> QED
      BY <3>1, <3>2, <3>3, <3>4 DEF ScrollInv, Fresh, Followed, Provided, IsCleared, Open
  <2> QED
    BY <2>1, <2>2
<1>3. CASE ScrollAnswered
  <2> USE <1>3 DEF ScrollAnswered
  <2>1. PICK id \in serverId..MaxIds : serverId' = id /\ WhileHits(cursor, id)
    OBVIOUS
  <2>0. serverId' \in Nat /\ serverId <= serverId'
    BY <2>1 DEF ScrollInv, Types, ScrollAssumption
  <2>2. CASE cursor <= hits
    <3>1. /\ stage' = "yielded" /\ stopped' = stopped
          /\ pages' = Append(pages, cursor) /\ scrollId' = id
      BY <2>1, <2>2 DEF WhileHits
    <3>2. Types'
      BY <2>1, <3>1 DEF ScrollInv, Types, Stages, ScrollAssumption
    <3>3. InOrder'
      <4>1. ~lost => cursor = Len(pages) + 1
        BY DEF ScrollInv, InOrder, Open
      <4> QED
        BY <2>2, <3>1, <3>2, <4>1, NextPageInOrder DEF ScrollInv
    <3>4. Behind'
      BY <2>0, <2>1, <3>1, StaysBehind DEF ScrollInv
    <3>5. Provided'
      <4>1. stopped => IsCleared /\ Provided
        BY DEF ScrollInv, Followed, Open
      <4>2. \A c \in Clear : Outdated(c) => Outdated(c)'
        BY <2>0, StaysOutdated DEF ScrollInv
      <4> QED
        BY <3>1, <4>1, <4>2 DEF Provided
    <3> QED
      BY <2>1, <3>1, <3>2, <3>3, <3>4, <3>5 DEF ScrollInv, Fresh, Followed, IsCleared, Open
  <2>3. CASE ~(cursor <= hits)
    <3>1. LoopEnds /\ pages' = pages /\ scrollId' = scrollId
      BY <2>1, <2>3 DEF WhileHits
    <3>2. Types'
      BY <2>1, <3>1 DEF LoopEnds, ScrollInv, Types, Stages, ScrollAssumption
    <3>3. Fresh' /\ Followed' /\ Provided'
      <4>1. \A c \in Clear : Outdated(c) => Outdated(c)'
        BY <2>0, StaysOutdated DEF ScrollInv
      <4>2. Provided'
        BY <3>1, <4>1 DEF LoopEnds, ScrollInv, Provided
      <4> QED
        BY <3>1, <4>2 DEF LoopEnds, ScrollInv, Fresh, Followed, IsCleared, Open
    <3>6. Behind'
      BY <2>0, <3>1, StaysBehind DEF ScrollInv
    <3>4. ~lost => Len(pages) = hits
      BY <2>3, AllPages DEF ScrollInv, Open
    <3>5. InOrder'
      <4>1. stage' \notin Open
        BY <3>1 DEF LoopEnds, Open
      <4>2. \A k \in 1..Len(pages) : pages[k] < cursor'
        <5>1. \A k \in 1..Len(pages) : pages[k] \in Nat
          BY DEF ScrollInv, Types
        <5> QED
          BY <5>1 DEF ScrollInv, InOrder, Types
      <4> QED
        BY <3>1, <3>4, <4>1, <4>2 DEF ScrollInv, InOrder, IsCleared
    <3> QED
      BY <3>2, <3>3, <3>5, <3>6 DEF ScrollInv
  <2> QED
    BY <2>2, <2>3
<1>4. CASE ScrollLost
  <2> USE <1>4 DEF ScrollLost, generator
  <2>1. \A k \in 1..Len(pages) : pages[k] < cursor'
    <3>1. \A k \in 1..Len(pages) : pages[k] \in Nat
      BY DEF ScrollInv, Types
    <3> QED
      BY <3>1 DEF ScrollInv, InOrder, Types
  <2>2. InOrder'
    BY <2>1 DEF ScrollInv, InOrder, Open
  <2>3. serverId' \in Nat /\ serverId <= serverId'
    BY DEF ScrollInv, Types, ScrollAssumption
  <2>4. Behind'
    BY <2>3, StaysBehind DEF ScrollInv
  <2>5. \A c \in Clear : Outdated(c) => Outdated(c)'
    BY <2>3, StaysOutdated DEF ScrollInv
  <2>6. Provided'
    BY <2>5 DEF ScrollInv, Provided
  <2> QED
    BY <2>2, <2>3, <2>4, <2>6 DEF ScrollInv, Types, Fresh, Followed, IsCleared, Open
<1>5. CASE ScrollMissing
  BY <1>5 DEF ScrollMissing, server, ScrollInv, Types, Fresh, InOrder, Behind, Followed, Provided,
         Outdated, IsCleared, Open, Stages
<1>6. CASE Busy
  BY <1>6 DEF Busy, server, ScrollInv, Types, Fresh, InOrder, Behind, Followed, Provided,
         Outdated, IsCleared, Open, Stages
<1>7. CASE Fails
  BY <1>7 DEF Fails, server, ScrollInv, Types, Fresh, InOrder, Behind, Followed, Provided,
         Outdated, IsCleared, Open, Stages
<1>8. CASE Wake
  BY <1>8 DEF Wake, server, ScrollInv, Types, Fresh, InOrder, Behind, Followed, Provided,
         Outdated, IsCleared, Open, Stages
<1>9. CASE Expire
  BY <1>9 DEF Expire, generator, ScrollInv, Types, Fresh, InOrder, Behind, Followed, Provided,
         Outdated, IsCleared, Open, Stages
<1>10. CASE NextPage
  BY <1>10 DEF NextPage, server, ScrollInv, Types, Fresh, InOrder, Behind, Followed, Provided,
         Outdated, IsCleared, Open, Stages
<1>11. CASE Leave
  BY <1>11 DEF Leave, server, ScrollInv, Types, Fresh, InOrder, Behind, Followed, Provided,
         Outdated, IsCleared, Open, Stages
<1>12. ASSUME NEW c \in Clear, CallClear(c) PROVE ScrollInv'
  <2> USE <1>12 DEF CallClear, server
  <2>1. /\ clears[c] \in Calls
        /\ clears' = [clears EXCEPT ![c] = [state |-> "sent", id |-> scrollId]]
        /\ clears'[c] = [state |-> "sent", id |-> scrollId]
        /\ \A d \in Clear : d # c => clears'[d] = clears[d]
    BY DEF ScrollInv, Types
  <2>2. Types'
    BY <2>1 DEF ScrollInv, Types, Calls
  <2>3. IsCleared'
    BY <2>1 DEF IsCleared
  <2>4. Behind'
    BY <2>1 DEF ScrollInv, Types, Behind
  <2>5. Provided'
    BY <2>1 DEF Provided
  <2> QED
    BY <2>2, <2>3, <2>4, <2>5 DEF ScrollInv, Fresh, InOrder, Followed, Open
<1>13. ASSUME NEW c \in Clear, ClearAnswered(c) PROVE ScrollInv'
  <2> USE <1>13 DEF ClearAnswered, generator
  <2>1. PICK resolved \in BOOLEAN :
          /\ Cleared(clears[c].id, resolved)
          /\ clears' = [clears EXCEPT ![c].state = IF resolved THEN "resolved" ELSE "rejected"]
    OBVIOUS
  <2>2. /\ clears[c] \in Calls /\ clears'[c] \in Calls
        /\ clears'[c].state = IF resolved THEN "resolved" ELSE "rejected"
        /\ clears'[c].id = clears[c].id
        /\ \A d \in Clear : d # c => clears'[d] = clears[d]
    BY <2>1 DEF ScrollInv, Types, Calls
  <2>3. /\ context' \in {context, "gone"} /\ trouble' \in BOOLEAN /\ (trouble => trouble')
        /\ context = "gone" => context' = "gone"
    <3>1. \/ context' = "gone" /\ trouble' = trouble
          \/ context' = context /\ trouble' = trouble
          \/ context' = context /\ trouble' = TRUE
      BY <2>1, Zenon DEF Cleared
    <3> QED
      BY <3>1, ClearEffects DEF ScrollInv
  <2>4. Types'
    BY <2>1, <2>2, <2>3 DEF ScrollInv, Types
  <2>5. IsCleared /\ IsCleared'
    BY <2>2 DEF IsCleared
  <2>6. Behind'
    BY <2>2 DEF ScrollInv, Behind
  <2>7. Provided'
    <3>1. context' = "gone" \/ trouble' \/ Outdated(c)'
      BY <2>1, <2>2 DEF Cleared, Outdated
    <3> QED
      BY <3>1 DEF ScrollInv, Provided
  <2> QED
    BY <2>3, <2>4, <2>5, <2>6, <2>7 DEF ScrollInv, Fresh, InOrder, Followed, Open
<1>14. CASE EndCleared
  <2> USE <1>14 DEF EndCleared
  <2>1. PICK resolved \in BOOLEAN :
          /\ Cleared(scrollId, resolved)
          /\ stage' = IF resolved THEN "returned" ELSE "uncleared"
    OBVIOUS
  <2>2. /\ context' \in {context, "gone"} /\ trouble' \in BOOLEAN /\ (trouble => trouble')
        /\ context = "gone" => context' = "gone"
    <3>1. \/ context' = "gone" /\ trouble' = trouble
          \/ context' = context /\ trouble' = trouble
          \/ context' = context /\ trouble' = TRUE
      BY <2>1, Zenon DEF Cleared
    <3> QED
      BY <3>1, ClearEffects DEF ScrollInv
  <2>3. Types'
    BY <2>1, <2>2 DEF ScrollInv, Types, Stages
  <2>4. context' = "gone" \/ trouble' \/ (stage' = "uncleared" /\ scrollId' # serverId')
    BY <2>1 DEF Cleared
  <2>5. Provided'
    BY <2>1, <2>4 DEF ScrollInv, Provided
  <2> QED
    BY <2>1, <2>2, <2>3, <2>5 DEF ScrollInv, Fresh, InOrder, Behind, Followed, IsCleared, Open
<1>15. CASE UNCHANGED vars
  BY <1>15 DEF vars, server, generator, ScrollInv, Types, Fresh, InOrder, Behind, Followed,
         Provided, Outdated, IsCleared, Open
<1> QED
  BY <1>1, <1>2, <1>3, <1>4, <1>5, <1>6, <1>7, <1>8, <1>9, <1>10, <1>11, <1>12, <1>13, <1>14,
     <1>15 DEF Next

\* Scrolling yields all pages, in order, and asks for a context that is there, if the consumer does
\* not clear it and no answer is lost that brought a new id.
THEOREM ScrollsAll ==
  ASSUME ScrollAssumption
  PROVE  Spec => []PagesComplete
<1>1. ScrollInv => PagesComplete
  BY DEF ScrollInv, InOrder, Followed, PagesComplete, IsCleared
<1> QED
  BY <1>1, ScrollInvInit, ScrollInvStep, PTL DEF Spec

\* A generator at its end has cleared its context, or the consumer does, if no clear() fails or
\* sends an id the server has replaced.
THEOREM ScrollClears ==
  ASSUME ScrollAssumption
  PROVE  Spec => []ContextCleared
<1>1. ScrollInv => ContextCleared
  BY DEF ScrollInv, Provided, ContextCleared
<1> QED
  BY <1>1, ScrollInvInit, ScrollInvStep, PTL DEF Spec
=============================================================================
