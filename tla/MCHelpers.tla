------------------------------ MODULE MCHelpers ------------------------------
(***************************************************************************)
(* Small instances of the three helpers with processes of their own: an    *)
(* application uses one of Bulk, Msearch and Scroll.  They share no state, *)
(* so that one run checks them side by side.                               *)
(***************************************************************************)
EXTENDS MCBulk

CONSTANTS
  MsearchSettings, MaxSearches, PerOperation,   \* see Msearch
  MaxPages, ScrollRetries, Clear, MaxIds,       \* see Scroll
  k1, k2

VARIABLES
  helper,  \* which one it is
  options, iteration, asked, queue, stop, loaded, flushTimer, copied, slots, operations, answers,
  hits, context, serverId, cursor, lost, trouble, stage, attempt, scrollId, stopped, pages, clears

M == INSTANCE Msearch
S == INSTANCE Scroll

ASSUME HelpersAssumption == M!MsearchAssumption /\ S!ScrollAssumption

msearchVars ==
  <<options, iteration, asked, queue, stop, loaded, flushTimer, copied, slots, operations, answers>>
scrollVars ==
  <<hits, context, serverId, cursor, lost, trouble, stage, attempt, scrollId, stopped, pages, clears>>
allVars == <<helper, vars, msearchVars, scrollVars>>

\* As Unhindered of MCBulk.
MCMsearchSettings ==
  {[concurrency |-> 1, retries |-> 1, interval |-> FALSE],
   [concurrency |-> 2, retries |-> 1, interval |-> FALSE],
   [concurrency |-> 3, retries |-> 1, interval |-> TRUE]}

\* The helpers that are not used stay in one initial state.
HelpersInit ==
  /\ helper \in {"bulk", "msearch", "scroll"}
  /\ Init /\ M!Init /\ S!Init
  /\ helper # "bulk" => setting = CHOOSE s \in Settings : TRUE
  /\ helper # "msearch" => options = CHOOSE o \in MsearchSettings : TRUE
  /\ helper # "scroll" => hits = 0

InBulk(A) == helper = "bulk" /\ A /\ UNCHANGED <<helper, msearchVars, scrollVars>>
InMsearch(A) == helper = "msearch" /\ A /\ UNCHANGED <<helper, vars, scrollVars>>
InScroll(A) == helper = "scroll" /\ A /\ UNCHANGED <<helper, vars, msearchVars>>

HelpersNext == InBulk(Next) \/ InMsearch(M!Next) \/ InScroll(S!Next)

\* The fairness of the three modules.  As `helper` never changes, a condition on a disjunction of
\* their actions is the condition on each.
HelpersFairness ==
  /\ WF_allVars(InBulk(Read) \/ InMsearch(M!Read \/ M!EndOfStream) \/ InScroll(S!Answered))
  /\ WF_allVars(InBulk(ResumeLoop) \/ InMsearch(M!ResumeLoop) \/ InScroll(S!Wake))
  /\ WF_allVars(InBulk(Refreshed) \/ InMsearch(M!FlushTimeout) \/ InScroll(S!EndCleared))
  /\ \A f \in Flush : WF_allVars(InBulk(ResumeFlush(f)) \/ InMsearch(M!ResumeFlush(f)))
  /\ \A s \in Slot : WF_allVars(\/ InBulk(Answered(s) \/ Retry(s))
                                 \/ InMsearch(M!Answered(s) \/ M!Retry(s)))

HelpersSpec == HelpersInit /\ [][HelpersNext]_allVars /\ HelpersFairness

OwnAnswer == M!OwnAnswer
NoneForgotten == M!NoneForgotten
PagesComplete == S!PagesComplete
ContextCleared == S!ContextCleared

\* Each helper's liveness: see Ends of Bulk and of Msearch, and NextSettles of Scroll.
AllEnd ==
  []<>(\/ helper = "bulk" /\ Settled
       \/ helper = "msearch" /\ M!Served
       \/ helper = "scroll" /\ ~S!Running)
=============================================================================
