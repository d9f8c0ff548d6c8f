------------------------------- MODULE MCBulk -------------------------------
(***************************************************************************)
(* Small instances of Bulk: at most two flushes wait at a time, and four   *)
(* documents are read.                                                     *)
(***************************************************************************)
EXTENDS Bulk

CONSTANTS f1, f2

Setting(concurrency, interval) ==
  [concurrency |-> concurrency, retries |-> 1, interval |-> interval, abortable |-> TRUE,
   refresh |-> FALSE]

\* A datasource that is never slow, with one operation at a time; and a slow one, with slots
\* enough for all who call semaphore().
Unhindered ==
  {[Setting(1, FALSE) EXCEPT !.refresh = TRUE], Setting(2, FALSE), Setting(3, TRUE)}

\* A slow datasource and one operation at a time.
SlowAndNarrow == {[Setting(1, TRUE) EXCEPT !.abortable = FALSE]}

\* One operation at a time, never slow.
Narrow == {[Setting(1, FALSE) EXCEPT !.abortable = FALSE]}
=============================================================================
