---------------------------- MODULE SemaphoreOps ----------------------------
(***************************************************************************)
(* The semaphore that buildSemaphore() makes, once in the bulk helper and  *)
(* once in the multi search helper, as operators on a record:              *)
(*   running  slots taken: operations under way and slots granted          *)
(*   waiter   whose promise `resolveSemaphore` resolves, or NoOne          *)
(*   at       where each process that calls semaphore() stands:            *)
(*            "none"       not waiting for a slot                          *)
(*            "immediate"  has a slot, resumes by setImmediate             *)
(*            "queued"     awaits the promise of the full semaphore        *)
(*            "ready"      that promise is resolved: it resumes as a       *)
(*                         microtask, before any other callback            *)
(* There is one `resolveSemaphore`: a second waiter replaces the first.    *)
(***************************************************************************)
EXTENDS Naturals

CONSTANTS
  Process,  \* the callers of semaphore()
  NoOne

ASSUME ProcessAssumption == NoOne \notin Process

Places == {"none", "immediate", "queued", "ready"}

SemaphoreType ==
  [running : Nat, waiter : Process \cup {NoOne}, at : [Process -> Places]]

Unused == [running |-> 0, waiter |-> NoOne, at |-> [p \in Process |-> "none"]]

\* Mutation of Acquired: a slot given at once is not counted.
AcquiredUncounted(s, p, concurrency) ==
  IF s.running < concurrency
  THEN [s EXCEPT !.at[p] = "immediate"]
  ELSE [s EXCEPT !.waiter = p, !.at[p] = "queued"]

\* semaphore(), awaited by p.
Acquired(s, p, concurrency) ==
  IF s.running < concurrency
  THEN [s EXCEPT !.running = @ + 1, !.at[p] = "immediate"]
  ELSE [s EXCEPT !.waiter = p, !.at[p] = "queued"]

\* p goes on with the slot it has.
Resumed(s, p) == [s EXCEPT !.at[p] = "none"]

\* Mutation of Released: the slot handed over is not counted.
ReleasedUncounted(s) ==
  IF s.waiter = NoOne
  THEN [s EXCEPT !.running = @ - 1]
  ELSE [s EXCEPT !.running = @ - 1, !.waiter = NoOne, !.at[s.waiter] = "ready"]

\* An operation is over: its slot goes to the waiter, if there is one.
Released(s) ==
  IF s.waiter = NoOne
  THEN [s EXCEPT !.running = @ - 1]
  ELSE [s EXCEPT !.waiter = NoOne, !.at[s.waiter] = "ready"]

Granted(s) == {p \in Process : s.at[p] \in {"immediate", "ready"}}

\* No microtask is pending, so the runtime may call something else back.
Drained(s) == \A p \in Process : s.at[p] # "ready"
=============================================================================
