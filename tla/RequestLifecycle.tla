-------------------------- MODULE RequestLifecycle --------------------------
(***************************************************************************)
(* What an observer of the client sees of a request: the events it emits   *)
(* about it, in the order of the observability guide, and the callback.    *)
(* A request is answered exactly once and nothing is emitted about it      *)
(* afterwards; 'response' comes at most once, and with the answer; a body  *)
(* is deserialized only for a request that was sent; a request is sent     *)
(* again only between these.  Events a handler emits together are one      *)
(* step: an observer cannot act between them.                              *)
(***************************************************************************)
EXTENDS Naturals

CONSTANT Request

VARIABLES
  seen,     \* the last event emitted about each request
  answers   \* how often its callback was called

vars == <<seen, answers>>

Init ==
  /\ seen = [r \in Request |-> "nothing"]
  /\ answers = [r \in Request |-> 0]

Emit(r, event) ==
  /\ answers[r] = 0
  /\ seen' = [seen EXCEPT ![r] = event]
  /\ UNCHANGED answers

Answer(r, event) ==
  /\ answers[r] = 0
  /\ seen' = [seen EXCEPT ![r] = event]
  /\ answers' = [answers EXCEPT ![r] = 1]

\* The request is serialized and, unless it is compressed first, sent.
Issue(r) == seen[r] = "nothing" /\ \E event \in {"serialization", "request"} : Emit(r, event)

\* It is sent, for the first time or again.
Send(r) == seen[r] \in {"serialization", "request", "deserialization"} /\ Emit(r, "request")

Deserialize(r) == seen[r] = "request" /\ Emit(r, "deserialization")

\* It is answered with a response, or with the error of the last attempt.
Respond(r) == seen[r] \in {"request", "deserialization"} /\ Answer(r, "response")

\* It is answered although it could not be serialized, compressed or sent, or sent again.
GiveUp(r) ==
  \/ seen[r] \in {"serialization", "request", "deserialization"} /\ Answer(r, seen[r])
  \/ seen[r] = "serialization" /\ Answer(r, "request")

Next ==
  \E r \in Request : Issue(r) \/ Send(r) \/ Deserialize(r) \/ Respond(r) \/ GiveUp(r)

Spec == Init /\ [][Next]_vars
=============================================================================
