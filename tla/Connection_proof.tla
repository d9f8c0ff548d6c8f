-------------------------- MODULE Connection_proof --------------------------
(***************************************************************************)
(* The requests of a connection, however many: they are answered at most   *)
(* once and counted, only errors after the headers go without a listener,  *)
(* and close() waits.                                                      *)
(***************************************************************************)
EXTENDS Connection, FiniteSetTheorems, TLAPS

Answers == {"TypeError", "response", "TimeoutError", "RequestAbortedError", "ConnectionError"}

Ticks == {<<>>, <<"error">>, <<"abort">>, <<"abort", "error">>}

Types ==
  /\ openRequests \in Nat
  /\ status \in [Request -> {"new", "refused", "sent"}]
  /\ listening \in [Request -> BOOLEAN]
  /\ catching \in [Request -> BOOLEAN]
  /\ ticks \in [Request -> Ticks]
  /\ destroyed \in [Request -> BOOLEAN]
  /\ source \in [Request -> {"none", "flowing", "ended", "failed"}]
  /\ response \in [Request -> {"none", "reading", "read", "broken"}]
  /\ answers \in [Request -> {<<>>} \cup {<<answer>> : answer \in Answers}]

\* Of one request: its listeners are there exactly as long as it has no answer; who waits for
\* headers listens; what is emitted comes after its end, and an error meets either the listeners
\* or the one that was put there when they were removed, unless the body was read already.
Request_OK(r) ==
  /\ listening[r] <=> (status[r] = "sent" /\ answers[r] = <<>>)
  /\ status[r] = "new" => answers[r] = <<>>
  /\ status[r] = "refused" => answers[r] # <<>>
  /\ status[r] # "sent" => response[r] = "none" /\ ticks[r] = <<>> /\ source[r] = "none"
  /\ Waits(r) => listening[r]
  /\ response[r] # "none" => answers[r] = <<"response">>
  /\ ~destroyed[r] => ticks[r] = <<>>
  /\ ticks[r] \in {<<"error">>, <<"abort", "error">>} =>
       listening[r] \/ catching[r] \/ response[r] = "broken"
  /\ r \in uncaught => response[r] = "broken"

ConnectionInv ==
  /\ Types
  /\ openRequests = Cardinality(Waiting) + Cardinality(Refused)
  /\ \A r \in Request : Request_OK(r)
  /\ uncaught \subseteq Request

LEMMA WaitingFinite ==
  /\ IsFiniteSet(Waiting) /\ Cardinality(Waiting) \in Nat
  /\ IsFiniteSet(Refused) /\ Cardinality(Refused) \in Nat
<1>1. Waiting \subseteq Request /\ Refused \subseteq Request
  BY DEF Waiting, Refused
<1> QED
  BY <1>1, RequestAssumption, FS_Subset, FS_CardinalityType

\* An answer takes one request off the count.
LEMMA AnswerCounted ==
  ASSUME ConnectionInv, NEW r \in Request, NEW answer \in Answers, listening[r],
         Answer(r, answer), status' = status
  PROVE  /\ openRequests' \in Nat
         /\ openRequests' = Cardinality(Waiting') + Cardinality(Refused')
<1>1. r \in Waiting
  BY DEF ConnectionInv, Request_OK, Waiting
<1>2. Waiting' = Waiting \ {r}
  BY <1>1 DEF Answer, Waiting, ConnectionInv, Types
<1>3. Refused' = Refused
  BY DEF Refused
<1>4. Cardinality(Waiting') = Cardinality(Waiting) - 1 /\ Cardinality(Waiting) # 0
  BY <1>1, <1>2, WaitingFinite, FS_RemoveElement, FS_EmptySet
<1> QED
  BY <1>3, <1>4, WaitingFinite DEF Answer, ConnectionInv

\* Who listens has no answer yet, and gets its first.
LEMMA AnswerGiven ==
  ASSUME ConnectionInv, NEW r \in Request, NEW answer \in Answers, listening[r],
         Answer(r, answer)
  PROVE  /\ answers' = [answers EXCEPT ![r] = <<answer>>]
         /\ answers' \in [Request -> {<<>>} \cup {<<a>> : a \in Answers}]
         /\ listening' = [listening EXCEPT ![r] = FALSE]
         /\ listening' \in [Request -> BOOLEAN]
<1>1. answers[r] = <<>>
  BY DEF ConnectionInv, Request_OK
<1>2. answers' = [answers EXCEPT ![r] = <<answer>>]
  BY <1>1 DEF Answer
<1>3. listening' = [listening EXCEPT ![r] = FALSE]
  BY DEF Answer
<1> QED
  BY <1>2, <1>3 DEF ConnectionInv, Types

\* abort() schedules the events of a request that is not over yet.
LEMMA AbortSchedules ==
  ASSUME ConnectionInv, NEW r \in Request, status[r] = "sent", AbortHttp(r)
  PROVE  /\ ticks' = [ticks EXCEPT ![r] =
                        IF destroyed[r] THEN ticks[r]
                        ELSE IF response[r] = "none" THEN <<"abort", "error">> ELSE <<"abort">>]
         /\ ticks' \in [Request -> Ticks]
         /\ destroyed' = [destroyed EXCEPT ![r] = TRUE]
         /\ destroyed' \in [Request -> BOOLEAN]
         /\ response' = [response EXCEPT ![r] = IF response[r] = "reading" THEN "broken" ELSE response[r]]
         /\ response' \in [Request -> {"none", "reading", "read", "broken"}]
<1>1. ~destroyed[r] => ticks[r] = <<>>
  BY DEF ConnectionInv, Request_OK
<1>2. <<>> \o <<"abort", "error">> = <<"abort", "error">> /\ Append(<<>>, "abort") = <<"abort">>
  OBVIOUS
<1>3. ticks' = [ticks EXCEPT ![r] =
                  IF destroyed[r] THEN ticks[r]
                  ELSE IF response[r] = "none" THEN <<"abort", "error">> ELSE <<"abort">>]
  BY <1>1, <1>2 DEF AbortHttp
<1>4. ticks' \in [Request -> Ticks]
  BY <1>3 DEF ConnectionInv, Types, Ticks
<1> QED
  BY <1>3, <1>4 DEF AbortHttp, ConnectionInv, Types

\* Node emits what comes first.
LEMMA TickEmitted ==
  ASSUME ConnectionInv, NEW r \in Request, ticks[r] # <<>>, NEW event,
         Head(ticks[r]) = event, ticks' = [ticks EXCEPT ![r] = Tail(ticks[r])]
  PROVE  /\ event = "abort" =>
              /\ ticks[r] \in {<<"abort">>, <<"abort", "error">>}
              /\ ticks'[r] = IF ticks[r] = <<"abort">> THEN <<>> ELSE <<"error">>
         /\ event = "error" => ticks[r] = <<"error">> /\ ticks'[r] = <<>>
         /\ ticks' \in [Request -> Ticks]
         /\ \A q \in Request \ {r} : ticks'[q] = ticks[q]
<1>1. ticks[r] \in Ticks
  BY DEF ConnectionInv, Types
<1>2. /\ Head(<<"error">>) = "error" /\ Tail(<<"error">>) = <<>>
      /\ Head(<<"abort">>) = "abort" /\ Tail(<<"abort">>) = <<>>
      /\ Head(<<"abort", "error">>) = "abort" /\ Tail(<<"abort", "error">>) = <<"error">>
      /\ <<"abort">> # <<"abort", "error">>
  OBVIOUS
<1>3. ticks'[r] = Tail(ticks[r]) /\ Tail(ticks[r]) \in Ticks
  BY <1>1, <1>2 DEF ConnectionInv, Types, Ticks
<1> QED
  BY <1>1, <1>2, <1>3 DEF ConnectionInv, Types, Ticks

LEMMA NothingAnswered ==
  ASSUME ConnectionInv, UNCHANGED <<status, answers, openRequests>>
  PROVE  /\ openRequests' \in Nat
         /\ openRequests' = Cardinality(Waiting') + Cardinality(Refused')
<1>1. Waiting' = Waiting /\ Refused' = Refused
  BY DEF Waiting, Refused
<1> QED
  BY <1>1 DEF ConnectionInv, Types

LEMMA InitInv == Init => ConnectionInv
<1> SUFFICES ASSUME Init PROVE ConnectionInv
  OBVIOUS
<1>1. Waiting = {} /\ Refused = {}
  BY DEF Init, Waiting, Refused
<1>2. Types
  BY DEF Init, Types, Ticks
<1>3. \A r \in Request : Request_OK(r)
  BY DEF Init, Request_OK, Waits
<1> QED
  BY <1>1, <1>2, <1>3, FS_EmptySet DEF Init, ConnectionInv

\* A step says of the other requests nothing.
LEMMA OthersKept ==
  ASSUME ConnectionInv, NEW q \in Request,
         status'[q] = status[q], listening'[q] = listening[q], catching'[q] = catching[q],
         ticks'[q] = ticks[q], destroyed'[q] = destroyed[q], source'[q] = source[q],
         response'[q] = response[q], answers'[q] = answers[q],
         q \in uncaught' <=> q \in uncaught
  PROVE  Request_OK(q)'
BY DEF ConnectionInv, Request_OK, Waits

LEMMA StepInv ==
  ASSUME ConnectionInv, [Next]_vars
  PROVE  ConnectionInv'
<1> USE DEF node, connection
<1>1. ASSUME NEW r \in Request, Refuse(r)
      PROVE  ConnectionInv'
  <2>1. openRequests' \in Nat /\ openRequests' = Cardinality(Waiting') + Cardinality(Refused')
    <3>1. Waiting' = Waiting
      BY <1>1 DEF Refuse, Waiting, ConnectionInv, Types
    <3>2. Refused' = Refused \cup {r} /\ r \notin Refused
      BY <1>1 DEF Refuse, Refused, ConnectionInv, Types
    <3>3. Cardinality(Refused \cup {r}) = Cardinality(Refused) + 1
      BY <3>2, WaitingFinite, FS_AddElement
    <3>4. openRequests' = openRequests + 1
      BY <1>1 DEF Refuse
    <3> QED
      BY <3>1, <3>2, <3>3, <3>4, WaitingFinite DEF ConnectionInv
  <2>2. answers[r] = <<>> /\ answers' = [answers EXCEPT ![r] = <<"TypeError">>]
    <3>1. answers[r] = <<>> /\ Append(<<>>, "TypeError") = <<"TypeError">>
      BY <1>1 DEF Refuse, ConnectionInv, Request_OK
    <3> QED
      BY <1>1, <3>1 DEF Refuse
  <2>3. Types'
    <3>1. status' \in [Request -> {"new", "refused", "sent"}]
      BY <1>1 DEF Refuse, ConnectionInv, Types
    <3>2. listening' \in [Request -> BOOLEAN] /\ catching' \in [Request -> BOOLEAN]
      BY <1>1, <2>1, <2>2 DEF Refuse, ConnectionInv, Types
    <3>3. ticks' \in [Request -> Ticks]
      BY <1>1, <2>1, <2>2 DEF Refuse, ConnectionInv, Types, Ticks
    <3>4. destroyed' \in [Request -> BOOLEAN]
      BY <1>1, <2>1, <2>2 DEF Refuse, ConnectionInv, Types
    <3>5. source' \in [Request -> {"none", "flowing", "ended", "failed"}]
      BY <1>1 DEF Refuse, ConnectionInv, Types
    <3>6. response' \in [Request -> {"none", "reading", "read", "broken"}]
      BY <1>1, <2>1, <2>2 DEF Refuse, ConnectionInv, Types
    <3>7. answers' \in [Request -> {<<>>} \cup {<<a>> : a \in Answers}]
      BY <1>1, <2>1, <2>2 DEF Refuse, ConnectionInv, Types, Answers
    <3> QED
      BY <2>1, <3>1, <3>2, <3>3, <3>4, <3>5, <3>6, <3>7 DEF Types
  <2>4. \A q \in Request \ {r} : Request_OK(q)'
    BY <1>1, <2>1, <2>2, OthersKept DEF Refuse, ConnectionInv, Types
  <2>5. Request_OK(r)'
    BY <1>1, <2>1, <2>2 DEF Refuse, ConnectionInv, Types, Ticks, Request_OK, Waits
  <2>6. uncaught' \subseteq Request
    BY <1>1, <2>1, <2>2 DEF Refuse, ConnectionInv, Types, Ticks, Request_OK
  <2> QED
    BY <2>1, <2>3, <2>4, <2>5, <2>6 DEF ConnectionInv
<1>2. ASSUME NEW r \in Request, Send(r)
      PROVE  ConnectionInv'
  <2>1. openRequests' \in Nat /\ openRequests' = Cardinality(Waiting') + Cardinality(Refused')
    <3>1. Waiting' = Waiting \cup {r} /\ r \notin Waiting
      BY <1>2 DEF Send, Waiting, ConnectionInv, Types, Request_OK
    <3>2. Refused' = Refused
      BY <1>2 DEF Send, Refused, ConnectionInv, Types
    <3>3. Cardinality(Waiting \cup {r}) = Cardinality(Waiting) + 1
      BY <3>1, WaitingFinite, FS_AddElement
    <3>4. openRequests' = openRequests + 1
      BY <1>2 DEF Send
    <3> QED
      BY <3>1, <3>2, <3>3, <3>4, WaitingFinite DEF ConnectionInv
  <2>2. Types'
    <3>1. status' \in [Request -> {"new", "refused", "sent"}]
      BY <1>2 DEF Send, ConnectionInv, Types
    <3>2. listening' \in [Request -> BOOLEAN] /\ catching' \in [Request -> BOOLEAN]
      BY <1>2, <2>1 DEF Send, ConnectionInv, Types
    <3>3. ticks' \in [Request -> Ticks]
      BY <1>2, <2>1 DEF Send, ConnectionInv, Types, Ticks
    <3>4. destroyed' \in [Request -> BOOLEAN]
      BY <1>2, <2>1 DEF Send, ConnectionInv, Types
    <3>5. source' \in [Request -> {"none", "flowing", "ended", "failed"}]
      BY <1>2 DEF Send, ConnectionInv, Types
    <3>6. response' \in [Request -> {"none", "reading", "read", "broken"}]
      BY <1>2, <2>1 DEF Send, ConnectionInv, Types
    <3>7. answers' \in [Request -> {<<>>} \cup {<<a>> : a \in Answers}]
      BY <1>2, <2>1 DEF Send, ConnectionInv, Types, Answers
    <3> QED
      BY <2>1, <3>1, <3>2, <3>3, <3>4, <3>5, <3>6, <3>7 DEF Types
  <2>3. \A q \in Request \ {r} : Request_OK(q)'
    BY <1>2, <2>1, OthersKept DEF Send, ConnectionInv, Types
  <2>4. Request_OK(r)'
    BY <1>2, <2>1 DEF Send, ConnectionInv, Types, Ticks, Request_OK, Waits
  <2>5. uncaught' \subseteq Request
    BY <1>2, <2>1 DEF Send, ConnectionInv, Types, Ticks, Request_OK
  <2> QED
    BY <2>1, <2>2, <2>3, <2>4, <2>5 DEF ConnectionInv
<1>3. ASSUME NEW r \in Request, OnResponse(r)
      PROVE  ConnectionInv'
  <2>1. openRequests' \in Nat /\ openRequests' = Cardinality(Waiting') + Cardinality(Refused')
    BY <1>3, AnswerCounted DEF OnResponse, Answers
  <2>2. /\ answers' = [answers EXCEPT ![r] = <<"response">>]
        /\ answers' \in [Request -> {<<>>} \cup {<<a>> : a \in Answers}]
        /\ listening' = [listening EXCEPT ![r] = FALSE]
        /\ listening' \in [Request -> BOOLEAN]
    BY <1>3, AnswerGiven DEF OnResponse, Answers
  <2>3. Types'
    <3>1. status' \in [Request -> {"new", "refused", "sent"}]
      BY <1>3 DEF OnResponse, ConnectionInv, Types
    <3>2. listening' \in [Request -> BOOLEAN] /\ catching' \in [Request -> BOOLEAN]
      BY <1>3, <2>1, <2>2 DEF OnResponse, ConnectionInv, Types
    <3>3. ticks' \in [Request -> Ticks]
      BY <1>3, <2>1, <2>2 DEF OnResponse, ConnectionInv, Types, Ticks
    <3>4. destroyed' \in [Request -> BOOLEAN]
      BY <1>3, <2>1, <2>2 DEF OnResponse, ConnectionInv, Types
    <3>5. source' \in [Request -> {"none", "flowing", "ended", "failed"}]
      BY <1>3 DEF OnResponse, ConnectionInv, Types
    <3>6. response' \in [Request -> {"none", "reading", "read", "broken"}]
      BY <1>3, <2>1, <2>2 DEF OnResponse, ConnectionInv, Types
    <3>7. answers' \in [Request -> {<<>>} \cup {<<a>> : a \in Answers}]
      BY <1>3, <2>1, <2>2 DEF OnResponse, ConnectionInv, Types, Answers
    <3> QED
      BY <2>1, <3>1, <3>2, <3>3, <3>4, <3>5, <3>6, <3>7 DEF Types
  <2>4. \A q \in Request \ {r} : Request_OK(q)'
    BY <1>3, <2>1, <2>2, OthersKept DEF OnResponse, ConnectionInv, Types
  <2>5. Request_OK(r)'
    BY <1>3, <2>1, <2>2 DEF OnResponse, ConnectionInv, Types, Ticks, Request_OK, Waits
  <2>6. uncaught' \subseteq Request
    BY <1>3, <2>1, <2>2 DEF OnResponse, ConnectionInv, Types, Ticks, Request_OK
  <2> QED
    BY <2>1, <2>3, <2>4, <2>5, <2>6 DEF ConnectionInv
<1>4. ASSUME NEW r \in Request, OnTimeout(r)
      PROVE  ConnectionInv'
  <2>1. openRequests' \in Nat /\ openRequests' = Cardinality(Waiting') + Cardinality(Refused')
    BY <1>4, AnswerCounted DEF OnTimeout, Answers
  <2>2. /\ answers' = [answers EXCEPT ![r] = <<"TimeoutError">>]
        /\ answers' \in [Request -> {<<>>} \cup {<<a>> : a \in Answers}]
        /\ listening' = [listening EXCEPT ![r] = FALSE]
        /\ listening' \in [Request -> BOOLEAN]
    BY <1>4, AnswerGiven DEF OnTimeout, Answers
  <2>3. status[r] = "sent"
    BY <1>4 DEF OnTimeout, Waits, ConnectionInv, Request_OK
  <2>4. /\ ticks' = [ticks EXCEPT ![r] =
                       IF destroyed[r] THEN ticks[r]
                       ELSE IF response[r] = "none" THEN <<"abort", "error">> ELSE <<"abort">>]
        /\ ticks' \in [Request -> Ticks]
        /\ destroyed' = [destroyed EXCEPT ![r] = TRUE]
        /\ destroyed' \in [Request -> BOOLEAN]
        /\ response' = [response EXCEPT ![r] =
                          IF response[r] = "reading" THEN "broken" ELSE response[r]]
        /\ response' \in [Request -> {"none", "reading", "read", "broken"}]
    BY <1>4, <2>3, AbortSchedules DEF OnTimeout
  <2>5. Types'
    <3>1. status' \in [Request -> {"new", "refused", "sent"}]
      BY <1>4 DEF OnTimeout, ConnectionInv, Types
    <3>2. listening' \in [Request -> BOOLEAN] /\ catching' \in [Request -> BOOLEAN]
      BY <1>4, <2>1, <2>2, <2>3, <2>4 DEF OnTimeout, ConnectionInv, Types
    <3>3. ticks' \in [Request -> Ticks]
      BY <1>4, <2>1, <2>2, <2>3, <2>4 DEF OnTimeout, ConnectionInv, Types, Ticks
    <3>4. destroyed' \in [Request -> BOOLEAN]
      BY <1>4, <2>1, <2>2, <2>3, <2>4 DEF OnTimeout, ConnectionInv, Types
    <3>5. source' \in [Request -> {"none", "flowing", "ended", "failed"}]
      BY <1>4 DEF OnTimeout, ConnectionInv, Types
    <3>6. response' \in [Request -> {"none", "reading", "read", "broken"}]
      BY <1>4, <2>1, <2>2, <2>3, <2>4 DEF OnTimeout, ConnectionInv, Types
    <3>7. answers' \in [Request -> {<<>>} \cup {<<a>> : a \in Answers}]
      BY <1>4, <2>1, <2>2, <2>3, <2>4 DEF OnTimeout, ConnectionInv, Types, Answers
    <3> QED
      BY <2>1, <3>1, <3>2, <3>3, <3>4, <3>5, <3>6, <3>7 DEF Types
  <2>6. \A q \in Request \ {r} : Request_OK(q)'
    BY <1>4, <2>1, <2>2, <2>3, <2>4, OthersKept, ZenonT(30) DEF OnTimeout, ConnectionInv, Types
  <2>7. Request_OK(r)'
    BY <1>4, <2>1, <2>2, <2>3, <2>4 DEF OnTimeout, ConnectionInv, Types, Ticks, Request_OK, Waits
  <2>8. uncaught' \subseteq Request
    BY <1>4, <2>1, <2>2, <2>3, <2>4 DEF OnTimeout, ConnectionInv, Types, Ticks, Request_OK
  <2> QED
    BY <2>1, <2>5, <2>6, <2>7, <2>8 DEF ConnectionInv
<1>5. ASSUME NEW r \in Request, SocketFails(r)
      PROVE  ConnectionInv'
  <2>1. openRequests' \in Nat /\ openRequests' = Cardinality(Waiting') + Cardinality(Refused')
    BY <1>5, NothingAnswered DEF SocketFails
  <2>2. ticks[r] = <<>> /\ ticks' = [ticks EXCEPT ![r] = <<"error">>]
    <3>1. ticks[r] = <<>> /\ Append(<<>>, "error") = <<"error">>
      BY <1>5 DEF SocketFails, Waits, ConnectionInv, Request_OK
    <3> QED
      BY <1>5, <3>1 DEF SocketFails
  <2>3. Types'
    <3>1. status' \in [Request -> {"new", "refused", "sent"}]
      BY <1>5 DEF SocketFails, ConnectionInv, Types
    <3>2. listening' \in [Request -> BOOLEAN] /\ catching' \in [Request -> BOOLEAN]
      BY <1>5, <2>1, <2>2 DEF SocketFails, ConnectionInv, Types
    <3>3. ticks' \in [Request -> Ticks]
      BY <1>5, <2>1, <2>2 DEF SocketFails, ConnectionInv, Types, Ticks
    <3>4. destroyed' \in [Request -> BOOLEAN]
      BY <1>5, <2>1, <2>2 DEF SocketFails, ConnectionInv, Types
    <3>5. source' \in [Request -> {"none", "flowing", "ended", "failed"}]
      BY <1>5 DEF SocketFails, ConnectionInv, Types
    <3>6. response' \in [Request -> {"none", "reading", "read", "broken"}]
      BY <1>5, <2>1, <2>2 DEF SocketFails, ConnectionInv, Types
    <3>7. answers' \in [Request -> {<<>>} \cup {<<a>> : a \in Answers}]
      BY <1>5, <2>1, <2>2 DEF SocketFails, ConnectionInv, Types, Answers
    <3> QED
      BY <2>1, <3>1, <3>2, <3>3, <3>4, <3>5, <3>6, <3>7 DEF Types
  <2>4. \A q \in Request \ {r} : Request_OK(q)'
    BY <1>5, <2>1, <2>2, OthersKept DEF SocketFails, ConnectionInv, Types
  <2>5. Request_OK(r)'
    BY <1>5, <2>1, <2>2 DEF SocketFails, ConnectionInv, Types, Ticks, Request_OK, Waits
  <2>6. uncaught' \subseteq Request
    BY <1>5, <2>1, <2>2 DEF SocketFails, ConnectionInv, Types, Ticks, Request_OK
  <2> QED
    BY <2>1, <2>3, <2>4, <2>5, <2>6 DEF ConnectionInv
<1>6. ASSUME NEW r \in Request, Abort(r)
      PROVE  ConnectionInv'
  <2>1. openRequests' \in Nat /\ openRequests' = Cardinality(Waiting') + Cardinality(Refused')
    BY <1>6, NothingAnswered DEF Abort
  <2>2. status[r] = "sent"
    BY <1>6 DEF Abort, Waits, ConnectionInv, Request_OK
  <2>3. /\ ticks' = [ticks EXCEPT ![r] =
                       IF destroyed[r] THEN ticks[r]
                       ELSE IF response[r] = "none" THEN <<"abort", "error">> ELSE <<"abort">>]
        /\ ticks' \in [Request -> Ticks]
        /\ destroyed' = [destroyed EXCEPT ![r] = TRUE]
        /\ destroyed' \in [Request -> BOOLEAN]
        /\ response' = [response EXCEPT ![r] =
                          IF response[r] = "reading" THEN "broken" ELSE response[r]]
        /\ response' \in [Request -> {"none", "reading", "read", "broken"}]
    BY <1>6, <2>2, AbortSchedules DEF Abort
  <2>4. Types'
    <3>1. status' \in [Request -> {"new", "refused", "sent"}]
      BY <1>6 DEF Abort, ConnectionInv, Types
    <3>2. listening' \in [Request -> BOOLEAN] /\ catching' \in [Request -> BOOLEAN]
      BY <1>6, <2>1, <2>2, <2>3 DEF Abort, ConnectionInv, Types
    <3>3. ticks' \in [Request -> Ticks]
      BY <1>6, <2>1, <2>2, <2>3 DEF Abort, ConnectionInv, Types, Ticks
    <3>4. destroyed' \in [Request -> BOOLEAN]
      BY <1>6, <2>1, <2>2, <2>3 DEF Abort, ConnectionInv, Types
    <3>5. source' \in [Request -> {"none", "flowing", "ended", "failed"}]
      BY <1>6 DEF Abort, ConnectionInv, Types
    <3>6. response' \in [Request -> {"none", "reading", "read", "broken"}]
      BY <1>6, <2>1, <2>2, <2>3 DEF Abort, ConnectionInv, Types
    <3>7. answers' \in [Request -> {<<>>} \cup {<<a>> : a \in Answers}]
      BY <1>6, <2>1, <2>2, <2>3 DEF Abort, ConnectionInv, Types, Answers
    <3> QED
      BY <2>1, <3>1, <3>2, <3>3, <3>4, <3>5, <3>6, <3>7 DEF Types
  <2>5. \A q \in Request \ {r} : Request_OK(q)'
    BY <1>6, <2>1, <2>2, <2>3, OthersKept DEF Abort, ConnectionInv, Types
  <2>6. Request_OK(r)'
    BY <1>6, <2>1, <2>2, <2>3 DEF Abort, ConnectionInv, Types, Ticks, Request_OK, Waits
  <2>7. uncaught' \subseteq Request
    BY <1>6, <2>1, <2>2, <2>3 DEF Abort, ConnectionInv, Types, Ticks, Request_OK
  <2> QED
    BY <2>1, <2>4, <2>5, <2>6, <2>7 DEF ConnectionInv
<1>7. ASSUME NEW r \in Request, SourceFails(r)
      PROVE  ConnectionInv'
  <2>1. openRequests' \in Nat /\ openRequests' = Cardinality(Waiting') + Cardinality(Refused')
    BY <1>7, NothingAnswered DEF SourceFails
  <2>2. status[r] = "sent"
    BY <1>7 DEF SourceFails, Waits, ConnectionInv, Request_OK
  <2>3. /\ ticks' = [ticks EXCEPT ![r] =
                       IF destroyed[r] THEN ticks[r]
                       ELSE IF response[r] = "none" THEN <<"abort", "error">> ELSE <<"abort">>]
        /\ ticks' \in [Request -> Ticks]
        /\ destroyed' = [destroyed EXCEPT ![r] = TRUE]
        /\ destroyed' \in [Request -> BOOLEAN]
        /\ response' = [response EXCEPT ![r] =
                          IF response[r] = "reading" THEN "broken" ELSE response[r]]
        /\ response' \in [Request -> {"none", "reading", "read", "broken"}]
    BY <1>7, <2>2, AbortSchedules DEF SourceFails
  <2>4. Types'
    <3>1. status' \in [Request -> {"new", "refused", "sent"}]
      BY <1>7 DEF SourceFails, ConnectionInv, Types
    <3>2. listening' \in [Request -> BOOLEAN] /\ catching' \in [Request -> BOOLEAN]
      BY <1>7, <2>1, <2>2, <2>3 DEF SourceFails, ConnectionInv, Types
    <3>3. ticks' \in [Request -> Ticks]
      BY <1>7, <2>1, <2>2, <2>3 DEF SourceFails, ConnectionInv, Types, Ticks
    <3>4. destroyed' \in [Request -> BOOLEAN]
      BY <1>7, <2>1, <2>2, <2>3 DEF SourceFails, ConnectionInv, Types
    <3>5. source' \in [Request -> {"none", "flowing", "ended", "failed"}]
      BY <1>7 DEF SourceFails, ConnectionInv, Types
    <3>6. response' \in [Request -> {"none", "reading", "read", "broken"}]
      BY <1>7, <2>1, <2>2, <2>3 DEF SourceFails, ConnectionInv, Types
    <3>7. answers' \in [Request -> {<<>>} \cup {<<a>> : a \in Answers}]
      BY <1>7, <2>1, <2>2, <2>3 DEF SourceFails, ConnectionInv, Types, Answers
    <3> QED
      BY <2>1, <3>1, <3>2, <3>3, <3>4, <3>5, <3>6, <3>7 DEF Types
  <2>5. \A q \in Request \ {r} : Request_OK(q)'
    BY <1>7, <2>1, <2>2, <2>3, OthersKept DEF SourceFails, ConnectionInv, Types
  <2>6. Request_OK(r)'
    BY <1>7, <2>1, <2>2, <2>3 DEF SourceFails, ConnectionInv, Types, Ticks, Request_OK, Waits
  <2>7. uncaught' \subseteq Request
    BY <1>7, <2>1, <2>2, <2>3 DEF SourceFails, ConnectionInv, Types, Ticks, Request_OK
  <2> QED
    BY <2>1, <2>4, <2>5, <2>6, <2>7 DEF ConnectionInv
<1>8. ASSUME NEW r \in Request, SourceEnds(r)
      PROVE  ConnectionInv'
  <2>1. openRequests' \in Nat /\ openRequests' = Cardinality(Waiting') + Cardinality(Refused')
    BY <1>8, NothingAnswered DEF SourceEnds
  <2>2. Types'
    <3>1. status' \in [Request -> {"new", "refused", "sent"}]
      BY <1>8 DEF SourceEnds, ConnectionInv, Types
    <3>2. listening' \in [Request -> BOOLEAN] /\ catching' \in [Request -> BOOLEAN]
      BY <1>8, <2>1 DEF SourceEnds, ConnectionInv, Types
    <3>3. ticks' \in [Request -> Ticks]
      BY <1>8, <2>1 DEF SourceEnds, ConnectionInv, Types, Ticks
    <3>4. destroyed' \in [Request -> BOOLEAN]
      BY <1>8, <2>1 DEF SourceEnds, ConnectionInv, Types
    <3>5. source' \in [Request -> {"none", "flowing", "ended", "failed"}]
      BY <1>8 DEF SourceEnds, ConnectionInv, Types
    <3>6. response' \in [Request -> {"none", "reading", "read", "broken"}]
      BY <1>8, <2>1 DEF SourceEnds, ConnectionInv, Types
    <3>7. answers' \in [Request -> {<<>>} \cup {<<a>> : a \in Answers}]
      BY <1>8, <2>1 DEF SourceEnds, ConnectionInv, Types, Answers
    <3> QED
      BY <2>1, <3>1, <3>2, <3>3, <3>4, <3>5, <3>6, <3>7 DEF Types
  <2>3. \A q \in Request \ {r} : Request_OK(q)'
    BY <1>8, <2>1, OthersKept DEF SourceEnds, ConnectionInv, Types
  <2>4. Request_OK(r)'
    BY <1>8, <2>1 DEF SourceEnds, ConnectionInv, Types, Ticks, Request_OK, Waits
  <2>5. uncaught' \subseteq Request
    BY <1>8, <2>1 DEF SourceEnds, ConnectionInv, Types, Ticks, Request_OK
  <2> QED
    BY <2>1, <2>2, <2>3, <2>4, <2>5 DEF ConnectionInv
<1>9. ASSUME NEW r \in Request, OnAbort(r)
      PROVE  ConnectionInv'
  <2>1. openRequests' \in Nat /\ openRequests' = Cardinality(Waiting') + Cardinality(Refused')
    <3>1. CASE listening[r]
      BY <1>9, <3>1, AnswerCounted DEF OnAbort, Answers
    <3>2. CASE ~listening[r]
      BY <1>9, <3>2, NothingAnswered DEF OnAbort
    <3> QED
      BY <3>1, <3>2
  <2>2. /\ answers'[r] = IF listening[r] THEN <<"RequestAbortedError">> ELSE answers[r]
        /\ answers' \in [Request -> {<<>>} \cup {<<a>> : a \in Answers}]
        /\ \A q \in Request \ {r} : answers'[q] = answers[q] /\ listening'[q] = listening[q]
        /\ listening'[r] = FALSE
        /\ listening' \in [Request -> BOOLEAN]
    <3>1. CASE listening[r]
      BY <1>9, <3>1, AnswerGiven DEF OnAbort, Answers, ConnectionInv, Types
    <3>2. CASE ~listening[r]
      BY <1>9, <3>2 DEF OnAbort, ConnectionInv, Types
    <3> QED
      BY <3>1, <3>2
  <2>3. /\ ticks[r] \in {<<"abort">>, <<"abort", "error">>}
        /\ ticks'[r] = IF ticks[r] = <<"abort">> THEN <<>> ELSE <<"error">>
        /\ ticks' \in [Request -> Ticks]
        /\ \A q \in Request \ {r} : ticks'[q] = ticks[q]
    BY <1>9, TickEmitted DEF OnAbort
  <2>4. Types'
    <3>1. status' \in [Request -> {"new", "refused", "sent"}]
      BY <1>9 DEF OnAbort, ConnectionInv, Types
    <3>2. listening' \in [Request -> BOOLEAN] /\ catching' \in [Request -> BOOLEAN]
      BY <1>9, <2>1, <2>2, <2>3 DEF OnAbort, ConnectionInv, Types
    <3>3. ticks' \in [Request -> Ticks]
      BY <1>9, <2>1, <2>2, <2>3 DEF OnAbort, ConnectionInv, Types, Ticks
    <3>4. destroyed' \in [Request -> BOOLEAN]
      BY <1>9, <2>1, <2>2, <2>3 DEF OnAbort, ConnectionInv, Types
    <3>5. source' \in [Request -> {"none", "flowing", "ended", "failed"}]
      BY <1>9 DEF OnAbort, ConnectionInv, Types
    <3>6. response' \in [Request -> {"none", "reading", "read", "broken"}]
      BY <1>9, <2>1, <2>2, <2>3 DEF OnAbort, ConnectionInv, Types
    <3>7. answers' \in [Request -> {<<>>} \cup {<<a>> : a \in Answers}]
      BY <1>9, <2>1, <2>2, <2>3 DEF OnAbort, ConnectionInv, Types, Answers
    <3> QED
      BY <2>1, <3>1, <3>2, <3>3, <3>4, <3>5, <3>6, <3>7 DEF Types
  <2>5. \A q \in Request \ {r} : Request_OK(q)'
    BY <1>9, <2>1, <2>2, <2>3, OthersKept DEF OnAbort, ConnectionInv, Types
  <2>6. Request_OK(r)'
    <3>1. Request_OK(r) /\ destroyed[r] /\ destroyed' = destroyed /\ status' = status
      BY <1>9, <2>3 DEF OnAbort, ConnectionInv, Types, Request_OK
    <3>2. response' = response /\ source' = source
      BY <1>9 DEF OnAbort
    <3>3. catching'[r] = (listening[r] \/ catching[r])
      BY <1>9 DEF OnAbort, ConnectionInv, Types
    <3>4. ticks'[r] \in {<<"error">>, <<"abort", "error">>} => ticks[r] = <<"abort", "error">>
      BY <2>3
    <3>5. status[r] = "sent"
      BY <1>9, <3>1 DEF OnAbort, Request_OK
    <3>6. <<"response">> # <<>> /\ <<"RequestAbortedError">> # <<>>
      OBVIOUS
    <3>8. listening'[r] <=> (status[r] = "sent" /\ answers'[r] = <<>>)
      BY <2>2, <3>1, <3>6 DEF Request_OK
    <3>9. response[r] # "none" => answers'[r] = <<"response">>
      BY <2>2, <3>1, <3>6 DEF Request_OK
    <3>10. ticks'[r] \in {<<"error">>, <<"abort", "error">>} =>
             listening'[r] \/ catching'[r] \/ response'[r] = "broken"
      BY <3>1, <3>2, <3>3, <3>4 DEF Request_OK
    <3>11. r \in uncaught' => response'[r] = "broken"
      BY <1>9, <3>1, <3>2 DEF OnAbort, Request_OK
    <3> QED
      BY <3>1, <3>2, <3>5, <3>8, <3>9, <3>10, <3>11 DEF Request_OK, Waits
  <2>7. uncaught' \subseteq Request
    BY <1>9, <2>1, <2>2, <2>3 DEF OnAbort, ConnectionInv, Types, Ticks, Request_OK
  <2> QED
    BY <2>1, <2>4, <2>5, <2>6, <2>7 DEF ConnectionInv
<1>10. ASSUME NEW r \in Request, OnError(r)
      PROVE  ConnectionInv'
  <2>1. openRequests' \in Nat /\ openRequests' = Cardinality(Waiting') + Cardinality(Refused')
    <3>1. CASE listening[r]
      BY <1>10, <3>1, AnswerCounted DEF OnError, Answers
    <3>2. CASE ~listening[r]
      BY <1>10, <3>2, NothingAnswered DEF OnError
    <3> QED
      BY <3>1, <3>2
  <2>2. /\ answers'[r] = IF listening[r] THEN <<"ConnectionError">> ELSE answers[r]
        /\ answers' \in [Request -> {<<>>} \cup {<<a>> : a \in Answers}]
        /\ \A q \in Request \ {r} : answers'[q] = answers[q] /\ listening'[q] = listening[q]
        /\ listening'[r] = FALSE
        /\ listening' \in [Request -> BOOLEAN]
    <3>1. CASE listening[r]
      BY <1>10, <3>1, AnswerGiven DEF OnError, Answers, ConnectionInv, Types
    <3>2. CASE ~listening[r]
      BY <1>10, <3>2 DEF OnError, ConnectionInv, Types
    <3> QED
      BY <3>1, <3>2
  <2>3. /\ ticks[r] = <<"error">> /\ ticks'[r] = <<>>
        /\ ticks' \in [Request -> Ticks]
        /\ \A q \in Request \ {r} : ticks'[q] = ticks[q]
    BY <1>10, TickEmitted DEF OnError
  <2>4. Types'
    <3>1. status' \in [Request -> {"new", "refused", "sent"}]
      BY <1>10 DEF OnError, ConnectionInv, Types
    <3>2. listening' \in [Request -> BOOLEAN] /\ catching' \in [Request -> BOOLEAN]
      BY <1>10, <2>1, <2>2, <2>3 DEF OnError, ConnectionInv, Types
    <3>3. ticks' \in [Request -> Ticks]
      BY <1>10, <2>1, <2>2, <2>3 DEF OnError, ConnectionInv, Types, Ticks
    <3>4. destroyed' \in [Request -> BOOLEAN]
      BY <1>10, <2>1, <2>2, <2>3 DEF OnError, ConnectionInv, Types
    <3>5. source' \in [Request -> {"none", "flowing", "ended", "failed"}]
      BY <1>10 DEF OnError, ConnectionInv, Types
    <3>6. response' \in [Request -> {"none", "reading", "read", "broken"}]
      BY <1>10, <2>1, <2>2, <2>3 DEF OnError, ConnectionInv, Types
    <3>7. answers' \in [Request -> {<<>>} \cup {<<a>> : a \in Answers}]
      BY <1>10, <2>1, <2>2, <2>3 DEF OnError, ConnectionInv, Types, Answers
    <3> QED
      BY <2>1, <3>1, <3>2, <3>3, <3>4, <3>5, <3>6, <3>7 DEF Types
  <2>5. \A q \in Request \ {r} : Request_OK(q)'
    BY <1>10, <2>1, <2>2, <2>3, OthersKept DEF OnError, ConnectionInv, Types
  <2>6. Request_OK(r)'
    BY <1>10, <2>1, <2>2, <2>3 DEF OnError, ConnectionInv, Types, Ticks, Request_OK, Waits
  <2>7. uncaught' \subseteq Request
    BY <1>10, <2>1, <2>2, <2>3 DEF OnError, ConnectionInv, Types, Ticks, Request_OK
  <2> QED
    BY <2>1, <2>4, <2>5, <2>6, <2>7 DEF ConnectionInv
<1>11. ASSUME NEW r \in Request, BodyEnds(r)
      PROVE  ConnectionInv'
  <2>1. openRequests' \in Nat /\ openRequests' = Cardinality(Waiting') + Cardinality(Refused')
    BY <1>11, NothingAnswered DEF BodyEnds
  <2>2. Types'
    <3>1. status' \in [Request -> {"new", "refused", "sent"}]
      BY <1>11 DEF BodyEnds, ConnectionInv, Types
    <3>2. listening' \in [Request -> BOOLEAN] /\ catching' \in [Request -> BOOLEAN]
      BY <1>11, <2>1 DEF BodyEnds, ConnectionInv, Types
    <3>3. ticks' \in [Request -> Ticks]
      BY <1>11, <2>1 DEF BodyEnds, ConnectionInv, Types, Ticks
    <3>4. destroyed' \in [Request -> BOOLEAN]
      BY <1>11, <2>1 DEF BodyEnds, ConnectionInv, Types
    <3>5. source' \in [Request -> {"none", "flowing", "ended", "failed"}]
      BY <1>11 DEF BodyEnds, ConnectionInv, Types
    <3>6. response' \in [Request -> {"none", "reading", "read", "broken"}]
      BY <1>11, <2>1 DEF BodyEnds, ConnectionInv, Types
    <3>7. answers' \in [Request -> {<<>>} \cup {<<a>> : a \in Answers}]
      BY <1>11, <2>1 DEF BodyEnds, ConnectionInv, Types, Answers
    <3> QED
      BY <2>1, <3>1, <3>2, <3>3, <3>4, <3>5, <3>6, <3>7 DEF Types
  <2>3. \A q \in Request \ {r} : Request_OK(q)'
    BY <1>11, <2>1, OthersKept DEF BodyEnds, ConnectionInv, Types
  <2>4. Request_OK(r)'
    BY <1>11, <2>1 DEF BodyEnds, ConnectionInv, Types, Ticks, Request_OK, Waits
  <2>5. uncaught' \subseteq Request
    BY <1>11, <2>1 DEF BodyEnds, ConnectionInv, Types, Ticks, Request_OK
  <2> QED
    BY <2>1, <2>2, <2>3, <2>4, <2>5 DEF ConnectionInv
<1>12. ASSUME NEW r \in Request, BodyBreaks(r)
      PROVE  ConnectionInv'
  <2>1. openRequests' \in Nat /\ openRequests' = Cardinality(Waiting') + Cardinality(Refused')
    BY <1>12, NothingAnswered DEF BodyBreaks
  <2>2. Types'
    <3>1. status' \in [Request -> {"new", "refused", "sent"}]
      BY <1>12 DEF BodyBreaks, ConnectionInv, Types
    <3>2. listening' \in [Request -> BOOLEAN] /\ catching' \in [Request -> BOOLEAN]
      BY <1>12, <2>1 DEF BodyBreaks, ConnectionInv, Types
    <3>3. ticks' \in [Request -> Ticks]
      BY <1>12, <2>1 DEF BodyBreaks, ConnectionInv, Types, Ticks
    <3>4. destroyed' \in [Request -> BOOLEAN]
      BY <1>12, <2>1 DEF BodyBreaks, ConnectionInv, Types
    <3>5. source' \in [Request -> {"none", "flowing", "ended", "failed"}]
      BY <1>12 DEF BodyBreaks, ConnectionInv, Types
    <3>6. response' \in [Request -> {"none", "reading", "read", "broken"}]
      BY <1>12, <2>1 DEF BodyBreaks, ConnectionInv, Types
    <3>7. answers' \in [Request -> {<<>>} \cup {<<a>> : a \in Answers}]
      BY <1>12, <2>1 DEF BodyBreaks, ConnectionInv, Types, Answers
    <3> QED
      BY <2>1, <3>1, <3>2, <3>3, <3>4, <3>5, <3>6, <3>7 DEF Types
  <2>3. \A q \in Request \ {r} : Request_OK(q)'
    BY <1>12, <2>1, OthersKept DEF BodyBreaks, ConnectionInv, Types
  <2>4. Request_OK(r)'
    BY <1>12, <2>1 DEF BodyBreaks, ConnectionInv, Types, Ticks, Request_OK, Waits
  <2>5. uncaught' \subseteq Request
    BY <1>12, <2>1 DEF BodyBreaks, ConnectionInv, Types, Ticks, Request_OK
  <2> QED
    BY <2>1, <2>2, <2>3, <2>4, <2>5 DEF ConnectionInv
<1>13. ASSUME NEW r \in Request, BodyFails(r)
      PROVE  ConnectionInv'
  <2>1. openRequests' \in Nat /\ openRequests' = Cardinality(Waiting') + Cardinality(Refused')
    BY <1>13, NothingAnswered DEF BodyFails
  <2>2. ticks[r] = <<>> /\ ticks' = [ticks EXCEPT ![r] = <<"error">>]
    <3>1. ticks[r] = <<>> /\ Append(<<>>, "error") = <<"error">>
      BY <1>13 DEF BodyFails, ConnectionInv, Request_OK
    <3> QED
      BY <1>13, <3>1 DEF BodyFails
  <2>3. Types'
    <3>1. status' \in [Request -> {"new", "refused", "sent"}]
      BY <1>13 DEF BodyFails, ConnectionInv, Types
    <3>2. listening' \in [Request -> BOOLEAN] /\ catching' \in [Request -> BOOLEAN]
      BY <1>13, <2>1, <2>2 DEF BodyFails, ConnectionInv, Types
    <3>3. ticks' \in [Request -> Ticks]
      BY <1>13, <2>1, <2>2 DEF BodyFails, ConnectionInv, Types, Ticks
    <3>4. destroyed' \in [Request -> BOOLEAN]
      BY <1>13, <2>1, <2>2 DEF BodyFails, ConnectionInv, Types
    <3>5. source' \in [Request -> {"none", "flowing", "ended", "failed"}]
      BY <1>13 DEF BodyFails, ConnectionInv, Types
    <3>6. response' \in [Request -> {"none", "reading", "read", "broken"}]
      BY <1>13, <2>1, <2>2 DEF BodyFails, ConnectionInv, Types
    <3>7. answers' \in [Request -> {<<>>} \cup {<<a>> : a \in Answers}]
      BY <1>13, <2>1, <2>2 DEF BodyFails, ConnectionInv, Types, Answers
    <3> QED
      BY <2>1, <3>1, <3>2, <3>3, <3>4, <3>5, <3>6, <3>7 DEF Types
  <2>4. \A q \in Request \ {r} : Request_OK(q)'
    BY <1>13, <2>1, <2>2, OthersKept DEF BodyFails, ConnectionInv, Types
  <2>5. Request_OK(r)'
    BY <1>13, <2>1, <2>2 DEF BodyFails, ConnectionInv, Types, Ticks, Request_OK, Waits
  <2>6. uncaught' \subseteq Request
    BY <1>13, <2>1, <2>2 DEF BodyFails, ConnectionInv, Types, Ticks, Request_OK
  <2> QED
    BY <2>1, <2>3, <2>4, <2>5, <2>6 DEF ConnectionInv
<1>14. CASE Close
  <2>1. openRequests' \in Nat /\ openRequests' = Cardinality(Waiting') + Cardinality(Refused')
    <3>1. UNCHANGED <<status, answers, openRequests>>
      BY <1>14 DEF Close
    <3> QED
      BY <3>1, NothingAnswered
  <2>2. Types'
    <3>1. destroyed' \in [Request -> BOOLEAN]
      BY <1>14 DEF Close, ConnectionInv, Types
    <3>2. response' \in [Request -> {"none", "reading", "read", "broken"}]
      BY <1>14 DEF Close, ConnectionInv, Types
    <3> QED
      BY <1>14, <2>1, <3>1, <3>2 DEF Close, ConnectionInv, Types
  <2>3. \A q \in Request : Request_OK(q)'
    BY <1>14 DEF Close, Waits, ConnectionInv, Types, Ticks, Request_OK
  <2>4. uncaught' \subseteq Request
    BY <1>14 DEF Close, ConnectionInv, Types, Ticks, Request_OK
  <2> QED
    BY <2>1, <2>2, <2>3, <2>4 DEF ConnectionInv
<1>15. CASE UNCHANGED vars
  <2>1. Waiting' = Waiting /\ Refused' = Refused
    BY <1>15 DEF vars, Waiting, Refused
  <2>2. \A q \in Request : Request_OK(q)'
    BY <1>15 DEF vars, ConnectionInv, Request_OK, Waits
  <2> QED
    BY <1>15, <2>1, <2>2 DEF vars, ConnectionInv, Types
<1> QED
  BY <1>1, <1>2, <1>3, <1>4, <1>5, <1>6, <1>7, <1>8, <1>9, <1>10, <1>11, <1>12, <1>13,
     <1>14, <1>15 DEF Next

\* However many requests: each is answered at most once, and close() waits for exactly those that
\* are not and those refused.
THEOREM RequestsCounted == Spec => []OpenCounted
<1>1. ASSUME ConnectionInv, NEW r \in Request
      PROVE  Len(answers[r]) <= 1
  <2>1. answers[r] = <<>> \/ \E answer \in Answers : answers[r] = <<answer>>
    BY <1>1 DEF ConnectionInv, Types
  <2>2. CASE answers[r] = <<>>
    BY <2>2
  <2>3. ASSUME NEW answer, answers[r] = <<answer>>
        PROVE  Len(answers[r]) <= 1
    <3>1. Len(<<answer>>) = 1
      OBVIOUS
    <3> QED
      BY <2>3, <3>1
  <2> QED
    BY <2>1, <2>2, <2>3
<1>2. ConnectionInv => OpenCounted
  BY <1>1 DEF ConnectionInv, OpenCounted
<1> QED
  BY <1>2, InitInv, StepInv, PTL DEF Spec

\* However many requests fail, time out or are aborted, and whatever node emits of them then: an
\* error event is without a listener only if the body of the response was being read.
THEOREM OnlyLateErrorsUncaught == Spec => []UncaughtOnlyInBody
<1>1. ConnectionInv => UncaughtOnlyInBody
  BY DEF ConnectionInv, Request_OK, UncaughtOnlyInBody
<1> QED
  BY <1>1, InitInv, StepInv, PTL DEF Spec

\* close() calls back only when no request waits for an answer, and breaks no body but of
\* those it answered with the headers.
THEOREM CloseWaits == Spec => ClosedWhenIdle
<1> DEFINE P == closing' = "closed" /\ closing # "closed" =>
        /\ Waiting = {}
        /\ \A r \in Request : response'[r] # response[r] => agent /\ answers[r] = <<"response">>
<1>1. ConnectionInv /\ [Next]_vars => [P]_vars
  <2> SUFFICES ASSUME ConnectionInv, Next, closing' = "closed", closing # "closed"
               PROVE  /\ Waiting = {}
                      /\ \A r \in Request : response'[r] # response[r]
                                              => agent /\ answers[r] = <<"response">>
    OBVIOUS
  <2>1. Close
    BY DEF Next, Refuse, Send, Abort, OnResponse, OnTimeout, SocketFails, OnAbort, OnError,
           SourceFails, SourceEnds, BodyEnds, BodyBreaks, BodyFails, connection
  <2>2. openRequests = 0
    BY <2>1 DEF Close, ConnectionInv, Types
  <2>3. Waiting = {}
    BY <2>2, WaitingFinite, FS_EmptySet DEF ConnectionInv
  <2> QED
    BY <2>1, <2>2, <2>3 DEF Close, ConnectionInv, Types, Request_OK
<1> QED
  BY <1>1, InitInv, StepInv, PTL DEF Spec, ClosedWhenIdle
=============================================================================
