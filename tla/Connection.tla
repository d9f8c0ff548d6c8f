----------------------------- MODULE Connection -----------------------------
(***************************************************************************)
(* A Connection: the requests it makes through node's http module, each    *)
(* with its listeners, and close().                                        *)
(*                                                                         *)
(* Node is external: what it emits about a request is modelled from how    *)
(* Connection.request uses it.  abort() and a failing socket destroy the   *)
(* request; the events they emit come on a later tick, in order (`ticks`). *)
(* `error` comes at most once, also when the socket fails while the body   *)
(* of the response is read.  pump() aborts a request whose body stream     *)
(* fails, and listens to `abort` and `error` after Connection does.        *)
(***************************************************************************)
EXTENDS Integers, Sequences, FiniteSets

CONSTANTS
  Request,     \* requests made on the connection
  Unescaped,   \* those whose path has characters http would not accept
  Streamed     \* those whose body is a stream

ASSUME RequestAssumption ==
  IsFiniteSet(Request) /\ Unescaped \subseteq Request /\ Streamed \subseteq Request

VARIABLES
  openRequests,  \* this._openRequests
  agent,         \* is there an agent, which close() destroys?
  closing,       \* "no", "polling" by the timer of close(), "closed" once it has called back
  status,        \* "new", "refused" for its path, "sent"
  listening,     \* not cleanedListeners
  catching,      \* the listener of request.once('error', () => {})
  ticks,         \* what node will emit about the request
  destroyed,     \* the http request is over: aborted or failed
  source,        \* the stream of the body: "none", "flowing", "ended", "failed"
  response,      \* "none", then "reading" from its headers on, "read" or "broken"
  answers,       \* what the callback of the request was called with
  uncaught       \* the requests of which an `error` event found no listener

vars == <<openRequests, agent, closing, status, listening, catching, ticks, destroyed, source,
          response, answers, uncaught>>
node == <<ticks, destroyed, response>>
connection == <<agent, closing, status>>

-----------------------------------------------------------------------------

Init ==
  /\ openRequests = 0
  /\ agent \in BOOLEAN
  /\ closing = "no"
  /\ status = [r \in Request |-> "new"]
  /\ listening = [r \in Request |-> FALSE]
  /\ catching = [r \in Request |-> FALSE]
  /\ ticks = [r \in Request |-> <<>>]
  /\ destroyed = [r \in Request |-> FALSE]
  /\ source = [r \in Request |-> "none"]
  /\ response = [r \in Request |-> "none"]
  /\ answers = [r \in Request |-> <<>>]
  /\ uncaught = {}

\* Mutation of Answer: _openRequests stays.
AnswerUncounted(r, answer) ==
  /\ listening' = [listening EXCEPT ![r] = FALSE]
  /\ answers' = [answers EXCEPT ![r] = Append(@, answer)]
  /\ UNCHANGED openRequests

\* The head of onResponse, onTimeout, onError and onAbort, and the callback.
Answer(r, answer) ==
  /\ listening' = [listening EXCEPT ![r] = FALSE]
  /\ openRequests' = openRequests - 1
  /\ answers' = [answers EXCEPT ![r] = Append(@, answer)]

\* request.abort() of node, which does nothing the second time.  The socket's `error` follows
\* unless it was emitted already or the headers have arrived.
AbortHttp(r) ==
  /\ destroyed' = [destroyed EXCEPT ![r] = TRUE]
  /\ ticks' = [ticks EXCEPT ![r] =
                 IF destroyed[r] THEN @
                 ELSE IF response[r] = "none" THEN @ \o <<"abort", "error">> ELSE Append(@, "abort")]
  /\ response' = [response EXCEPT ![r] = IF @ = "reading" THEN "broken" ELSE @]

\* request() of a path that http would refuse: the callback is called before it returns.
Refuse(r) ==
  /\ status[r] = "new" /\ r \in Unescaped
  /\ status' = [status EXCEPT ![r] = "refused"]
  /\ openRequests' = openRequests + 1
  /\ answers' = [answers EXCEPT ![r] = Append(@, "TypeError")]
  /\ UNCHANGED <<node, agent, closing, listening, catching, source, uncaught>>

Send(r) ==
  /\ status[r] = "new" /\ r \notin Unescaped
  /\ status' = [status EXCEPT ![r] = "sent"]
  /\ openRequests' = openRequests + 1
  /\ listening' = [listening EXCEPT ![r] = TRUE]
  /\ source' = [source EXCEPT ![r] = IF r \in Streamed THEN "flowing" ELSE "none"]
  /\ UNCHANGED <<node, agent, closing, catching, answers, uncaught>>

\* The request waits for its headers.
Waits(r) == status[r] = "sent" /\ ~destroyed[r] /\ response[r] = "none"

\* onResponse
OnResponse(r) ==
  /\ Waits(r)
  /\ response' = [response EXCEPT ![r] = "reading"]
  /\ listening[r]
  /\ Answer(r, "response")
  /\ UNCHANGED <<connection, ticks, destroyed, catching, source, uncaught>>

\* Mutation of OnTimeout: the other listeners stay.
OnTimeoutListening(r) ==
  /\ Waits(r)
  /\ listening[r]
  /\ catching' = [catching EXCEPT ![r] = TRUE]
  /\ AbortHttp(r)
  /\ openRequests' = openRequests - 1
  /\ answers' = [answers EXCEPT ![r] = Append(@, "TimeoutError")]
  /\ UNCHANGED <<connection, listening, source, uncaught>>

\* onTimeout: the socket was idle for too long.
OnTimeout(r) ==
  /\ Waits(r)
  /\ listening[r]
  /\ catching' = [catching EXCEPT ![r] = TRUE]
  /\ AbortHttp(r)
  /\ Answer(r, "TimeoutError")
  /\ UNCHANGED <<connection, source, uncaught>>

\* The socket fails before the headers arrive.
SocketFails(r) ==
  /\ Waits(r)
  /\ destroyed' = [destroyed EXCEPT ![r] = TRUE]
  /\ ticks' = [ticks EXCEPT ![r] = Append(@, "error")]
  /\ UNCHANGED <<openRequests, connection, listening, catching, source, response, answers, uncaught>>

\* The transport calls abort() of the request.
Abort(r) ==
  /\ status[r] = "sent"
  /\ AbortHttp(r)
  /\ UNCHANGED <<openRequests, connection, listening, catching, source, answers, uncaught>>

\* The stream of the body fails, and pump() aborts the request.
SourceFails(r) ==
  /\ source[r] = "flowing"
  /\ source' = [source EXCEPT ![r] = "failed"]
  /\ AbortHttp(r)
  /\ UNCHANGED <<openRequests, connection, listening, catching, answers, uncaught>>

SourceEnds(r) ==
  /\ source[r] = "flowing"
  /\ source' = [source EXCEPT ![r] = "ended"]
  /\ UNCHANGED <<openRequests, connection, node, listening, catching, answers, uncaught>>

\* Mutation of OnAbort: nobody listens to the error that follows.
OnAbortUncaught(r) ==
  /\ ticks[r] # <<>> /\ Head(ticks[r]) = "abort"
  /\ ticks' = [ticks EXCEPT ![r] = Tail(@)]
  /\ IF listening[r] THEN Answer(r, "RequestAbortedError")
     ELSE UNCHANGED <<openRequests, listening, answers>>
  /\ UNCHANGED <<connection, destroyed, source, response, catching, uncaught>>

\* node emits `abort`.  onAbort was registered before the listener of pump(), whose callback
\* finds the listeners cleaned.
OnAbort(r) ==
  /\ ticks[r] # <<>> /\ Head(ticks[r]) = "abort"
  /\ ticks' = [ticks EXCEPT ![r] = Tail(@)]
  /\ IF listening[r]
       THEN /\ catching' = [catching EXCEPT ![r] = TRUE]
            /\ Answer(r, "RequestAbortedError")
       ELSE UNCHANGED <<openRequests, listening, catching, answers>>
  /\ UNCHANGED <<connection, destroyed, source, response, uncaught>>

\* node emits `error`.  pump() has a listener too, and ends the stream.
OnError(r) ==
  /\ ticks[r] # <<>> /\ Head(ticks[r]) = "error"
  /\ ticks' = [ticks EXCEPT ![r] = Tail(@)]
  /\ IF listening[r] THEN Answer(r, "ConnectionError")
     ELSE UNCHANGED <<openRequests, listening, answers>>
  /\ catching' = [catching EXCEPT ![r] = FALSE]
  /\ uncaught' = IF listening[r] \/ catching[r] \/ r \in Streamed THEN uncaught
                 ELSE uncaught \cup {r}
  /\ source' = [source EXCEPT ![r] = IF @ = "flowing" THEN "failed" ELSE @]
  /\ UNCHANGED <<connection, destroyed, response>>

\* The rest of the body of the response arrives, or the server closes the socket before: only the
\* response emits that, and it is the transport that listens.
BodyEnds(r) ==
  /\ response[r] = "reading" /\ ~destroyed[r]
  /\ response' = [response EXCEPT ![r] = "read"]
  /\ UNCHANGED <<openRequests, connection, ticks, destroyed, listening, catching, source, answers,
                 uncaught>>

BodyBreaks(r) ==
  /\ response[r] = "reading" /\ ~destroyed[r]
  /\ response' = [response EXCEPT ![r] = "broken"]
  /\ destroyed' = [destroyed EXCEPT ![r] = TRUE]
  /\ UNCHANGED <<openRequests, connection, ticks, listening, catching, source, answers, uncaught>>

\* The socket fails while the body is read, or what arrives is not http: node tells the response,
\* and, as before the headers, the request.
BodyFails(r) ==
  /\ response[r] = "reading" /\ ~destroyed[r]
  /\ response' = [response EXCEPT ![r] = "broken"]
  /\ destroyed' = [destroyed EXCEPT ![r] = TRUE]
  /\ ticks' = [ticks EXCEPT ![r] = Append(@, "error")]
  /\ UNCHANGED <<openRequests, connection, listening, catching, source, answers, uncaught>>

\* Mutation of Close: it does not wait.
CloseAtOnce ==
  /\ closing # "closed"
  /\ closing' = "closed"
  /\ LET cut == {r \in Request : agent /\ response[r] = "reading"}
     IN  /\ destroyed' = [r \in Request |-> destroyed[r] \/ r \in cut]
         /\ response' = [r \in Request |-> IF r \in cut THEN "broken" ELSE response[r]]
  /\ UNCHANGED <<openRequests, agent, status, listening, catching, ticks, source, answers, uncaught>>

\* close(), and the timer it sets: the agent destroys the sockets in use.
Close ==
  /\ closing # "closed"
  /\ IF openRequests > 0
       THEN closing' = "polling" /\ UNCHANGED <<destroyed, response>>
       ELSE /\ closing' = "closed"
            /\ LET cut == {r \in Request : agent /\ response[r] = "reading"}
               IN  /\ destroyed' = [r \in Request |-> destroyed[r] \/ r \in cut]
                   /\ response' = [r \in Request |-> IF r \in cut THEN "broken" ELSE response[r]]
  /\ UNCHANGED <<openRequests, agent, status, listening, catching, ticks, source, answers, uncaught>>

Next ==
  \/ \E r \in Request :
       \/ Refuse(r) \/ Send(r) \/ Abort(r)
       \/ OnResponse(r) \/ OnTimeout(r) \/ SocketFails(r) \/ OnAbort(r) \/ OnError(r)
       \/ SourceFails(r) \/ SourceEnds(r) \/ BodyEnds(r) \/ BodyBreaks(r) \/ BodyFails(r)
  \/ Close

Spec == Init /\ [][Next]_vars

\* Node emits what it has scheduled; a request gets its headers, fails, or times out; the timer
\* of close() fires.
FairSpec ==
  /\ Spec
  /\ \A r \in Request :
       /\ WF_vars(OnAbort(r) \/ OnError(r))
       /\ WF_vars(OnResponse(r) \/ OnTimeout(r) \/ SocketFails(r))
  /\ WF_vars(closing = "polling" /\ Close)

-----------------------------------------------------------------------------

Waiting == {r \in Request : status[r] = "sent" /\ answers[r] = <<>>}
Refused == {r \in Request : status[r] = "refused"}

\* Whichever of the headers, the timeout, an error, an abort and a failing body stream come, and
\* in which order: a request is answered at most once, and _openRequests, which decides when
\* close() may destroy the sockets, counts the requests that are not.  It also counts for ever
\* the requests refused for their path.
OpenCounted ==
  /\ openRequests = Cardinality(Waiting) + Cardinality(Refused)
  /\ \A r \in Request : Len(answers[r]) <= 1

\* An `error` event that finds no listener ends the process.  After a timeout, an abort or an error
\* a request has a listener, or gets no further event; and pump() listens to one with a stream.
\* Only a request that was answered with its headers, and whose body then breaks, can meet one
\* without: onResponse removed the only listener, and puts none in its place.
UncaughtOnlyInBody ==
  \A r \in uncaught : answers[r] = <<"response">> /\ response[r] = "broken"

\* close() calls back when no request waits for an answer.  The bodies it breaks are those whose
\* headers it did answer with, and only if it has an agent to destroy.
ClosedWhenIdle ==
  [][ closing' = "closed" /\ closing # "closed" =>
        /\ Waiting = {}
        /\ \A r \in Request : response'[r] # response[r] => agent /\ answers[r] = <<"response">> ]_vars

\* Every request that is sent is answered, and close() is, unless a path was refused.
AllAnswered ==
  /\ \A r \in Request : status[r] = "sent" ~> answers[r] # <<>>
  /\ closing = "polling" ~> (closing = "closed" \/ Refused # {})
=============================================================================
