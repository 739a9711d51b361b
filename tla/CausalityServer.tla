-------------------------- MODULE CausalityServer --------------------------
(***************************************************************************)
(* The REST server of pipeline/src/server.ts with its RateLimiter and the  *)
(* ready flag of its HealthChecker.                                        *)
(*                                                                         *)
(* handleRequest runs without a pause up to the answer, except for the     *)
(* three POST endpoints, which wait for the body in parseBody; meanwhile   *)
(* other requests are served.  Their promise is returned without await, so *)
(* a rejection passes the catch of handleRequest by, and http.createServer *)
(* ignores the promise of its listener: nothing handles it, and Node.js    *)
(* (20 and later) ends the process.                                        *)
(*                                                                         *)
(* Requests are numbered in the order they reach the handler.  What is in  *)
(* them (method, path, token, body) is chosen when it is looked at, and     *)
(* with which status they are answered is not kept.                        *)
(***************************************************************************)
EXTENDS RateLimiter

CONSTANTS MaxArrivals,    \* bound: number of requests
          MaxStarts       \* bound: number of start() calls

ASSUME ServerAssumption == MaxArrivals \in Nat /\ MaxStarts \in Nat

Requests == 1..MaxArrivals
Servers == 1..MaxStarts

VARIABLES
    process,        \* "up", or "dead" after an unhandled rejection
    server,         \* this.server, 0 when it is null
    listener,       \* the http.Server of each start()
    ready,          \* healthChecker._ready
    requestCount,   \* this.requestCount
    stage,          \* of each request: "idle", "body", "answered", "lost"
    failed          \* requests whose endpoint rejected its promise

lifecycle == <<server, listener, ready>>
requests == <<requestCount, stage, failed>>
vars == <<limiterVars, process, lifecycle, requests>>

Init ==
    /\ LimiterInit
    /\ process = "up"
    /\ server = 0
    /\ listener = [s \in Servers |-> "none"]
    /\ ready = FALSE
    /\ requestCount = 0
    /\ stage = [r \in Requests |-> "idle"]
    /\ failed = {}

-----------------------------------------------------------------------------
(* start() and stop() *)

\* start() takes the place of whatever this.server was.
Start(s) ==
    /\ process = "up"
    /\ listener[s] = "none"
    /\ \A t \in Servers : t < s => listener[t] # "none"
    /\ server' = s
    /\ listener' = [listener EXCEPT ![s] = "binding"]
    /\ UNCHANGED <<limiterVars, process, ready, requests>>

\* The callback of listen().
Listening(s) ==
    /\ process = "up"
    /\ listener[s] = "binding"
    /\ listener' = [listener EXCEPT ![s] = "listening"]
    /\ ready' = TRUE
    /\ UNCHANGED <<limiterVars, process, server, requests>>

\* The port is taken: start() rejects and leaves this.server set.
ListenFails(s) ==
    /\ process = "up"
    /\ listener[s] = "binding"
    /\ listener' = [listener EXCEPT ![s] = "failed"]
    /\ UNCHANGED <<limiterVars, process, server, ready, requests>>

\* stop() ends what this.server accepts; a server that is not bound yet has
\* nothing to close and will still listen.  Requests that wait go on.
Stop ==
    /\ process = "up"
    /\ server # 0
    /\ server' = 0
    /\ listener' = [listener EXCEPT ![server] = IF @ = "listening" THEN "closed" ELSE @]
    /\ UNCHANGED <<limiterVars, process, ready, requests>>

-----------------------------------------------------------------------------
(* handleRequest *)

Answer(r) ==
    /\ stage' = [stage EXCEPT ![r] = "answered"]
    /\ UNCHANGED <<process, failed>>

\* The endpoint's promise is rejected: the process ends with every request it
\* had not answered.
Reject(r) ==
    /\ process' = "dead"
    /\ failed' = failed \cup {r}
    /\ stage' = [q \in Requests |-> IF q = r \/ stage[q] = "body" THEN "lost" ELSE stage[q]]

\* The next request reaches the handler.
Receive(r) ==
    /\ process = "up"
    /\ \E s \in Servers : listener[s] = "listening"
    /\ r = requestCount + 1
    /\ requestCount' = requestCount + 1
    /\ UNCHANGED lifecycle

\* The limit is exceeded (429).
TooMany(r, c) == Receive(r) /\ Refuse(c) /\ Answer(r)

\* What is answered at once: OPTIONS (204), a URL that does not parse (500, the
\* one error the catch sees), the public endpoints (200, or 503 before the server
\* is ready), a wrong token (401), an unknown path (404).
AnswerAtOnce(r, c) == Receive(r) /\ Allow(c) /\ Answer(r)

\* A POST endpoint, with the right token if one is needed: parseBody waits for
\* the body, or rejects because of its type or announced length.
AwaitBody(r, c) ==
    /\ Receive(r)
    /\ Allow(c)
    /\ stage' = [stage EXCEPT ![r] = "body"]
    /\ UNCHANGED <<process, failed>>
RejectHeaders(r, c) == Receive(r) /\ Allow(c) /\ Reject(r)

\* The endpoint waits for the body; stop() does not end that.
\* Mutant: it goes on only while this.server is set.
AwaitsWhileServing(r) == process = "up" /\ stage[r] = "body" /\ server # 0

Awaits(r) == process = "up" /\ stage[r] = "body"

\* The body is complete JSON: 400 if a field is missing, 200 with the result.
EndpointDone(r) ==
    /\ Awaits(r)
    /\ Answer(r)
    /\ UNCHANGED <<limiterVars, lifecycle, requestCount>>

\* The body is too large or no JSON, the connection breaks or times out, or
\* the computation throws.
EndpointThrows(r) ==
    /\ Awaits(r)
    /\ Reject(r)
    /\ UNCHANGED <<limiterVars, lifecycle, requestCount>>

EndpointEnds(r) == EndpointDone(r) \/ EndpointThrows(r)

Clock == process = "up" /\ Tick /\ UNCHANGED <<process, lifecycle, requests>>

Next ==
    \/ \E s \in Servers : Start(s) \/ Listening(s) \/ ListenFails(s)
    \/ Stop
    \/ \E r \in Requests, c \in Clients :
          TooMany(r, c) \/ AnswerAtOnce(r, c) \/ AwaitBody(r, c) \/ RejectHeaders(r, c)
    \/ \E r \in Requests : EndpointDone(r) \/ EndpointThrows(r)
    \/ Clock

\* A body ends: the client sends it, gives up, or server.timeout closes the
\* socket.  The result is computed before the event loop goes on.
Fairness == \A r \in Requests : WF_vars(EndpointEnds(r))

Spec == Init /\ [][Next]_vars /\ Fairness

-----------------------------------------------------------------------------
(* Properties *)

\* The type invariant of the server, its limiter and the requests.
TypeOK ==
    /\ LimiterTypeOK
    /\ process \in {"up", "dead"}
    /\ server \in 0..MaxStarts
    /\ listener \in [Servers -> {"none", "binding", "listening", "failed", "closed"}]
    /\ ready \in BOOLEAN
    /\ requestCount \in 0..MaxArrivals
    /\ stage \in [Requests -> {"idle", "body", "answered", "lost"}]
    /\ failed \subseteq Requests

\* A request that waits for its body does not wait for ever, whatever the
\* requests around it and stop() do: it is answered, or the process ended.
Answered ==
    \A r \in Requests : stage[r] = "body" ~> stage[r] \in {"answered", "lost"}

\* The catch of handleRequest and the test "returns error for malformed JSON
\* body": an endpoint that fails answers the request (413, 415, 500).
ErrorsAnswered == \A r \in failed : stage[r] = "answered"
=============================================================================
