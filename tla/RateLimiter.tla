---------------------------- MODULE RateLimiter ----------------------------
(***************************************************************************)
(* The request side of pipeline/src/rate-limiter.ts: check(key), which     *)
(* counts the requests of each client in a window that the first request   *)
(* after the previous window opens.  CausalityServer calls it for every    *)
(* request.  The clock is Date.now(); it is taken to be monotonic.         *)
(*                                                                         *)
(* admitted and told are history: when each client was let through, and    *)
(* until when its last refusal asked it to wait (the Retry-After header,   *)
(* which counts whole seconds).                                            *)
(***************************************************************************)
EXTENDS Integers, Sequences

CONSTANTS Clients,        \* keys of the map: remote addresses
          MaxRequests,    \* config.maxRequests
          WindowMs,       \* config.windowMs
          Steps,          \* bound: by how many milliseconds the clock advances
          MaxTime,        \* bound: the last time looked at
          None            \* no bucket, no refusal

Buckets == [count : Nat, windowStart : Nat]

ASSUME LimitAssumption == MaxRequests \in Nat /\ WindowMs \in Nat
ASSUME ClockAssumption == Steps \subseteq Nat /\ MaxTime \in Nat
ASSUME NoneAssumption == None \notin Nat /\ None \notin Buckets

VARIABLES
    now,          \* Date.now()
    bucket,       \* this.windowBuckets
    admitted,     \* when each client was let through, oldest first
    told          \* the time each client was last told to retry at

limiterVars == <<now, bucket, admitted, told>>

LimiterInit ==
    /\ now = 0
    /\ bucket = [c \in Clients |-> None]
    /\ admitted = [c \in Clients |-> <<>>]
    /\ told = [c \in Clients |-> None]

-----------------------------------------------------------------------------
(* check() *)

\* The client has no window, or its window is over.
NewWindow(c) ==
    bucket[c] # None => now - bucket[c].windowStart >= WindowMs

ResetInMs(c) == WindowMs - (now - bucket[c].windowStart)

\* The server sends Math.ceil(resetInMs / 1000) seconds.
\* Mutant: it sends the whole seconds that are left.
RetryAfterFloor(c) == (ResetInMs(c) \div 1000) * 1000
RetryAfter(c) == ((ResetInMs(c) + 999) \div 1000) * 1000

Admitted(c) ==
    /\ admitted' = [admitted EXCEPT ![c] = Append(@, now)]
    /\ told' = [told EXCEPT ![c] = None]

OpenWindow(c) ==
    /\ NewWindow(c)
    /\ bucket' = [bucket EXCEPT ![c] = [count |-> 1, windowStart |-> now]]
    /\ Admitted(c)
    /\ UNCHANGED now

\* Mutant: the count is compared before it is incremented.
CountBefore(c) ==
    /\ ~NewWindow(c)
    /\ bucket[c].count <= MaxRequests
    /\ bucket' = [bucket EXCEPT ![c].count = @ + 1]
    /\ Admitted(c)
    /\ UNCHANGED now

Count(c) ==
    /\ ~NewWindow(c)
    /\ bucket[c].count + 1 <= MaxRequests
    /\ bucket' = [bucket EXCEPT ![c].count = @ + 1]
    /\ Admitted(c)
    /\ UNCHANGED now

\* A refused request is counted too.
Refuse(c) ==
    /\ ~NewWindow(c)
    /\ bucket[c].count + 1 > MaxRequests
    /\ bucket' = [bucket EXCEPT ![c].count = @ + 1]
    /\ told' = [told EXCEPT ![c] = now + RetryAfter(c)]
    /\ UNCHANGED <<now, admitted>>

Allow(c) == OpenWindow(c) \/ Count(c)

Tick ==
    \E d \in Steps :
        /\ now + d <= MaxTime
        /\ now' = now + d
        /\ UNCHANGED <<bucket, admitted, told>>

LimiterNext == Tick \/ \E c \in Clients : Allow(c) \/ Refuse(c)

LimiterSpec == LimiterInit /\ [][LimiterNext]_limiterVars

-----------------------------------------------------------------------------
(* Properties *)

LimiterTypeOK ==
    /\ now \in Nat
    /\ bucket \in [Clients -> Buckets \cup {None}]
    /\ admitted \in [Clients -> Seq(Nat)]
    /\ told \in [Clients -> Nat \cup {None}]

\* The first request of a window passes even under a limit of 0.
Quota == IF MaxRequests = 0 THEN 1 ELSE MaxRequests

\* However a client spreads its requests, a stretch of time shorter than one
\* window lets at most 2 * Quota - 1 of them through: those left of one window
\* and all of the next.  (Fixed windows; with a sliding one it would be Quota.)
AdmissionBound ==
    \A c \in Clients : \A i, j \in DOMAIN admitted[c] :
        j >= i + 2 * Quota - 1 => admitted[c][j] >= admitted[c][i] + WindowMs

\* A refused client that waits as long as Retry-After says is let through by the
\* next check (a check changes the bucket, one way or the other).
RetryAfterIsEnough ==
    [][\A c \in Clients :
          told[c] # None /\ now >= told[c] /\ bucket'[c] # bucket[c]
              => admitted'[c] # admitted[c]]_limiterVars
=============================================================================
