----------------------- MODULE CausalityServerProofs -----------------------
(***************************************************************************)
(* The bound of the request limiter and the promise of Retry-After, for    *)
(* every limit, window and clock, and their transfer to the server.        *)
(*                                                                         *)
(* The bound alone is not inductive.  What makes it so is where the        *)
(* current window starts in the list of admissions (Opened): its members   *)
(* are the last ones, at most Quota of them, and every admission that is   *)
(* Quota or more before its first one is at least a window older.          *)
(***************************************************************************)
EXTENDS CausalityServer, TLAPS

\* The index in admitted[c] of the request that opened the current window.
InWindow(c) == IF bucket[c].count <= Quota THEN bucket[c].count ELSE Quota
Opened(c) == Len(admitted[c]) + 1 - InWindow(c)

\* Admissions are listed in the order of time.
Sorted(c) ==
    \A i, j \in 1..Len(admitted[c]) :
        i <= j => admitted[c][i] <= admitted[c][j] /\ admitted[c][j] <= now

Window(c) ==
    /\ bucket[c].count >= 1
    /\ Opened(c) >= 1
    /\ admitted[c][Opened(c)] = bucket[c].windowStart
    /\ \A i \in 1..Len(admitted[c]) :
          i + Quota <= Opened(c) => bucket[c].windowStart >= admitted[c][i] + WindowMs

Bound(c) ==
    \A i, j \in 1..Len(admitted[c]) :
        j >= i + 2 * Quota - 1 => admitted[c][j] >= admitted[c][i] + WindowMs

\* A client that was told to wait was told to wait until its window is over.
Told(c) ==
    told[c] # None => bucket[c] # None /\ told[c] >= bucket[c].windowStart + WindowMs

ClientInv(c) ==
    /\ bucket[c] = None => admitted[c] = <<>>
    /\ bucket[c] # None => Window(c)
    /\ Sorted(c)
    /\ Bound(c)
    /\ Told(c)

LimiterInv == LimiterTypeOK /\ \A c \in Clients : ClientInv(c)

-----------------------------------------------------------------------------

LEMMA QuotaPositive == Quota \in Nat /\ Quota >= 1
BY LimitAssumption, SMT DEF Quota

\* Retry-After never ends before the window does.
LEMMA RetryAfterReaches ==
    ASSUME NEW c \in Clients, LimiterTypeOK, bucket[c] # None
    PROVE  RetryAfter(c) \in Int /\ now + RetryAfter(c) >= bucket[c].windowStart + WindowMs
<1>1. bucket[c].windowStart \in Nat /\ now \in Nat /\ WindowMs \in Nat
  BY LimitAssumption DEF LimiterTypeOK, Buckets
<1>2. \A x \in Int : ((x + 999) \div 1000) * 1000 \in Int /\ ((x + 999) \div 1000) * 1000 >= x
  BY SMT
<1>3. ResetInMs(c) \in Int /\ now + ResetInMs(c) = bucket[c].windowStart + WindowMs
  BY <1>1, SMT DEF ResetInMs
<1> QED
  BY <1>1, <1>2, <1>3, SMT DEF RetryAfter

LEMMA InitHolds == LimiterInit => LimiterInv
<1> SUFFICES ASSUME LimiterInit PROVE LimiterInv
  OBVIOUS
<1>1. LimiterTypeOK
  BY NoneAssumption DEF LimiterInit, LimiterTypeOK
<1>2. ASSUME NEW c \in Clients PROVE ClientInv(c)
  <2>1. bucket[c] = None /\ admitted[c] = <<>> /\ told[c] = None /\ Len(admitted[c]) = 0
    BY <1>2 DEF LimiterInit
  <2> QED
    BY <2>1, SMT DEF ClientInv, Sorted, Bound, Told
<1> QED
  BY <1>1, <1>2 DEF LimiterInv

\* What an admission does to the list.
LEMMA AdmissionAppends ==
    ASSUME NEW c \in Clients, LimiterTypeOK, Admitted(c)
    PROVE  /\ Len(admitted'[c]) = Len(admitted[c]) + 1
           /\ \A i \in 1..Len(admitted[c]) : admitted'[c][i] = admitted[c][i]
           /\ admitted'[c][Len(admitted[c]) + 1] = now
           /\ Len(admitted[c]) \in Nat
           /\ \A i \in 1..Len(admitted[c]) : admitted[c][i] \in Nat
           /\ admitted'[c] \in Seq(Nat)
           /\ told'[c] = None
<1>1. admitted[c] \in Seq(Nat) /\ now \in Nat
  BY DEF LimiterTypeOK
<1>2. admitted'[c] = Append(admitted[c], now) /\ told'[c] = None
  BY DEF Admitted, LimiterTypeOK
<1> QED
  BY <1>1, <1>2, SMT

\* An admission keeps the list in the order of time.
LEMMA AdmissionSorted ==
    ASSUME NEW c \in Clients, LimiterTypeOK, Sorted(c), Admitted(c), now' = now
    PROVE  Sorted(c)'
<1> DEFINE n == Len(admitted[c])
<1>1. /\ n \in Nat /\ now \in Nat
      /\ Len(admitted'[c]) = n + 1
      /\ \A i \in 1..n : admitted'[c][i] = admitted[c][i]
      /\ admitted'[c][n + 1] = now
  BY AdmissionAppends DEF LimiterTypeOK
<1>2. \A i, j \in 1..n : i <= j => admitted[c][i] <= admitted[c][j] /\ admitted[c][j] <= now
  BY DEF Sorted
<1> SUFFICES ASSUME NEW i \in 1..(n + 1), NEW j \in 1..(n + 1), i <= j
             PROVE  admitted'[c][i] <= admitted'[c][j] /\ admitted'[c][j] <= now
  BY <1>1 DEF Sorted
<1> HIDE DEF n
<1>3. CASE j \in 1..n
  <2>1. i \in 1..n
    BY <1>1, <1>3, SMT
  <2> QED
    BY <1>1, <1>2, <1>3, <2>1
<1>4. CASE j = n + 1 /\ i \in 1..n
  <2>1. admitted[c][i] <= now /\ i <= i
    BY <1>1, <1>2, <1>4, SMT
  <2> QED
    BY <1>1, <1>4, <2>1, SMT
<1>5. CASE j = n + 1 /\ i = n + 1
  BY <1>1, <1>5, SMT
<1> QED
  BY <1>1, <1>3, <1>4, <1>5, SMT

\* A first admission opens a window after all those in the list: what is Quota
\* back in the list lies at or before the previous window's start.
LEMMA OpenWindowHolds ==
    ASSUME NEW c \in Clients, LimiterTypeOK, ClientInv(c), OpenWindow(c)
    PROVE  ClientInv(c)'
<1> DEFINE n == Len(admitted[c])
<1>1. /\ n \in Nat /\ now \in Nat /\ WindowMs \in Nat
      /\ Quota \in Nat /\ Quota >= 1 /\ Quota' = Quota
  BY QuotaPositive, LimitAssumption, AdmissionAppends DEF LimiterTypeOK, OpenWindow, Quota
<1>2. /\ now' = now
      /\ bucket'[c] = [count |-> 1, windowStart |-> now]
      /\ bucket'[c].count = 1 /\ bucket'[c].windowStart = now
      /\ bucket'[c] # None
  BY NoneAssumption, <1>1 DEF OpenWindow, LimiterTypeOK, Buckets
<1>3. /\ Len(admitted'[c]) = n + 1
      /\ \A i \in 1..n : admitted'[c][i] = admitted[c][i] /\ admitted[c][i] \in Nat
      /\ admitted'[c][n + 1] = now
      /\ told'[c] = None
  BY AdmissionAppends DEF OpenWindow
<1>4. Opened(c)' = n + 1
  BY <1>1, <1>2, <1>3, SMT DEF Opened, InWindow
<1>5. Sorted(c)'
  BY <1>2, AdmissionSorted DEF ClientInv, OpenWindow
<1>6. \A i \in 1..n : i + Quota <= n + 1 => now >= admitted[c][i] + WindowMs
  <2>1. CASE bucket[c] = None
    BY <2>1, <1>1, SMT DEF ClientInv
  <2>2. CASE bucket[c] # None
    <3>1. bucket[c].count \in Nat /\ bucket[c].windowStart \in Nat
      BY <2>2 DEF LimiterTypeOK, Buckets
    <3>2. now >= bucket[c].windowStart + WindowMs
      BY <2>2, <3>1, <1>1, SMT DEF OpenWindow, NewWindow
    <3>3. Opened(c) \in 1..n /\ n + 1 - Quota <= Opened(c)
      BY <2>2, <3>1, <1>1, SMTT(30) DEF ClientInv, Window, Opened, InWindow
    <3>4. ASSUME NEW i \in 1..n, i + Quota <= n + 1
          PROVE  now >= admitted[c][i] + WindowMs
      <4>1. i <= Opened(c)
        BY <3>3, <3>4, <1>1, SMT
      <4>2. admitted[c][i] <= admitted[c][Opened(c)]
        BY <3>3, <4>1 DEF ClientInv, Sorted
      <4>3. admitted[c][Opened(c)] = bucket[c].windowStart /\ admitted[c][i] \in Nat
        BY <2>2, <1>3 DEF ClientInv, Window
      <4> QED
        BY <3>1, <3>2, <4>2, <4>3, <1>1, SMT
    <3> QED
      BY <3>4
  <2> QED
    BY <2>1, <2>2
<1>7. Window(c)'
  <2>1. \A i \in 1..(n + 1) : i + Quota <= n + 1 => i \in 1..n
    BY <1>1, SMT
  <2>2. \A i \in 1..(n + 1) : i + Quota <= n + 1 => now >= admitted'[c][i] + WindowMs
    BY <1>3, <1>6, <2>1
  <2>3. n + 1 >= 1
    BY <1>1, SMT
  <2> QED
    BY <1>1, <1>2, <1>3, <1>4, <2>2, <2>3 DEF Window
<1>8. Bound(c)'
  <2> SUFFICES ASSUME NEW i \in 1..(n + 1), NEW j \in 1..(n + 1),
                      j >= i + 2 * Quota - 1
               PROVE  admitted'[c][j] >= admitted'[c][i] + WindowMs
    BY <1>1, <1>3 DEF Bound
  <2>1. i \in 1..n /\ i + Quota <= n + 1
    BY <1>1, SMT
  <2>2. CASE j = n + 1
    BY <2>1, <2>2, <1>3, <1>6, SMT
  <2>3. CASE j # n + 1
    <3>1. j \in 1..n
      BY <2>3, <1>1, SMT
    <3> QED
      BY <2>1, <3>1, <1>3 DEF ClientInv, Bound
  <2> QED
    BY <2>2, <2>3
<1> QED
  BY <1>2, <1>3, <1>5, <1>7, <1>8 DEF ClientInv, Told

\* A further admission of the window: it starts where it did, and Quota before
\* its first member lies what is a window older.
LEMMA CountHolds ==
    ASSUME NEW c \in Clients, LimiterTypeOK, ClientInv(c), Count(c)
    PROVE  ClientInv(c)'
<1> DEFINE n == Len(admitted[c])
           s == Opened(c)
<1>1. /\ n \in Nat /\ now \in Nat /\ WindowMs \in Nat /\ MaxRequests \in Nat
      /\ Quota \in Nat /\ Quota >= 1 /\ Quota' = Quota
  BY QuotaPositive, LimitAssumption, AdmissionAppends DEF LimiterTypeOK, Count, Quota
<1>2. /\ bucket[c] # None
      /\ bucket[c].count \in Nat /\ bucket[c].windowStart \in Nat
  BY DEF LimiterTypeOK, Buckets, Count, NewWindow
<1>3. /\ now' = now
      /\ bucket'[c] = [bucket[c] EXCEPT !.count = @ + 1]
      /\ bucket'[c].count = bucket[c].count + 1
      /\ bucket'[c].windowStart = bucket[c].windowStart
      /\ bucket'[c] # None
  BY <1>2, NoneAssumption DEF Count, LimiterTypeOK, Buckets
<1>4. /\ Len(admitted'[c]) = n + 1
      /\ \A i \in 1..n : admitted'[c][i] = admitted[c][i] /\ admitted[c][i] \in Nat
      /\ admitted'[c][n + 1] = now
      /\ told'[c] = None
  BY AdmissionAppends DEF Count
<1>5. /\ bucket[c].count >= 1
      /\ s = n + 1 - bucket[c].count
      /\ s \in 1..n
      /\ bucket[c].count + 1 <= Quota
      /\ Opened(c)' = s
  <2>1. bucket[c].count >= 1 /\ s >= 1
    BY <1>2 DEF ClientInv, Window
  <2>2. bucket[c].count + 1 <= Quota
    BY <1>1, <1>2, SMT DEF Count, Quota
  <2>3. InWindow(c) = bucket[c].count /\ InWindow(c)' = bucket[c].count + 1
    BY <1>1, <1>2, <1>3, <2>2, SMT DEF InWindow
  <2>4. s = n + 1 - bucket[c].count /\ Opened(c)' = n + 1 + 1 - (bucket[c].count + 1)
    BY <1>4, <2>3 DEF Opened
  <2> HIDE DEF n, s
  <2>5. s \in Int /\ s = Opened(c)' /\ s <= n
    BY <1>1, <1>2, <2>1, <2>4, SMT
  <2> QED
    BY <1>1, <2>1, <2>2, <2>4, <2>5, SMT
<1>6. /\ admitted[c][s] = bucket[c].windowStart
      /\ \A i \in 1..n : i + Quota <= s => bucket[c].windowStart >= admitted[c][i] + WindowMs
      /\ \A i, j \in 1..n : i <= j => admitted[c][i] <= admitted[c][j] /\ admitted[c][j] <= now
      /\ \A i, j \in 1..n : j >= i + 2 * Quota - 1 => admitted[c][j] >= admitted[c][i] + WindowMs
  BY <1>2 DEF ClientInv, Window, Sorted, Bound
<1>7. Sorted(c)'
  BY <1>3, AdmissionSorted DEF ClientInv, Count
<1> HIDE DEF n, s
<1>8. Window(c)'
  <2>1. ASSUME NEW i \in 1..(n + 1), i + Quota <= s
        PROVE  bucket[c].windowStart >= admitted'[c][i] + WindowMs
    <3>1. i \in 1..n
      BY <2>1, <1>1, <1>5, SMT
    <3> QED
      BY <2>1, <3>1, <1>4, <1>6
  <2>2. admitted'[c][s] = bucket[c].windowStart
    BY <1>4, <1>5, <1>6
  <2>3. bucket[c].count + 1 >= 1 /\ s >= 1
    BY <1>2, <1>5, SMT
  <2> QED
    BY <1>1, <1>3, <1>4, <1>5, <2>1, <2>2, <2>3 DEF Window
<1>9. Bound(c)'
  <2> SUFFICES ASSUME NEW i \in 1..(n + 1), NEW j \in 1..(n + 1),
                      j >= i + 2 * Quota - 1
               PROVE  admitted'[c][j] >= admitted'[c][i] + WindowMs
    BY <1>1, <1>4 DEF Bound
  <2>1. i \in 1..n
    BY <1>1, SMT
  <2>2. CASE j = n + 1
    <3>1. i + Quota <= s
      BY <2>2, <1>1, <1>2, <1>5, SMT
    <3>2. bucket[c].windowStart >= admitted[c][i] + WindowMs
      BY <2>1, <3>1, <1>6
    <3>3. bucket[c].windowStart <= now
      <4>1. s <= s
        BY <1>5, SMT
      <4> QED
        BY <4>1, <1>5, <1>6
    <3>4. admitted'[c][j] = now /\ admitted'[c][i] = admitted[c][i] /\ admitted[c][i] \in Nat
      BY <2>1, <2>2, <1>4
    <3> QED
      BY <3>2, <3>3, <3>4, <1>1, <1>2, SMT
  <2>3. CASE j # n + 1
    <3>1. j \in 1..n
      BY <2>3, <1>1, SMT
    <3> QED
      BY <2>1, <3>1, <1>4, <1>6
  <2> QED
    BY <2>2, <2>3
<1> QED
  BY <1>3, <1>4, <1>7, <1>8, <1>9 DEF ClientInv, Told

\* A refusal counts beyond Quota, which moves nothing, and tells a time at which
\* the window is over.
LEMMA RefuseHolds ==
    ASSUME NEW c \in Clients, LimiterTypeOK, ClientInv(c), Refuse(c)
    PROVE  ClientInv(c)'
<1>1. /\ Len(admitted[c]) \in Nat /\ MaxRequests \in Nat
      /\ Quota \in Nat /\ Quota >= 1 /\ Quota' = Quota
      /\ admitted'[c] = admitted[c] /\ now' = now
  BY QuotaPositive, LimitAssumption DEF LimiterTypeOK, Refuse, Quota
<1>2. /\ bucket[c] # None
      /\ bucket[c].count \in Nat /\ bucket[c].windowStart \in Nat
  BY DEF LimiterTypeOK, Buckets, Refuse, NewWindow
<1>3. /\ bucket'[c].count = bucket[c].count + 1
      /\ bucket'[c].windowStart = bucket[c].windowStart
      /\ bucket'[c] # None
      /\ told'[c] = now + RetryAfter(c)
  BY <1>2, NoneAssumption DEF Refuse, LimiterTypeOK, Buckets
<1>4. bucket[c].count >= 1
  BY <1>2 DEF ClientInv, Window
<1>5. Opened(c)' = Opened(c)
  <2>1. bucket[c].count >= Quota
    BY <1>1, <1>2, <1>4, SMT DEF Refuse, Quota
  <2> QED
    BY <1>1, <1>2, <1>3, <2>1, SMT DEF Opened, InWindow
<1>6. Window(c)'
  <2>1. bucket'[c].count >= 1
    BY <1>2, <1>3, SMT
  <2> QED
    BY <1>1, <1>2, <1>3, <1>5, <2>1 DEF ClientInv, Window
<1>7. Told(c)'
  BY <1>2, <1>3, RetryAfterReaches DEF Told
<1> QED
  BY <1>1, <1>3, <1>6, <1>7 DEF ClientInv, Sorted, Bound

\* What a step of the limiter does to the other clients: nothing.
LEMMA OthersUntouched ==
    ASSUME NEW d \in Clients, LimiterTypeOK, ClientInv(d),
           now' = now, admitted'[d] = admitted[d], bucket'[d] = bucket[d], told'[d] = told[d]
    PROVE  ClientInv(d)'
BY DEF ClientInv, Window, Opened, InWindow, Sorted, Bound, Told, Quota

LEMMA TickHolds ==
    ASSUME NEW c \in Clients, LimiterTypeOK, ClientInv(c), Tick
    PROVE  ClientInv(c)'
<1>1. bucket' = bucket /\ admitted' = admitted /\ told' = told
  BY DEF Tick
<1>2. now \in Nat /\ now' \in Nat /\ now' >= now
  BY ClockAssumption, SMT DEF Tick, LimiterTypeOK
<1>3. Sorted(c)'
  <2>1. \A i \in 1..Len(admitted[c]) : admitted[c][i] \in Nat
    BY DEF LimiterTypeOK
  <2>2. \A i, j \in 1..Len(admitted[c]) : i <= j => admitted[c][j] <= now'
    BY <1>2, <2>1, SMT DEF ClientInv, Sorted
  <2> QED
    BY <1>1, <2>2 DEF ClientInv, Sorted
<1> QED
  BY <1>1, <1>3 DEF ClientInv, Window, Opened, InWindow, Bound, Told, Quota

LEMMA LimiterTypesKept ==
    ASSUME LimiterTypeOK, LimiterNext
    PROVE  LimiterTypeOK'
<1>1. CASE Tick
  BY <1>1, ClockAssumption, SMT DEF Tick, LimiterTypeOK
<1>2. ASSUME NEW c \in Clients, OpenWindow(c) PROVE LimiterTypeOK'
  <2>1. [count |-> 1, windowStart |-> now] \in Buckets
    BY DEF LimiterTypeOK, Buckets
  <2>2. admitted'[c] \in Seq(Nat)
    BY <1>2, AdmissionAppends DEF OpenWindow
  <2> QED
    BY <1>2, <2>1, <2>2 DEF OpenWindow, Admitted, LimiterTypeOK
<1>3. ASSUME NEW c \in Clients, Count(c) \/ Refuse(c) PROVE LimiterTypeOK'
  <2>1. bucket[c] \in Buckets
    BY <1>3 DEF LimiterTypeOK, Count, Refuse, NewWindow
  <2>2. [bucket[c] EXCEPT !.count = @ + 1] \in Buckets
    BY <2>1 DEF Buckets
  <2>3. bucket' \in [Clients -> Buckets \cup {None}]
    BY <1>3, <2>2 DEF Count, Refuse, LimiterTypeOK
  <2>4. CASE Count(c)
    <3>1. admitted'[c] \in Seq(Nat)
      BY <2>4, AdmissionAppends DEF Count
    <3> QED
      BY <2>3, <2>4, <3>1 DEF Count, Admitted, LimiterTypeOK
  <2>5. CASE Refuse(c)
    <3>1. RetryAfter(c) \in Int /\ now + RetryAfter(c) >= bucket[c].windowStart + WindowMs
      BY <2>1, <2>5, RetryAfterReaches DEF Refuse, NewWindow
    <3>2. now + RetryAfter(c) \in Nat
      BY <2>1, <3>1, LimitAssumption, SMT DEF Buckets, LimiterTypeOK
    <3> QED
      BY <2>3, <2>5, <3>2 DEF Refuse, LimiterTypeOK
  <2> QED
    BY <1>3, <2>4, <2>5
<1> QED
  BY <1>1, <1>2, <1>3 DEF LimiterNext, Allow

\* What a check of one client leaves of the others.
LEMMA CheckOfOne ==
    ASSUME NEW c \in Clients, NEW d \in Clients, d # c, LimiterTypeOK, Allow(c) \/ Refuse(c)
    PROVE  now' = now /\ admitted'[d] = admitted[d] /\ bucket'[d] = bucket[d] /\ told'[d] = told[d]
<1>1. CASE OpenWindow(c)
  BY <1>1 DEF OpenWindow, Admitted, LimiterTypeOK
<1>2. CASE Count(c)
  BY <1>2 DEF Count, Admitted, LimiterTypeOK
<1>3. CASE Refuse(c)
  BY <1>3 DEF Refuse, LimiterTypeOK
<1> QED
  BY <1>1, <1>2, <1>3 DEF Allow

LEMMA LimiterStep == LimiterInv /\ [LimiterNext]_limiterVars => LimiterInv'
<1> SUFFICES ASSUME LimiterInv, [LimiterNext]_limiterVars PROVE LimiterInv'
  OBVIOUS
<1>1. LimiterTypeOK /\ \A c \in Clients : ClientInv(c)
  BY DEF LimiterInv
<1>2. CASE UNCHANGED limiterVars
  BY <1>1, <1>2 DEF limiterVars, LimiterInv, LimiterTypeOK, ClientInv, Window, Opened, InWindow,
                    Sorted, Bound, Told, Quota
<1>3. CASE Tick
  BY <1>1, <1>3, LimiterTypesKept, TickHolds DEF LimiterInv, LimiterNext
<1>4. ASSUME NEW c \in Clients, Allow(c) \/ Refuse(c) PROVE LimiterInv'
  <2>1. LimiterTypeOK'
    BY <1>1, <1>4, LimiterTypesKept DEF LimiterNext
  <2>2. ClientInv(c)'
    BY <1>1, <1>4, OpenWindowHolds, CountHolds, RefuseHolds DEF Allow
  <2>3. ASSUME NEW d \in Clients, d # c PROVE ClientInv(d)'
    BY <1>1, <1>4, <2>3, CheckOfOne, OthersUntouched
  <2> QED
    BY <2>1, <2>2, <2>3 DEF LimiterInv
<1> QED
  BY <1>2, <1>3, <1>4 DEF LimiterNext

\* The server uses its limiter as the limiter specifies: every step of the
\* server is a step of the limiter or leaves it alone (server.ts:187-193).
LEMMA ServerStepsLimiter == [Next]_vars => [LimiterNext]_limiterVars
<1> SUFFICES ASSUME [Next]_vars PROVE LimiterNext \/ UNCHANGED limiterVars
  OBVIOUS
<1>1. CASE UNCHANGED vars
  BY <1>1 DEF vars
<1>2. ASSUME NEW s \in Servers, Start(s) \/ Listening(s) \/ ListenFails(s)
      PROVE  UNCHANGED limiterVars
  BY <1>2 DEF Start, Listening, ListenFails
<1>3. CASE Stop
  BY <1>3 DEF Stop
<1>4. ASSUME NEW r \in Requests, NEW c \in Clients,
             TooMany(r, c) \/ AnswerAtOnce(r, c) \/ AwaitBody(r, c) \/ RejectHeaders(r, c)
      PROVE  LimiterNext
  <2>1. Allow(c) \/ Refuse(c)
    BY <1>4 DEF TooMany, AnswerAtOnce, AwaitBody, RejectHeaders
  <2> QED
    BY <2>1 DEF LimiterNext
<1>5. ASSUME NEW r \in Requests, EndpointDone(r) \/ EndpointThrows(r)
      PROVE  UNCHANGED limiterVars
  BY <1>5 DEF EndpointDone, EndpointThrows
<1>6. CASE Clock
  BY <1>6 DEF Clock, LimiterNext
<1> QED
  BY <1>1, <1>2, <1>3, <1>4, <1>5, <1>6 DEF Next

\* What the server does to its limiter, it does by check() alone: the server
\* implements the specification of the limiter.
THEOREM ServerUsesLimiter == Spec => LimiterSpec
<1>1. Init => LimiterInit
  BY DEF Init
<1> QED
  BY <1>1, ServerStepsLimiter, PTL DEF Spec, LimiterSpec

\* The limiter keeps what the bound rests on, in every server.
LEMMA LimiterInvHolds == Spec => []LimiterInv
<1>1. LimiterSpec => []LimiterInv
  BY InitHolds, LimiterStep, PTL DEF LimiterSpec
<1> QED
  BY <1>1, ServerUsesLimiter, PTL

\* A stretch of time shorter than a window lets at most 2 * Quota - 1 requests
\* of a client through, whatever the limit, the window and the clock's steps
\* (rate-limiter.ts:73-89).
THEOREM AdmissionsAreBounded == Spec => []AdmissionBound
<1>1. LimiterInv => AdmissionBound
  <2> SUFFICES ASSUME LimiterInv, NEW c \in Clients PROVE
        \A i, j \in DOMAIN admitted[c] :
           j >= i + 2 * Quota - 1 => admitted[c][j] >= admitted[c][i] + WindowMs
    BY DEF AdmissionBound
  <2>1. Bound(c)
    BY DEF LimiterInv, ClientInv
  <2>2. DOMAIN admitted[c] = 1..Len(admitted[c])
    BY DEF LimiterInv, LimiterTypeOK
  <2> QED
    BY <2>1, <2>2 DEF Bound
<1> QED
  BY <1>1, LimiterInvHolds, PTL

\* A client that waited as long as Retry-After said opens a new window with its
\* next request (server.ts:188, rate-limiter.ts:77).
LEMMA RetryStep ==
    ASSUME LimiterInv, [LimiterNext]_limiterVars, NEW c \in Clients,
           told[c] # None, now >= told[c], bucket'[c] # bucket[c]
    PROVE  admitted'[c] # admitted[c]
<1>1. LimiterTypeOK /\ Told(c)
  BY DEF LimiterInv, ClientInv
<1>2. NewWindow(c)
  <2>1. /\ bucket[c].windowStart \in Nat /\ told[c] \in Nat /\ now \in Nat
        /\ WindowMs \in Nat /\ told[c] >= bucket[c].windowStart + WindowMs
    BY <1>1, LimitAssumption DEF LimiterTypeOK, Buckets, Told
  <2> QED
    BY <2>1, SMT DEF NewWindow
<1>3. Allow(c) \/ Refuse(c)
  <2>1. CASE UNCHANGED limiterVars
    BY <2>1 DEF limiterVars
  <2>2. CASE Tick
    BY <2>2 DEF Tick
  <2>3. ASSUME NEW d \in Clients, d # c, Allow(d) \/ Refuse(d) PROVE FALSE
    BY <1>1, <2>3, CheckOfOne
  <2> QED
    BY <2>1, <2>2, <2>3 DEF LimiterNext
<1>4. Admitted(c)
  BY <1>2, <1>3 DEF Allow, OpenWindow, Count, Refuse
<1>5. Len(admitted'[c]) = Len(admitted[c]) + 1 /\ Len(admitted[c]) \in Nat
  BY <1>1, <1>4, AdmissionAppends
<1>6. Len(admitted'[c]) # Len(admitted[c])
  BY <1>5, SMT
<1> QED
  BY <1>6

\* The seconds of Retry-After are enough, whatever the window and the clock.
THEOREM RetryAfterHolds == Spec => RetryAfterIsEnough
<1>1. LimiterInv /\ [LimiterNext]_limiterVars =>
        [\A c \in Clients :
            told[c] # None /\ now >= told[c] /\ bucket'[c] # bucket[c]
                => admitted'[c] # admitted[c]]_limiterVars
  BY RetryStep
<1> QED
  BY <1>1, LimiterInvHolds, ServerUsesLimiter, PTL DEF LimiterSpec, RetryAfterIsEnough

-----------------------------------------------------------------------------

\* What no request does to the life of the server, and what a request that
\* arrives does to the others: nothing.
LEMMA ServerTypesKept ==
    ASSUME TypeOK, [Next]_vars
    PROVE  TypeOK'
<1> DEFINE Lives == {"none", "binding", "listening", "failed", "closed"}
           Stages == {"idle", "body", "answered", "lost"}
           Rest == /\ process \in {"up", "dead"}
                   /\ server \in 0..MaxStarts
                   /\ listener \in [Servers -> Lives]
                   /\ ready \in BOOLEAN
                   /\ requestCount \in 0..MaxArrivals
                   /\ stage \in [Requests -> Stages]
                   /\ failed \subseteq Requests
<1>1. LimiterTypeOK /\ Rest
  BY DEF TypeOK
<1>2. LimiterTypeOK'
  <2>1. CASE UNCHANGED limiterVars
    BY <1>1, <2>1 DEF limiterVars, LimiterTypeOK
  <2> QED
    BY <1>1, <2>1, LimiterTypesKept, ServerStepsLimiter
<1>3. Rest'
  <2>1. CASE UNCHANGED vars
    BY <1>1, <2>1 DEF vars, lifecycle, requests
  <2>2. ASSUME NEW s \in Servers, Start(s) \/ Listening(s) \/ ListenFails(s) PROVE Rest'
    <3>1. s \in 0..MaxStarts
      BY ServerAssumption, SMT DEF Servers
    <3> QED
      BY <1>1, <2>2, <3>1 DEF Start, Listening, ListenFails, lifecycle, requests
  <2>3. CASE Stop
    <3>1. 0 \in 0..MaxStarts
      BY ServerAssumption, SMT
    <3> QED
      BY <1>1, <2>3, <3>1 DEF Stop, lifecycle, requests
  <2>4. ASSUME NEW r \in Requests, NEW c \in Clients,
               TooMany(r, c) \/ AnswerAtOnce(r, c) \/ AwaitBody(r, c) \/ RejectHeaders(r, c)
        PROVE  Rest'
    <3>1. Receive(r)
      BY <2>4 DEF TooMany, AnswerAtOnce, AwaitBody, RejectHeaders
    <3>2. requestCount' \in 0..MaxArrivals
      BY <1>1, <3>1, ServerAssumption, SMT DEF Receive, Requests
    <3>3. /\ process' \in {"up", "dead"}
          /\ stage' \in [Requests -> Stages]
          /\ failed' \subseteq Requests
      BY <1>1, <2>4 DEF TooMany, AnswerAtOnce, AwaitBody, RejectHeaders, Answer, Reject
    <3> QED
      BY <1>1, <3>1, <3>2, <3>3 DEF Receive, lifecycle
  <2>5. ASSUME NEW r \in Requests, EndpointDone(r) \/ EndpointThrows(r) PROVE Rest'
    <3>1. /\ process' \in {"up", "dead"}
          /\ stage' \in [Requests -> Stages]
          /\ failed' \subseteq Requests
      BY <1>1, <2>5 DEF EndpointDone, EndpointThrows, Answer, Reject
    <3> QED
      BY <1>1, <2>5, <3>1 DEF EndpointDone, EndpointThrows, lifecycle
  <2>6. CASE Clock
    BY <1>1, <2>6 DEF Clock, lifecycle, requests
  <2> QED
    BY <2>1, <2>2, <2>3, <2>4, <2>5, <2>6 DEF Next
<1> QED
  BY <1>2, <1>3 DEF TypeOK

\* The types of the server, its limiter and its requests, for any number of
\* requests, clients and starts.
THEOREM ServerTypes == Spec => []TypeOK
<1>1. Init => TypeOK
  <2> SUFFICES ASSUME Init PROVE TypeOK
    OBVIOUS
  <2>1. LimiterTypeOK
    BY InitHolds DEF Init, LimiterInv
  <2>2. 0 \in 0..MaxStarts /\ 0 \in 0..MaxArrivals
    BY ServerAssumption, SMT
  <2> QED
    BY <2>1, <2>2 DEF Init, TypeOK
<1> QED
  BY <1>1, ServerTypesKept, PTL DEF Spec
=============================================================================
