-------------------------- MODULE WorkerPoolProofs --------------------------
(***************************************************************************)
(* The pool for every number of threads and tasks: its type invariant, the *)
(* order in which it hands tasks out, that no wake-up is lost, and that no *)
(* task is.                                                                *)
(***************************************************************************)
EXTENDS WorkerPool, FiniteSetTheorems, SequenceTheorems, FunctionTheorems, TLAPS

USE SizeAssumption, MaxTasksAssumption, ShutdownAssumption

-----------------------------------------------------------------------------
(* The ranks of the free entries *)

\* The entries are finite in number, and so is any part of them.
LEMMA FreeIsFinite ==
    ASSUME NEW F \in SUBSET Threads
    PROVE  IsFiniteSet(F) /\ Cardinality(F) \in Nat
<1>1. IsFiniteSet(Threads)
    BY FS_Interval DEF Threads
<1>2. QED
    BY <1>1, FS_Subset, FS_CardinalityType

\* The loop of dispatch() serves the free entries one after the other: ranks are
\* numbers from 1 to the number of free entries.
LEMMA RankBounds ==
    ASSUME NEW F \in SUBSET Threads, NEW w \in F
    PROVE  Rank(w, F) \in 1..Cardinality(F)
<1> DEFINE below == {v \in F : v <= w}
<1>1. IsFiniteSet(F) /\ Cardinality(F) \in Nat
    BY FreeIsFinite
<1>2. /\ IsFiniteSet(below)
      /\ Cardinality(below) \in Nat
      /\ Cardinality(below) <= Cardinality(F)
    BY <1>1, FS_Subset, FS_CardinalityType
<1>3. w \in below
    BY DEF Threads
<1>4. Cardinality(below) # 0
    BY <1>2, <1>3, FS_EmptySet
<1>5. QED
    BY <1>1, <1>2, <1>4 DEF Rank

\* A later entry has a higher rank: no two entries get the same task.
LEMMA RankGrows ==
    ASSUME NEW F \in SUBSET Threads, NEW v \in F, NEW w \in F, v < w
    PROVE  Rank(v, F) < Rank(w, F)
<1> DEFINE below(u) == {t \in F : t <= u}
<1>1. IsFiniteSet(F)
    BY FreeIsFinite
<1>2. below(v) \in SUBSET below(w) /\ w \in below(w) /\ w \notin below(v)
  <2>1. \A t \in F : t \in Int
    BY DEF Threads
  <2>2. \A t \in F : t <= v => t <= w
    BY <2>1, v < w
  <2>3. w <= w /\ ~(w <= v)
    BY <2>1, v < w
  <2>4. QED
    BY <2>2, <2>3
<1>3. IsFiniteSet(below(w)) /\ Cardinality(below(w)) \in Nat
    BY <1>1, FS_Subset, FS_CardinalityType
<1>4. /\ IsFiniteSet(below(v))
      /\ Cardinality(below(v)) \in Nat
      /\ Cardinality(below(v)) <= Cardinality(below(w))
      /\ Cardinality(below(w)) = Cardinality(below(v)) => below(w) = below(v)
    BY <1>2, <1>3, FS_Subset, FS_CardinalityType
<1>5. Cardinality(below(v)) # Cardinality(below(w))
    BY <1>2, <1>4
<1>6. QED
    BY <1>3, <1>4, <1>5 DEF Rank

\* Every rank is taken: the first tasks of the queue all get an entry.
LEMMA RankIsOnto ==
    ASSUME NEW F \in SUBSET Threads, NEW k \in 1..Cardinality(F)
    PROVE  \E w \in F : Rank(w, F) = k
<1> DEFINE f == [w \in F |-> Rank(w, F)]
<1>1. IsFiniteSet(F) /\ Cardinality(F) \in Nat
    BY FreeIsFinite
<1>2. f \in [F -> 1..Cardinality(F)]
    BY RankBounds
<1>3. \A v, w \in F : v # w => f[v] # f[w]
  <2>1. SUFFICES ASSUME NEW v \in F, NEW w \in F, v < w
                 PROVE  Rank(v, F) # Rank(w, F)
    BY DEF Threads
  <2>2. Rank(v, F) \in 1..Cardinality(F) /\ Rank(w, F) \in 1..Cardinality(F)
    BY RankBounds
  <2>3. QED
    BY <1>1, <2>1, <2>2, RankGrows
<1>4. f \in Injection(F, 1..Cardinality(F))
    BY <1>2, <1>3 DEF Injection, IsInjective
<1>5. IsFiniteSet(1..Cardinality(F)) /\ Cardinality(1..Cardinality(F)) = Cardinality(F)
    BY <1>1, FS_Interval
<1>6. f \in Surjection(F, 1..Cardinality(F))
    BY <1>4, <1>5, FS_Injection
<1>7. QED
    BY <1>6 DEF Surjection

-----------------------------------------------------------------------------
(* What dispatch() does to the queue, the flags and the channels *)

Free(b) == {w \in workers : ~b[w]}
Taken(queue, b) == {w \in Free(b) : Rank(w, Free(b)) <= Len(queue)}

\* The free entries are threads, and as many tasks as there are free entries, or
\* as there are queued, leave the queue.
LEMMA TakenTasks ==
    ASSUME workers \in {Threads, {}}, NEW queue \in Seq(TaskIds), NEW b
    PROVE  /\ Free(b) \in SUBSET Threads
           /\ Cardinality(Free(b)) \in Nat
           /\ \A w \in Taken(queue, b) :
                 /\ w \in Threads
                 /\ Rank(w, Free(b)) \in 1..Cardinality(Free(b))
                 /\ Rank(w, Free(b)) \in 1..Len(queue)
                 /\ queue[Rank(w, Free(b))] \in TaskIds
<1>1. Free(b) \in SUBSET Threads
    BY DEF Free
<1>2. Cardinality(Free(b)) \in Nat
    BY <1>1, FreeIsFinite
<1>3. ASSUME NEW w \in Taken(queue, b)
      PROVE  /\ w \in Threads
             /\ Rank(w, Free(b)) \in 1..Cardinality(Free(b))
             /\ Rank(w, Free(b)) \in 1..Len(queue)
             /\ queue[Rank(w, Free(b))] \in TaskIds
  <2>1. w \in Free(b) /\ Rank(w, Free(b)) <= Len(queue)
    BY <1>3 DEF Taken
  <2>2. Rank(w, Free(b)) \in 1..Cardinality(Free(b))
    BY <1>1, <2>1, RankBounds
  <2>3. Rank(w, Free(b)) \in 1..Len(queue)
    BY <1>2, <2>1, <2>2, LenProperties
  <2>4. QED
    BY <1>1, <2>1, <2>2, <2>3, ElementOfSeq
<1>4. QED
    BY <1>1, <1>2, <1>3

\* dispatch() keeps the types of what it assigns.
LEMMA DispatchType ==
    ASSUME TypeOK, NEW queue \in Seq(TaskIds), NEW b \in [Threads -> BOOLEAN],
           Dispatch(queue, b)
    PROVE  /\ pending' \in Seq(TaskIds)
           /\ busy' \in [Threads -> BOOLEAN]
           /\ inbox' \in [Threads -> Seq(Messages)]
           /\ lost' \in SUBSET TaskIds
<1> DEFINE F == Free(b)
           task(w) == queue[Rank(w, F)]
<1>1. /\ F \in SUBSET Threads /\ Cardinality(F) \in Nat
      /\ \A w \in Taken(queue, b) : w \in Threads /\ task(w) \in TaskIds
    BY TakenTasks DEF TypeOK
<1>2. /\ pending' = SubSeq(queue, Cardinality(F) + 1, Len(queue))
      /\ busy' = [w \in Threads |-> b[w] \/ w \in Taken(queue, b)]
      /\ inbox' = [w \in Threads |-> IF w \in Taken(queue, b) /\ thread[w] = "running"
                                     THEN Append(inbox[w], task(w)) ELSE inbox[w]]
      /\ lost' = lost \cup {task(w) : w \in {v \in Taken(queue, b) : ~(thread[v] = "running")}}
    BY DEF Dispatch, Taken, Free
<1>3. pending' \in Seq(TaskIds)
  <2>1. Len(queue) \in Nat /\ \A i \in 1..Len(queue) : queue[i] \in TaskIds
    BY LenProperties, ElementOfSeq
  <2>2. \A i \in (Cardinality(F) + 1)..Len(queue) : queue[i] \in TaskIds
    BY <1>1, <2>1
  <2>3. QED
    BY <1>1, <1>2, <2>1, <2>2, SubSeqProperties
<1>4. busy' \in [Threads -> BOOLEAN]
    BY <1>2
<1>5. inbox' \in [Threads -> Seq(Messages)]
  <2>1. ASSUME NEW w \in Threads, w \in Taken(queue, b)
        PROVE  Append(inbox[w], task(w)) \in Seq(Messages)
    BY <1>1, <2>1, AppendProperties DEF TypeOK, Messages
  <2>2. QED
    BY <1>2, <2>1 DEF TypeOK
<1>6. lost' \in SUBSET TaskIds
    BY <1>1, <1>2 DEF TypeOK
<1>7. QED
    BY <1>3, <1>4, <1>5, <1>6

-----------------------------------------------------------------------------
(* The type invariant *)

LEMMA InitType == Init => TypeOK
BY EmptySeq DEF Init, TypeOK, ThreadStates

\* Submit appends the new id and dispatches.
LEMMA SubmitType == TypeOK /\ Submit => TypeOK'
<1> SUFFICES ASSUME TypeOK, Submit PROVE TypeOK'
    OBVIOUS
<1>1. taskId \in TaskIds /\ taskId' \in 0..MaxTasks
    BY DEF TypeOK, Submit, TaskIds
<1>2. Append(pending, taskId) \in Seq(TaskIds)
    BY <1>1, AppendProperties DEF TypeOK
<1>3. Dispatch(Append(pending, taskId), busy) /\ busy \in [Threads -> BOOLEAN]
    BY DEF Submit, TypeOK
<1>4. /\ pending' \in Seq(TaskIds)
      /\ busy' \in [Threads -> BOOLEAN]
      /\ inbox' \in [Threads -> Seq(Messages)]
      /\ lost' \in SUBSET TaskIds
    BY <1>2, <1>3, DispatchType
<1>5. QED
    BY <1>1, <1>4 DEF TypeOK, Submit

\* onResult clears the flags, counts the reply and dispatches.
LEMMA OnResultType == ASSUME TypeOK, NEW w \in Threads, OnResult(w) PROVE TypeOK'
<1> DEFINE cleared == [v \in Threads |-> IF v \in workers THEN FALSE ELSE busy[v]]
<1>1. /\ outbox[w] \in Seq(Messages)
      /\ outbox[w] # <<>>
      /\ outbox' = [outbox EXCEPT ![w] = Tail(outbox[w])]
    BY DEF TypeOK, OnResult
<1>2. Head(outbox[w]) \in Messages /\ Tail(outbox[w]) \in Seq(Messages)
    BY <1>1, HeadTailProperties
<1>3. outbox' \in [Threads -> Seq(Messages)]
    BY <1>1, <1>2 DEF TypeOK
<1>4. returned' \in SUBSET TaskIds
    BY <1>2 DEF TypeOK, OnResult, Messages
<1>5. cleared \in [Threads -> BOOLEAN] /\ pending \in Seq(TaskIds) /\ Dispatch(pending, cleared)
    BY DEF TypeOK, OnResult
<1>6. /\ pending' \in Seq(TaskIds)
      /\ busy' \in [Threads -> BOOLEAN]
      /\ inbox' \in [Threads -> Seq(Messages)]
      /\ lost' \in SUBSET TaskIds
    BY <1>5, DispatchType
<1>7. QED
    BY <1>3, <1>4, <1>6 DEF TypeOK, OnResult

\* A message moves from the inbox to the outbox of its thread.
LEMMA ReplyType == ASSUME TypeOK, NEW w \in Threads, Reply(w) PROVE TypeOK'
<1>1. inbox[w] \in Seq(Messages) /\ inbox[w] # <<>> /\ outbox[w] \in Seq(Messages)
    BY DEF TypeOK, Reply
<1>2. Head(inbox[w]) \in Messages /\ Tail(inbox[w]) \in Seq(Messages)
    BY <1>1, HeadTailProperties
<1>3. Append(outbox[w], Head(inbox[w])) \in Seq(Messages)
    BY <1>1, <1>2, AppendProperties
<1>4. inbox' \in [Threads -> Seq(Messages)] /\ outbox' \in [Threads -> Seq(Messages)]
    BY <1>2, <1>3 DEF TypeOK, Reply
<1>5. QED
    BY <1>4 DEF TypeOK, Reply, poolVars

\* What a thread that goes away had in its inbox were messages.
LEMMA ElementsType ==
    ASSUME NEW s \in Seq(Messages)
    PROVE  Elements(s) \ {Shutdown} \in SUBSET TaskIds
BY LenProperties, ElementOfSeq DEF Elements, Messages

LEMMA ThrowType == ASSUME TypeOK, NEW w \in Threads, Throw(w) PROVE TypeOK'
<1>1. Elements(inbox[w]) \ {Shutdown} \in SUBSET TaskIds
    BY ElementsType DEF TypeOK
<1>2. /\ thread' \in [Threads -> ThreadStates]
      /\ inbox' \in [Threads -> Seq(Messages)]
      /\ lost' \in SUBSET TaskIds
    BY <1>1, EmptySeq DEF TypeOK, Throw, ThreadStates
<1>3. QED
    BY <1>2 DEF TypeOK, Throw, poolVars

LEMMA TerminateType == TypeOK /\ Terminate => TypeOK'
<1> SUFFICES ASSUME TypeOK, Terminate PROVE TypeOK'
    OBVIOUS
<1>1. \A w \in Threads : Append(inbox[w], Shutdown) \in Seq(Messages)
    BY AppendProperties DEF TypeOK, Messages
<1>2. inbox' \in [Threads -> Seq(Messages)]
    BY <1>1 DEF TypeOK, Terminate
<1>3. QED
    BY <1>2 DEF TypeOK, Terminate, poolVars

LEMMA StopNextType == TypeOK /\ StopNext => TypeOK'
<1> SUFFICES ASSUME TypeOK, StopNext PROVE TypeOK'
    OBVIOUS
<1>1. stopNext \in Threads /\ stopNext' \in 1..(Size + 1)
    BY DEF TypeOK, StopNext, Threads
<1>2. Elements(inbox[stopNext]) \ {Shutdown} \in SUBSET TaskIds
    BY <1>1, ElementsType DEF TypeOK
<1>3. /\ thread' \in [Threads -> ThreadStates]
      /\ inbox' \in [Threads -> Seq(Messages)]
      /\ lost' \in SUBSET TaskIds
    BY <1>1, <1>2, EmptySeq DEF TypeOK, StopNext, ThreadStates
<1>4. QED
    BY <1>1, <1>3 DEF TypeOK, StopNext, poolVars

\* The pool, its threads and its channels keep their types, for every number of
\* threads and of tasks.
THEOREM TypeCorrect == Spec => []TypeOK
<1>1. Init => TypeOK
    BY InitType
<1>2. TypeOK /\ [Next]_vars => TypeOK'
  <2> SUFFICES ASSUME TypeOK, [Next]_vars PROVE TypeOK'
    OBVIOUS
  <2>1. CASE Submit
    BY <2>1, SubmitType
  <2>2. ASSUME NEW w \in Threads, OnResult(w) PROVE TypeOK'
    BY <2>2, OnResultType
  <2>3. ASSUME NEW w \in Threads, Reply(w) PROVE TypeOK'
    BY <2>3, ReplyType
  <2>4. ASSUME NEW w \in Threads, Throw(w) PROVE TypeOK'
    BY <2>4, ThrowType
  <2>5. CASE Terminate
    BY <2>5, TerminateType
  <2>6. CASE GraceOver
    BY <2>6 DEF TypeOK, GraceOver, poolVars
  <2>7. CASE StopNext
    BY <2>7, StopNextType
  <2>8. CASE Terminated
    BY <2>8 DEF TypeOK, Terminated
  <2>9. CASE UNCHANGED vars
    BY <2>9 DEF TypeOK, vars
  <2>10. QED
    BY <2>1, <2>2, <2>3, <2>4, <2>5, <2>6, <2>7, <2>8, <2>9 DEF Next
<1>3. QED
    BY <1>1, <1>2, PTL DEF Spec

-----------------------------------------------------------------------------
(* No wake-up is lost *)

LEMMA AppendNotEmpty ==
    ASSUME NEW S, NEW s \in Seq(S), NEW m \in S
    PROVE  Append(s, m) # <<>>
BY AppendProperties

\* After dispatch() tasks wait only if every entry is busy: had one been free,
\* all free entries would have been served and the queue would be empty.
LEMMA DispatchFillsWorkers ==
    ASSUME TypeOK, NEW queue \in Seq(TaskIds), NEW b \in [Threads -> BOOLEAN],
           Dispatch(queue, b), workers' = workers
    PROVE  WaitOnlyWhenBusy'
<1> DEFINE F == Free(b)
<1>1. F \in SUBSET Threads /\ Cardinality(F) \in Nat
    BY TakenTasks DEF TypeOK
<1>2. /\ pending' = SubSeq(queue, Cardinality(F) + 1, Len(queue))
      /\ busy' = [w \in Threads |-> b[w] \/ w \in Taken(queue, b)]
    BY DEF Dispatch, Taken, Free
<1>3. SUFFICES ASSUME pending' # <<>>, NEW w \in workers
               PROVE  busy'[w]
    BY DEF WaitOnlyWhenBusy
<1>4. Len(queue) \in Nat
    BY LenProperties
<1>5. Cardinality(F) < Len(queue)
    BY <1>1, <1>2, <1>3, <1>4, SubSeqEmpty
<1>6. w \in Threads
    BY <1>3 DEF TypeOK
<1>7. CASE b[w]
    BY <1>2, <1>6, <1>7
<1>8. CASE ~b[w]
  <2>1. w \in F
    BY <1>8 DEF Free
  <2>2. Rank(w, F) \in 1..Cardinality(F)
    BY <1>1, <2>1, RankBounds
  <2>3. w \in Taken(queue, b)
    BY <1>1, <1>4, <1>5, <2>1, <2>2 DEF Taken
  <2>4. QED
    BY <1>2, <1>6, <2>3
<1>9. QED
    BY <1>7, <1>8

\* An entry is flagged after dispatch() because it was flagged before or because
\* a task was just posted to it.
LEMMA DispatchPosts ==
    ASSUME TypeOK, NEW queue \in Seq(TaskIds), NEW b \in [Threads -> BOOLEAN],
           Dispatch(queue, b), workers' = workers, thread' = thread,
           \A w \in workers : b[w] /\ thread[w] = "running"
                                => inbox[w] # <<>> \/ outbox'[w] # <<>>
    PROVE  BusyMeansOutstanding'
<1> DEFINE task(w) == queue[Rank(w, Free(b))]
<1>1. /\ busy' = [w \in Threads |-> b[w] \/ w \in Taken(queue, b)]
      /\ inbox' = [w \in Threads |-> IF w \in Taken(queue, b) /\ thread[w] = "running"
                                     THEN Append(inbox[w], task(w)) ELSE inbox[w]]
    BY DEF Dispatch, Taken, Free
<1>2. SUFFICES ASSUME NEW w \in workers, busy'[w], thread[w] = "running"
               PROVE  inbox'[w] # <<>> \/ outbox'[w] # <<>>
    BY DEF BusyMeansOutstanding
<1>3. w \in Threads
    BY <1>2 DEF TypeOK
<1>4. CASE w \in Taken(queue, b)
  <2>1. task(w) \in Messages
    BY <1>4, TakenTasks DEF TypeOK, Messages
  <2>2. inbox[w] \in Seq(Messages)
    BY <1>3 DEF TypeOK
  <2>3. Append(inbox[w], task(w)) # <<>>
    BY <2>1, <2>2, AppendNotEmpty
  <2>4. QED
    BY <1>1, <1>2, <1>3, <1>4, <2>3
<1>5. CASE w \notin Taken(queue, b)
    BY <1>1, <1>2, <1>3, <1>5
<1>6. QED
    BY <1>4, <1>5

\* No reachable state has a task waiting beside a free entry, or an entry that is
\* flagged busy with nothing under way that would clear the flag.
THEOREM WakeupsAreKept == Spec => []NoLostWakeup
<1>1. Init => NoLostWakeup
    BY DEF Init, NoLostWakeup, WaitOnlyWhenBusy, BusyMeansOutstanding
<1>2. TypeOK /\ NoLostWakeup /\ [Next]_vars => NoLostWakeup'
  <2> SUFFICES ASSUME TypeOK, NoLostWakeup, [Next]_vars
               PROVE  WaitOnlyWhenBusy' /\ BusyMeansOutstanding'
    BY DEF NoLostWakeup
  <2>1. CASE Submit
    <3>1. Append(pending, taskId) \in Seq(TaskIds)
        BY <2>1, AppendProperties DEF TypeOK, Submit, TaskIds
    <3>2. /\ Dispatch(Append(pending, taskId), busy)
          /\ busy \in [Threads -> BOOLEAN]
          /\ workers' = workers /\ thread' = thread /\ outbox' = outbox
        BY <2>1 DEF Submit, TypeOK
    <3>3. \A w \in workers : busy[w] /\ thread[w] = "running"
                                => inbox[w] # <<>> \/ outbox'[w] # <<>>
        BY <3>2 DEF NoLostWakeup, BusyMeansOutstanding
    <3>4. WaitOnlyWhenBusy'
        BY <3>1, <3>2, DispatchFillsWorkers
    <3>5. BusyMeansOutstanding'
        BY <3>1, <3>2, <3>3, DispatchPosts
    <3>6. QED
        BY <3>4, <3>5
  <2>2. ASSUME NEW u \in Threads, OnResult(u)
        PROVE  WaitOnlyWhenBusy' /\ BusyMeansOutstanding'
    <3> DEFINE cleared == [v \in Threads |-> IF v \in workers THEN FALSE ELSE busy[v]]
    <3>1. /\ Dispatch(pending, cleared)
          /\ cleared \in [Threads -> BOOLEAN]
          /\ pending \in Seq(TaskIds)
          /\ workers' = workers /\ thread' = thread
        BY <2>2 DEF OnResult, TypeOK
    <3>2. \A w \in workers : ~cleared[w]
        BY DEF TypeOK
    <3>3. WaitOnlyWhenBusy'
        BY <3>1, DispatchFillsWorkers
    <3>4. BusyMeansOutstanding'
        BY <3>1, <3>2, DispatchPosts
    <3>5. QED
        BY <3>3, <3>4
  <2>3. ASSUME NEW u \in Threads, Reply(u)
        PROVE  WaitOnlyWhenBusy' /\ BusyMeansOutstanding'
    <3>1. Append(outbox[u], Head(inbox[u])) # <<>>
      <4>1. outbox[u] \in Seq(Messages) /\ inbox[u] \in Seq(Messages) /\ inbox[u] # <<>>
        BY <2>3 DEF TypeOK, Reply
      <4>2. Head(inbox[u]) \in Messages
        BY <4>1, HeadTailProperties
      <4>3. QED
        BY <4>1, <4>2, AppendNotEmpty
    <3>2. outbox'[u] # <<>> /\ \A w \in Threads : w # u => outbox'[w] = outbox[w] /\ inbox'[w] = inbox[w]
        BY <2>3, <3>1 DEF TypeOK, Reply
    <3>3. pending' = pending /\ workers' = workers /\ busy' = busy /\ thread' = thread
        BY <2>3 DEF Reply, poolVars
    <3>4. QED
        BY <3>2, <3>3 DEF TypeOK, NoLostWakeup, WaitOnlyWhenBusy, BusyMeansOutstanding
  <2>4. ASSUME NEW u \in Threads, Throw(u)
        PROVE  WaitOnlyWhenBusy' /\ BusyMeansOutstanding'
    <3>1. /\ thread'[u] # "running"
          /\ \A w \in Threads : w # u => thread'[w] = thread[w] /\ inbox'[w] = inbox[w]
        BY <2>4 DEF TypeOK, Throw
    <3>2. pending' = pending /\ workers' = workers /\ busy' = busy /\ outbox' = outbox
        BY <2>4 DEF Throw, poolVars
    <3>3. QED
        BY <3>1, <3>2 DEF TypeOK, NoLostWakeup, WaitOnlyWhenBusy, BusyMeansOutstanding
  <2>5. CASE Terminate
    <3>1. \A w \in Threads : Append(inbox[w], Shutdown) # <<>>
      <4>1. Shutdown \in Messages /\ \A w \in Threads : inbox[w] \in Seq(Messages)
        BY DEF TypeOK, Messages
      <4>2. QED
        BY <4>1, AppendNotEmpty
    <3>2. \A w \in Threads : inbox[w] # <<>> => inbox'[w] # <<>>
        BY <2>5, <3>1 DEF Terminate
    <3>3. /\ pending' = pending /\ workers' = workers /\ busy' = busy
          /\ thread' = thread /\ outbox' = outbox
        BY <2>5 DEF Terminate, poolVars
    <3>4. QED
        BY <3>2, <3>3 DEF TypeOK, NoLostWakeup, WaitOnlyWhenBusy, BusyMeansOutstanding
  <2>6. CASE GraceOver
    BY <2>6 DEF GraceOver, poolVars, NoLostWakeup, WaitOnlyWhenBusy, BusyMeansOutstanding
  <2>7. CASE StopNext
    <3>1. /\ \A w \in Threads : w # stopNext => thread'[w] = thread[w] /\ inbox'[w] = inbox[w]
          /\ stopNext \in Threads => thread'[stopNext] # "running"
        BY <2>7 DEF TypeOK, StopNext
    <3>2. pending' = pending /\ workers' = workers /\ busy' = busy /\ outbox' = outbox
        BY <2>7 DEF StopNext, poolVars
    <3>3. QED
        BY <3>1, <3>2 DEF TypeOK, NoLostWakeup, WaitOnlyWhenBusy, BusyMeansOutstanding
  <2>8. CASE Terminated
    BY <2>8 DEF Terminated, WaitOnlyWhenBusy, BusyMeansOutstanding
  <2>9. CASE UNCHANGED vars
    BY <2>9 DEF vars, NoLostWakeup, WaitOnlyWhenBusy, BusyMeansOutstanding
  <2>10. QED
    BY <2>1, <2>2, <2>3, <2>4, <2>5, <2>6, <2>7, <2>8, <2>9 DEF Next
<1>3. QED
    BY <1>1, <1>2, TypeCorrect, PTL DEF Spec

-----------------------------------------------------------------------------
(* Tasks are handed out in submission order *)

\* The ids of S, the shutdown message left aside, are smaller than n.
Older(S, n) == \A t \in S : t # Shutdown => t < n

\* queue holds the ids from first on.
Consecutive(queue, first) == \A i \in 1..Len(queue) : queue[i] = first + i - 1

LEMMA OlderAppend ==
    ASSUME NEW s \in Seq(Messages), NEW m \in Messages, NEW n \in Nat,
           Older(Elements(s), n), m # Shutdown => m < n
    PROVE  Older(Elements(Append(s, m)), n)
<1>1. /\ Append(s, m) \in Seq(Messages)
      /\ Len(Append(s, m)) = Len(s) + 1
      /\ \A i \in 1..Len(s) : Append(s, m)[i] = s[i]
      /\ Append(s, m)[Len(s) + 1] = m
    BY AppendProperties
<1>2. /\ DOMAIN s = 1..Len(s)
      /\ DOMAIN Append(s, m) = 1..(Len(s) + 1)
      /\ Len(s) \in Nat
    BY <1>1, LenProperties
<1>3. \A i \in DOMAIN Append(s, m) : i \in DOMAIN s \/ i = Len(s) + 1
    BY <1>2
<1>4. ASSUME NEW i \in DOMAIN Append(s, m)
      PROVE  Append(s, m)[i] = m \/ Append(s, m)[i] \in Elements(s)
    BY <1>1, <1>2, <1>3 DEF Elements
<1>5. \A t \in Elements(Append(s, m)) : t = m \/ t \in Elements(s)
    BY <1>4 DEF Elements
<1>6. QED
    BY <1>5 DEF Older

LEMMA OlderHeadTail ==
    ASSUME NEW s \in Seq(Messages), s # <<>>, NEW n, Older(Elements(s), n)
    PROVE  /\ Older(Elements(Tail(s)), n)
           /\ Head(s) # Shutdown => Head(s) < n
<1>1. /\ Tail(s) \in Seq(Messages)
      /\ Len(Tail(s)) = Len(s) - 1
      /\ \A i \in 1..Len(Tail(s)) : Tail(s)[i] = s[i + 1]
    BY HeadTailProperties
<1>2. /\ DOMAIN s = 1..Len(s) /\ Len(s) \in Nat /\ Len(s) # 0
      /\ DOMAIN Tail(s) = 1..(Len(s) - 1)
    BY <1>1, LenProperties, EmptySeq
<1>3. ASSUME NEW i \in DOMAIN Tail(s) PROVE Tail(s)[i] \in Elements(s)
    BY <1>1, <1>2 DEF Elements
<1>4. Elements(Tail(s)) \subseteq Elements(s)
    BY <1>3 DEF Elements
<1>5. Head(s) \in Elements(s)
    BY <1>2 DEF Elements
<1>6. QED
    BY <1>4, <1>5 DEF Older

\* An id that is older stays older when more tasks start.
LEMMA OlderGrows ==
    ASSUME NEW S \in SUBSET Messages, NEW m \in Nat, NEW n \in Nat, m <= n, Older(S, m)
    PROVE  Older(S, n)
<1>1. SUFFICES ASSUME NEW t \in S, t # Shutdown PROVE t < n
    BY DEF Older
<1>2. t \in Nat /\ t < m
    BY <1>1 DEF Messages, TaskIds, Older
<1>3. QED
    BY <1>2

\* FifoOrder in those terms.
Posted == /\ \A w \in Threads : Older(Elements(inbox[w]), Started)
          /\ \A w \in Threads : Older(Elements(outbox[w]), Started)
          /\ Older(returned, Started)
          /\ Older(lost, Started)

LEMMA FifoIsPosted ==
    ASSUME returned \subseteq TaskIds, lost \subseteq TaskIds
    PROVE  FifoOrder <=> Len(pending) <= taskId /\ Consecutive(pending, Started) /\ Posted
<1>1. \A t \in TaskIds : t # Shutdown
    BY DEF TaskIds
<1>2. \A t \in returned \cup lost : t # Shutdown
    BY <1>1
<1>3. PostedIsOlder <=> Posted
    BY <1>2 DEF PostedIsOlder, Posted, Older, Held
<1>4. QED
    BY <1>3 DEF FifoOrder, QueueIsNewest, Consecutive

LEMMA PostedIsFifo ==
    ASSUME returned' \subseteq TaskIds, lost' \subseteq TaskIds,
           Len(pending') <= taskId', Consecutive(pending', Started'), Posted'
    PROVE  FifoOrder'
<1>1. \A t \in returned' \cup lost' : t # Shutdown
    BY DEF TaskIds
<1>2. PostedIsOlder'
    BY <1>1 DEF PostedIsOlder, Posted, Older, Held
<1>3. QED
    BY <1>2 DEF FifoOrder, QueueIsNewest, Consecutive

\* dispatch() of the ids from first to taskId' - 1 posts the oldest of them and
\* keeps the others in their order.
LEMMA DispatchInOrder ==
    ASSUME TypeOK, NEW queue \in Seq(TaskIds), NEW b \in [Threads -> BOOLEAN],
           Dispatch(queue, b),
           NEW first \in Nat, Consecutive(queue, first), taskId' = first + Len(queue),
           \A w \in Threads : Older(Elements(inbox[w]), first),
           Older(lost, first)
    PROVE  /\ Len(pending') <= taskId'
           /\ Consecutive(pending', Started')
           /\ first <= Started' /\ Started' \in Nat
           /\ \A w \in Threads : Older(Elements(inbox'[w]), Started')
           /\ Older(lost', Started')
<1> DEFINE c == Cardinality(Free(b))
           task(w) == queue[Rank(w, Free(b))]
<1>1. /\ c \in Nat
      /\ \A w \in Taken(queue, b) : /\ w \in Threads
                                    /\ Rank(w, Free(b)) \in 1..c
                                    /\ Rank(w, Free(b)) \in 1..Len(queue)
                                    /\ task(w) \in TaskIds
    BY TakenTasks DEF TypeOK
<1>2. Len(queue) \in Nat /\ \A i \in 1..Len(queue) : queue[i] \in TaskIds
    BY LenProperties, ElementOfSeq
<1>3. /\ pending' = SubSeq(queue, c + 1, Len(queue))
      /\ inbox' = [w \in Threads |-> IF w \in Taken(queue, b) /\ thread[w] = "running"
                                     THEN Append(inbox[w], task(w)) ELSE inbox[w]]
      /\ lost' = lost \cup {task(w) : w \in {v \in Taken(queue, b) : ~(thread[v] = "running")}}
    BY DEF Dispatch, Taken, Free
<1>4. /\ Len(pending') = IF c + 1 <= Len(queue) THEN Len(queue) - c ELSE 0
      /\ \A i \in 1..(Len(queue) - c) : pending'[i] = queue[c + i]
  <2>1. \A i \in (c + 1)..Len(queue) : queue[i] \in TaskIds
    BY <1>1, <1>2
  <2>2. /\ Len(pending') = IF c + 1 <= Len(queue) THEN Len(queue) - (c + 1) + 1 ELSE 0
        /\ \A i \in 1..(Len(queue) - (c + 1) + 1) : pending'[i] = queue[(c + 1) + i - 1]
    <3>1. c + 1 \in Int /\ Len(queue) \in Int
      BY <1>1, <1>2
    <3>2. pending' = SubSeq(queue, c + 1, Len(queue))
      BY <1>3
    <3>3. QED
      BY <2>1, <3>1, <3>2, SubSeqProperties
  <2>3. QED
    <3>1. c \in Nat /\ Len(queue) \in Nat
      BY <1>1, <1>2
    <3>2. Len(pending') = IF c + 1 <= Len(queue) THEN Len(queue) - c ELSE 0
      BY <2>2, <3>1
    <3>3. ASSUME NEW i \in 1..(Len(queue) - c) PROVE pending'[i] = queue[c + i]
      <4>1. i \in 1..(Len(queue) - (c + 1) + 1) /\ (c + 1) + i - 1 = c + i
        BY <3>1
      <4>2. QED
        BY <2>2, <4>1
    <3>4. QED
      BY <3>2, <3>3
<1>5. /\ Len(pending') \in Nat /\ Len(pending') <= Len(queue)
      /\ Len(pending') <= taskId'
      /\ Started' = first + (Len(queue) - Len(pending'))
      /\ Len(queue) - Len(pending') = IF c + 1 <= Len(queue) THEN c ELSE Len(queue)
    BY <1>1, <1>2, <1>4 DEF Started
<1>6. first <= Started' /\ Started' \in Nat
    BY <1>2, <1>5
<1>7. Consecutive(pending', Started')
  <2>1. SUFFICES ASSUME NEW i \in 1..Len(pending') PROVE pending'[i] = Started' + i - 1
    BY DEF Consecutive
  <2>2. c + 1 <= Len(queue) /\ i \in 1..(Len(queue) - c) /\ c + i \in 1..Len(queue)
    BY <1>1, <1>2, <1>4
  <2>3. pending'[i] = queue[c + i] /\ queue[c + i] = first + (c + i) - 1
    BY <1>4, <2>2 DEF Consecutive
  <2>4. Started' = first + c
    BY <1>5, <2>2
  <2>5. first + (c + i) - 1 = (first + c) + i - 1
    <3>1. c \in Nat /\ i \in Int
      BY <1>1
    <3>2. QED
      BY <3>1
  <2>6. QED
    BY <2>3, <2>4, <2>5
<1>8. ASSUME NEW w \in Taken(queue, b) PROVE task(w) < Started'
  <2>1. task(w) = first + Rank(w, Free(b)) - 1
    BY <1>1, <1>8 DEF Consecutive
  <2>2. Rank(w, Free(b)) \in Nat /\ Rank(w, Free(b)) <= c /\ Rank(w, Free(b)) <= Len(queue)
    BY <1>1, <1>2, <1>8
  <2>3. Started' = first + c \/ Started' = first + Len(queue)
    BY <1>5
  <2>4. QED
    BY <1>1, <1>2, <2>1, <2>2, <2>3
<1>9. ASSUME NEW w \in Threads PROVE Older(Elements(inbox'[w]), Started')
  <2>1. inbox[w] \in Seq(Messages)
    BY DEF TypeOK
  <2>2. Older(Elements(inbox[w]), Started')
    BY <1>6, <2>1, ElementsType, OlderGrows DEF Messages, Older, TaskIds, Elements
  <2>3. CASE w \in Taken(queue, b) /\ thread[w] = "running"
    BY <1>1, <1>3, <1>6, <1>8, <2>1, <2>2, <2>3, OlderAppend DEF Messages
  <2>4. CASE ~(w \in Taken(queue, b) /\ thread[w] = "running")
    BY <1>3, <2>2, <2>4
  <2>5. QED
    BY <2>3, <2>4
<1>10. Older(lost', Started')
  <2>1. Older(lost, Started')
    BY <1>6, OlderGrows DEF TypeOK, Messages
  <2>2. \A t \in lost' : t \in lost \/ \E w \in Taken(queue, b) : t = task(w)
    BY <1>3
  <2>3. QED
    BY <1>8, <2>1, <2>2 DEF Older
<1>11. QED
    BY <1>5, <1>6, <1>7, <1>9, <1>10

LEMMA SubmitFifo == TypeOK /\ FifoOrder /\ Submit => FifoOrder'
<1> SUFFICES ASSUME TypeOK, FifoOrder, Submit PROVE FifoOrder'
    OBVIOUS
<1> DEFINE queue == Append(pending, taskId)
<1>1. taskId \in TaskIds /\ pending \in Seq(TaskIds) /\ Len(pending) \in Nat
    BY LenProperties DEF TypeOK, Submit, TaskIds
<1>2. /\ queue \in Seq(TaskIds)
      /\ Len(queue) = Len(pending) + 1
      /\ \A i \in 1..Len(pending) : queue[i] = pending[i]
      /\ queue[Len(pending) + 1] = taskId
    BY <1>1, AppendProperties
<1>3. Len(pending) <= taskId /\ Consecutive(pending, Started) /\ Posted
    BY FifoIsPosted DEF TypeOK
<1>4. Started \in Nat /\ taskId' = Started + Len(queue)
    BY <1>1, <1>2, <1>3 DEF Started, Submit, TaskIds
<1>5. Consecutive(queue, Started)
  <2>1. SUFFICES ASSUME NEW i \in 1..Len(queue) PROVE queue[i] = Started + i - 1
    BY DEF Consecutive
  <2>2. CASE i \in 1..Len(pending)
    BY <1>2, <1>3, <2>2 DEF Consecutive
  <2>3. CASE i = Len(pending) + 1
    BY <1>1, <1>2, <2>3 DEF Started, TaskIds
  <2>4. QED
    BY <1>1, <1>2, <2>2, <2>3
<1>6. Dispatch(queue, busy) /\ busy \in [Threads -> BOOLEAN]
    BY DEF Submit, TypeOK
<1>7. /\ Len(pending') <= taskId'
      /\ Consecutive(pending', Started')
      /\ Started <= Started' /\ Started' \in Nat
      /\ \A w \in Threads : Older(Elements(inbox'[w]), Started')
      /\ Older(lost', Started')
    BY <1>2, <1>3, <1>4, <1>5, <1>6, DispatchInOrder DEF Posted
<1>8. outbox' = outbox /\ returned' = returned
    BY DEF Submit
<1>9. /\ \A w \in Threads : Older(Elements(outbox'[w]), Started')
      /\ Older(returned', Started')
  <2>1. \A w \in Threads : Elements(outbox[w]) \in SUBSET Messages
    BY ElementsType DEF TypeOK, Messages
  <2>2. returned \in SUBSET Messages
    BY DEF TypeOK, Messages
  <2>3. QED
    BY <1>3, <1>4, <1>7, <1>8, <2>1, <2>2, OlderGrows DEF Posted
<1>10. returned' \subseteq TaskIds /\ lost' \subseteq TaskIds
    BY SubmitType DEF TypeOK
<1>11. Posted'
    BY <1>7, <1>9 DEF Posted
<1>12. QED
    BY <1>7, <1>10, <1>11, PostedIsFifo

\* A reply is older than the queue: clearing the flags and dispatching again
\* hands out the oldest ids.
LEMMA OnResultFifo ==
    ASSUME TypeOK, FifoOrder, NEW u \in Threads, OnResult(u)
    PROVE  FifoOrder'
<1> DEFINE cleared == [v \in Threads |-> IF v \in workers THEN FALSE ELSE busy[v]]
<1>1. /\ Dispatch(pending, cleared)
      /\ cleared \in [Threads -> BOOLEAN]
      /\ pending \in Seq(TaskIds) /\ Len(pending) \in Nat
      /\ taskId' = taskId /\ taskId \in Nat
  <2>1. Dispatch(pending, cleared) /\ cleared \in [Threads -> BOOLEAN] /\ taskId' = taskId
    BY DEF OnResult, TypeOK
  <2>2. pending \in Seq(TaskIds) /\ taskId \in Nat
    BY DEF TypeOK
  <2>3. QED
    BY <2>1, <2>2, LenProperties
<1>2. Len(pending) <= taskId /\ Consecutive(pending, Started) /\ Posted
    BY FifoIsPosted DEF TypeOK
<1>3. Started \in Nat /\ taskId' = Started + Len(pending)
    BY <1>1, <1>2 DEF Started
<1>4. /\ Len(pending') <= taskId'
      /\ Consecutive(pending', Started')
      /\ Started <= Started' /\ Started' \in Nat
      /\ \A w \in Threads : Older(Elements(inbox'[w]), Started')
      /\ Older(lost', Started')
    BY <1>1, <1>2, <1>3, DispatchInOrder DEF Posted
<1>5. /\ outbox \in [Threads -> Seq(Messages)]
      /\ outbox[u] \in Seq(Messages) /\ outbox[u] # <<>>
      /\ outbox' = [outbox EXCEPT ![u] = Tail(outbox[u])]
      /\ returned' = returned \cup ({Head(outbox[u])} \ {Shutdown})
    BY DEF OnResult, TypeOK
<1>6. TypeOK'
    BY OnResultType
<1>7. /\ \A w \in Threads : Elements(outbox'[w]) \in SUBSET Messages
      /\ returned' \in SUBSET Messages
    BY <1>6, ElementsType DEF TypeOK, Messages
<1>8. /\ \A w \in Threads : Older(Elements(outbox'[w]), Started)
      /\ Older(returned', Started)
  <2>1. Older(Elements(Tail(outbox[u])), Started) /\ (Head(outbox[u]) # Shutdown => Head(outbox[u]) < Started)
    BY <1>2, <1>5, OlderHeadTail DEF Posted
  <2>2. QED
    BY <1>2, <1>5, <2>1 DEF Posted, Older
<1>9. Posted'
    BY <1>3, <1>4, <1>7, <1>8, OlderGrows DEF Posted
<1>10. returned' \subseteq TaskIds /\ lost' \subseteq TaskIds
    BY <1>6 DEF TypeOK
<1>11. QED
    BY <1>4, <1>9, <1>10, PostedIsFifo

\* Threads answer, or die with, tasks that were posted; the shutdown message is
\* not a task.
LEMMA ThreadsFifo ==
    ASSUME TypeOK, FifoOrder, NEW u \in Threads,
           Reply(u) \/ Throw(u) \/ Terminate \/ StopNext
    PROVE  FifoOrder'
<1>1. /\ taskId' = taskId /\ pending' = pending /\ Started' = Started
      /\ Started \in Nat
      /\ Len(pending) <= taskId /\ Consecutive(pending, Started) /\ Posted
  <2>1. Len(pending) <= taskId /\ Consecutive(pending, Started) /\ Posted
    BY FifoIsPosted DEF TypeOK
  <2>2. taskId \in Nat /\ Len(pending) \in Nat
    BY LenProperties DEF TypeOK
  <2>3. taskId' = taskId /\ pending' = pending
    BY DEF Reply, Throw, Terminate, StopNext, poolVars
  <2>4. QED
    BY <2>1, <2>2, <2>3 DEF Started
<1>2. \A w \in Threads : inbox[w] \in Seq(Messages) /\ outbox[w] \in Seq(Messages)
    BY DEF TypeOK
<1>3. Older(Elements(<<>>), Started)
    BY DEF Older, Elements
<1>4. CASE Reply(u)
  <2>1. inbox[u] # <<>> /\ Head(inbox[u]) \in Messages
    BY <1>2, <1>4, HeadTailProperties DEF Reply
  <2>2. /\ Older(Elements(Tail(inbox[u])), Started)
        /\ Older(Elements(Append(outbox[u], Head(inbox[u]))), Started)
    BY <1>1, <1>2, <2>1, OlderHeadTail, OlderAppend DEF Posted
  <2>3. Posted'
    BY <1>1, <1>4, <2>2 DEF Posted, Reply, TypeOK
  <2>4. QED
    BY <1>1, <1>4, <2>3, ReplyType, PostedIsFifo DEF TypeOK
<1>5. CASE Throw(u)
  <2>1. Older(lost', Started)
    BY <1>1, <1>5 DEF Posted, Older, Throw
  <2>2. Posted'
    BY <1>1, <1>3, <1>5, <2>1 DEF Posted, Throw, TypeOK
  <2>3. QED
    BY <1>1, <1>5, <2>2, ThrowType, PostedIsFifo DEF TypeOK
<1>6. CASE Terminate
  <2>1. \A w \in Threads : Older(Elements(Append(inbox[w], Shutdown)), Started)
    BY <1>1, <1>2, OlderAppend DEF Posted, Messages
  <2>2. Posted'
    BY <1>1, <1>6, <2>1 DEF Posted, Terminate
  <2>3. QED
    BY <1>1, <1>6, <2>2, TerminateType, PostedIsFifo DEF TypeOK
<1>7. CASE StopNext
  <2>1. stopNext \in Threads
    BY <1>7 DEF StopNext, TypeOK, Threads
  <2>2. Older(lost', Started)
    BY <1>1, <1>7, <2>1 DEF Posted, Older, StopNext
  <2>3. Posted'
    BY <1>1, <1>3, <1>7, <2>1, <2>2 DEF Posted, StopNext, TypeOK
  <2>4. QED
    BY <1>1, <1>7, <2>3, StopNextType, PostedIsFifo DEF TypeOK
<1>8. QED
    BY <1>4, <1>5, <1>6, <1>7

\* dispatch() hands tasks out strictly in submission order, whatever the order
\* in which threads answer or die: what waits is always the newest ids, and all
\* that was posted, answered or lost is older.
THEOREM OrderIsKept == Spec => []FifoOrder
<1>1. Init => FifoOrder
  <2> SUFFICES ASSUME Init PROVE FifoOrder
    OBVIOUS
  <2>1. Elements(<<>>) = {}
    BY DEF Elements
  <2>2. taskId = 0 /\ Len(pending) = 0 /\ Started = 0
    <3>1. pending = <<>>
        BY DEF Init
    <3>2. Len(<<>>) = 0
        BY <<>> \in Seq(TaskIds), EmptySeq
    <3>3. Len(pending) = 0
        BY <3>1, <3>2, Zenon
    <3>4. taskId = 0
        BY DEF Init
    <3>5. QED
        BY <3>3, <3>4 DEF Started
  <2>3. QED
    BY <2>1, <2>2 DEF Init, FifoOrder, QueueIsNewest, PostedIsOlder, Held
<1>2. TypeOK /\ FifoOrder /\ [Next]_vars => FifoOrder'
  <2> SUFFICES ASSUME TypeOK, FifoOrder, [Next]_vars PROVE FifoOrder'
    OBVIOUS
  <2>1. CASE Submit
    BY <2>1, SubmitFifo
  <2>2. ASSUME NEW u \in Threads, OnResult(u) PROVE FifoOrder'
    BY <2>2, OnResultFifo
  <2>3. ASSUME NEW u \in Threads, Reply(u) \/ Throw(u) PROVE FifoOrder'
    BY <2>3, ThreadsFifo
  <2>4. CASE Terminate
    <3>1. CASE Threads # {}
        BY <2>4, <3>1, ThreadsFifo
    <3>2. CASE Threads = {}
        BY <2>4, <3>2 DEF Terminate, poolVars, FifoOrder, QueueIsNewest, PostedIsOlder, Held, Started
    <3>3. QED
        BY <3>1, <3>2
  <2>5. CASE StopNext
    <3>1. stopNext \in Threads
        BY <2>5 DEF StopNext, TypeOK, Threads
    <3>2. QED
        BY <2>5, <3>1, ThreadsFifo
  <2>6. CASE GraceOver \/ Terminated \/ UNCHANGED vars
    BY <2>6 DEF GraceOver, Terminated, vars, poolVars, FifoOrder, QueueIsNewest,
                PostedIsOlder, Held, Started
  <2>7. QED
    BY <2>1, <2>2, <2>3, <2>4, <2>5, <2>6 DEF Next
<1>3. QED
    BY <1>1, <1>2, TypeCorrect, PTL DEF Spec

-----------------------------------------------------------------------------
(* Every task is in one place *)

\* No id occurs twice in s; the ids of s.
Once(s) == \A i, j \in DOMAIN s : s[i] = s[j] /\ i # j => s[i] = Shutdown
Ids(s) == Elements(s) \ {Shutdown}

LEMMA EmptyOnce == Once(<<>>) /\ Ids(<<>>) = {}
BY DEF Once, Ids, Elements

LEMMA AppendOnce ==
    ASSUME NEW s \in Seq(Messages), NEW m \in Messages
    PROVE  /\ Ids(Append(s, m)) = Ids(s) \cup ({m} \ {Shutdown})
           /\ Once(s) /\ m \notin Ids(s) => Once(Append(s, m))
<1> DEFINE r == Append(s, m)
<1>1. /\ r \in Seq(Messages) /\ Len(r) = Len(s) + 1 /\ Len(s) \in Nat
      /\ \A i \in 1..Len(s) : r[i] = s[i]
      /\ r[Len(s) + 1] = m
    BY AppendProperties, LenProperties
<1>2. DOMAIN s = 1..Len(s) /\ DOMAIN r = 1..(Len(s) + 1)
    BY <1>1, LenProperties
<1> HIDE DEF r
<1>3. \A i \in DOMAIN r : i \in DOMAIN s \/ i = Len(s) + 1
    BY <1>1, <1>2
<1>4. (\A i \in DOMAIN s : i \in DOMAIN r /\ r[i] = s[i]) /\ Len(s) + 1 \in DOMAIN r
    BY <1>1, <1>2
<1>5. Elements(r) = Elements(s) \cup {m}
  <2>1. \A i \in DOMAIN r : r[i] \in Elements(s) \cup {m}
    BY <1>1, <1>3, <1>4 DEF Elements
  <2>2. \A i \in DOMAIN s : s[i] \in Elements(r)
    BY <1>4 DEF Elements
  <2>3. m \in Elements(r)
    BY <1>1, <1>4 DEF Elements
  <2>4. Elements(r) \subseteq Elements(s) \cup {m}
    BY <2>1 DEF Elements
  <2>5. Elements(s) \subseteq Elements(r)
    BY <2>2 DEF Elements
  <2>6. QED
    BY <2>3, <2>4, <2>5
<1>6. ASSUME Once(s), m \notin Ids(s) PROVE Once(r)
  <2>1. SUFFICES ASSUME NEW i \in DOMAIN r, NEW j \in DOMAIN r, r[i] = r[j], i # j, r[i] # Shutdown
                 PROVE  FALSE
    BY DEF Once
  <2>2. \A k \in DOMAIN s : s[k] # Shutdown => s[k] # m
    BY <1>6 DEF Ids, Elements
  <2>3. CASE i \in DOMAIN s /\ j \in DOMAIN s
    BY <1>4, <1>6, <2>1, <2>3 DEF Once
  <2>4. CASE i \in DOMAIN s /\ j = Len(s) + 1
    BY <1>1, <1>4, <2>1, <2>2, <2>4
  <2>5. CASE j \in DOMAIN s /\ i = Len(s) + 1
    BY <1>1, <1>4, <2>1, <2>2, <2>5
  <2>6. QED
    BY <1>3, <2>1, <2>3, <2>4, <2>5
<1>7. QED
    BY <1>5, <1>6 DEF Ids, r

LEMMA HeadTailOnce ==
    ASSUME NEW s \in Seq(Messages), s # <<>>
    PROVE  /\ Ids(s) = Ids(Tail(s)) \cup ({Head(s)} \ {Shutdown})
           /\ Once(s) => Once(Tail(s)) /\ Head(s) \notin Ids(Tail(s))
<1> DEFINE r == Tail(s)
<1>1. /\ r \in Seq(Messages) /\ Len(r) = Len(s) - 1
      /\ \A i \in 1..Len(r) : r[i] = s[i + 1]
      /\ Head(s) = s[1]
    BY HeadTailProperties
<1>2. /\ DOMAIN s = 1..Len(s) /\ Len(s) \in Nat /\ Len(s) # 0
      /\ DOMAIN r = 1..(Len(s) - 1)
    BY <1>1, LenProperties, EmptySeq
<1> HIDE DEF r
<1>3. /\ 1 \in DOMAIN s
      /\ \A i \in DOMAIN r : i + 1 \in DOMAIN s /\ i + 1 # 1 /\ r[i] = s[i + 1] /\ i \in Nat
    BY <1>1, <1>2
<1>4. \A i \in DOMAIN s : i = 1 \/ (i - 1 \in DOMAIN r /\ s[i] = r[i - 1])
    BY <1>1, <1>2
<1>5. Elements(s) = Elements(r) \cup {Head(s)}
  <2>1. \A i \in DOMAIN s : s[i] \in Elements(r) \cup {Head(s)}
    BY <1>1, <1>4 DEF Elements
  <2>2. \A i \in DOMAIN r : r[i] \in Elements(s)
    BY <1>3 DEF Elements
  <2>3. Head(s) \in Elements(s)
    BY <1>1, <1>3 DEF Elements
  <2>4. Elements(s) \subseteq Elements(r) \cup {Head(s)}
    BY <2>1 DEF Elements
  <2>5. Elements(r) \subseteq Elements(s)
    BY <2>2 DEF Elements
  <2>6. QED
    BY <2>3, <2>4, <2>5
<1>6. ASSUME Once(s) PROVE Once(r)
  <2>1. SUFFICES ASSUME NEW i \in DOMAIN r, NEW j \in DOMAIN r, r[i] = r[j], i # j
                 PROVE  r[i] = Shutdown
    BY DEF Once
  <2>2. i + 1 # j + 1
    BY <1>3, <2>1
  <2>3. QED
    BY <1>3, <1>6, <2>1, <2>2 DEF Once
<1>7. ASSUME Once(s) PROVE Head(s) \notin Ids(r)
  <2>1. SUFFICES ASSUME NEW i \in DOMAIN r, r[i] = Head(s) PROVE Head(s) = Shutdown
    BY DEF Ids, Elements
  <2>2. QED
    BY <1>1, <1>3, <1>7, <2>1 DEF Once
<1>8. QED
    BY <1>5, <1>6, <1>7 DEF Ids, r

\* Two channels without repetition and without a common id have none together.
LEMMA ConcatOnce ==
    ASSUME NEW a \in Seq(Messages), NEW b \in Seq(Messages),
           Once(a), Once(b), Ids(a) \cap Ids(b) = {}
    PROVE  Once(a \o b)
<1>1. /\ a \o b \in Seq(Messages) /\ Len(a \o b) = Len(a) + Len(b)
      /\ \A i \in 1..(Len(a) + Len(b)) : (a \o b)[i] = IF i <= Len(a) THEN a[i] ELSE b[i - Len(a)]
    BY ConcatProperties
<1>2. /\ DOMAIN a = 1..Len(a) /\ Len(a) \in Nat
      /\ DOMAIN b = 1..Len(b) /\ Len(b) \in Nat
      /\ DOMAIN (a \o b) = 1..(Len(a) + Len(b))
    BY <1>1, LenProperties
<1> DEFINE r == a \o b
<1>3. \A i \in DOMAIN r :
         \/ i \in DOMAIN a /\ r[i] = a[i]
         \/ i - Len(a) \in DOMAIN b /\ r[i] = b[i - Len(a)] /\ i \in Int
    BY <1>1, <1>2
<1> HIDE DEF r
<1>4. SUFFICES ASSUME NEW i \in DOMAIN r, NEW j \in DOMAIN r, r[i] = r[j], i # j, r[i] # Shutdown
               PROVE  FALSE
    BY DEF Once, r
<1>5. \A k \in DOMAIN a, l \in DOMAIN b : a[k] = b[l] => a[k] = Shutdown
    BY DEF Ids, Elements
<1>6. CASE i \in DOMAIN a /\ r[i] = a[i]
  <2>1. CASE j \in DOMAIN a /\ r[j] = a[j]
    BY <1>4, <1>6, <2>1 DEF Once
  <2>2. CASE j - Len(a) \in DOMAIN b /\ r[j] = b[j - Len(a)]
    BY <1>4, <1>5, <1>6, <2>2
  <2>3. QED
    BY <1>3, <2>1, <2>2
<1>7. CASE i - Len(a) \in DOMAIN b /\ r[i] = b[i - Len(a)] /\ i \in Int
  <2>1. CASE j \in DOMAIN a /\ r[j] = a[j]
    BY <1>4, <1>5, <1>7, <2>1
  <2>2. CASE j - Len(a) \in DOMAIN b /\ r[j] = b[j - Len(a)] /\ j \in Int
    <3>1. i - Len(a) # j - Len(a)
      BY <1>2, <1>4, <1>7, <2>2
    <3>2. QED
      BY <1>4, <1>7, <2>2, <3>1 DEF Once
  <2>3. QED
    BY <1>3, <2>1, <2>2
<1>8. QED
    BY <1>3, <1>6, <1>7

\* in and out give the ids in the two channels of each thread: no id is in two
\* places, and each that left the queue is in one.
Apart(in, out, ret, gone) ==
    /\ \A w \in Threads : in[w] \cap out[w] = {}
    /\ \A v, w \in Threads : v # w => (in[v] \cup out[v]) \cap (in[w] \cup out[w]) = {}
    /\ \A w \in Threads : (in[w] \cup out[w]) \cap (ret \cup gone) = {}
    /\ ret \cap gone = {}
Kept(in, out, ret, gone, n) ==
    \A t \in TaskIds : t < n =>
        t \in ret \/ t \in gone \/ \E w \in Threads : t \in in[w] \/ t \in out[w]
Placed(in, out, ret, gone, n) == Apart(in, out, ret, gone) /\ Kept(in, out, ret, gone, n)

\* What leaves the inbox of a thread goes to its outbox.
LEMMA AnsweredPlaced ==
    ASSUME NEW in, NEW out, NEW ret, NEW gone, NEW n, Placed(in, out, ret, gone, n),
           NEW in2, NEW out2,
           \A w \in Threads : in2[w] \subseteq in[w],
           \A w \in Threads : out2[w] = out[w] \cup (in[w] \ in2[w])
    PROVE  Placed(in2, out2, ret, gone, n)
<1>1. \A w \in Threads : in2[w] \cup out2[w] = in[w] \cup out[w]
    OBVIOUS
<1>2. \A w \in Threads : in2[w] \cap out2[w] = {}
    BY DEF Placed, Apart
<1>3. Apart(in2, out2, ret, gone)
    BY <1>1, <1>2 DEF Placed, Apart
<1>4. Kept(in2, out2, ret, gone, n)
    BY <1>1 DEF Placed, Kept
<1>5. QED
    BY <1>3, <1>4 DEF Placed

\* The pool receives the ids S of the outbox of u.
LEMMA ReturnedPlaced ==
    ASSUME NEW in, NEW out, NEW ret, NEW gone, NEW n, Placed(in, out, ret, gone, n),
           NEW u \in Threads, NEW S \in SUBSET out[u], NEW out2,
           \A w \in Threads : out2[w] = IF w = u THEN out[w] \ S ELSE out[w]
    PROVE  Placed(in, out2, ret \cup S, gone, n)
<1>1. \A w \in Threads : out2[w] \subseteq out[w] /\ (w # u => S \cap (in[w] \cup out2[w]) = {})
    BY DEF Placed, Apart
<1>2. S \cap (in[u] \cup out2[u]) = {} /\ S \cap gone = {}
    BY DEF Placed, Apart
<1>3. Apart(in, out2, ret \cup S, gone)
    BY <1>1, <1>2 DEF Placed, Apart
<1>4. Kept(in, out2, ret \cup S, gone, n)
    BY DEF Placed, Kept
<1>5. QED
    BY <1>3, <1>4 DEF Placed

\* The thread u goes away with what is in its inbox.
LEMMA DroppedPlaced ==
    ASSUME NEW in, NEW out, NEW ret, NEW gone, NEW n, Placed(in, out, ret, gone, n),
           NEW u \in Threads, NEW in2,
           \A w \in Threads : in2[w] = IF w = u THEN {} ELSE in[w]
    PROVE  Placed(in2, out, ret, gone \cup in[u], n)
<1>1. \A w \in Threads : in2[w] \subseteq in[w] /\ in[u] \cap (in2[w] \cup out[w]) = {}
    BY DEF Placed, Apart
<1>2. in[u] \cap ret = {}
    BY DEF Placed, Apart
<1>3. Apart(in2, out, ret, gone \cup in[u])
    BY <1>1, <1>2 DEF Placed, Apart
<1>4. Kept(in2, out, ret, gone \cup in[u], n)
    BY DEF Placed, Kept
<1>5. QED
    BY <1>3, <1>4 DEF Placed

\* New ids are posted or lost: those of no other place, no two the same.
LEMMA PostedPlaced ==
    ASSUME NEW in, NEW out, NEW ret, NEW gone, NEW n, NEW m, Placed(in, out, ret, gone, n),
           NEW new, NEW dropped, NEW in2,
           \A w \in Threads : in2[w] = in[w] \cup new[w],
           \A v, w \in Threads : new[v] \cap (in[w] \cup out[w]) = {},
           \A w \in Threads : dropped \cap (in[w] \cup out[w]) = {},
           \A v, w \in Threads : v # w => new[v] \cap new[w] = {},
           \A w \in Threads : new[w] \cap (ret \cup gone \cup dropped) = {},
           dropped \cap ret = {},
           \A t \in TaskIds : t < m => t < n \/ t \in dropped \/ \E w \in Threads : t \in new[w]
    PROVE  Placed(in2, out, ret, gone \cup dropped, m)
<1>1. \A w \in Threads : in2[w] \cap out[w] = {}
    BY DEF Placed, Apart
<1>2. ASSUME NEW v \in Threads, NEW w \in Threads, v # w
      PROVE  (in2[v] \cup out[v]) \cap (in2[w] \cup out[w]) = {}
  <2>1. (in[v] \cup out[v]) \cap (in[w] \cup out[w]) = {}
    BY <1>2 DEF Placed, Apart
  <2>2. /\ new[v] \cap (in[w] \cup out[w]) = {}
        /\ new[w] \cap (in[v] \cup out[v]) = {}
        /\ new[v] \cap new[w] = {}
    BY <1>2
  <2>3. QED
    BY <2>1, <2>2
<1>3. ASSUME NEW w \in Threads
      PROVE  (in2[w] \cup out[w]) \cap (ret \cup (gone \cup dropped)) = {}
  <2>1. (in[w] \cup out[w]) \cap (ret \cup gone) = {}
    BY DEF Placed, Apart
  <2>2. QED
    BY <2>1
<1>4. ret \cap (gone \cup dropped) = {}
    BY DEF Placed, Apart
<1>5. Apart(in2, out, ret, gone \cup dropped)
    BY <1>1, <1>2, <1>3, <1>4 DEF Apart
<1>6. Kept(in2, out, ret, gone \cup dropped, m)
    BY DEF Placed, Kept
<1>7. QED
    BY <1>5, <1>6 DEF Placed

-----------------------------------------------------------------------------
(* Conservation is kept *)

Inboxes == [w \in Threads |-> Ids(inbox[w])]
Outboxes == [w \in Threads |-> Ids(outbox[w])]
OnceEach == \A w \in Threads : Once(inbox[w]) /\ Once(outbox[w])
Conserved == OnceEach /\ Placed(Inboxes, Outboxes, returned, lost, Started)

LEMMA ConservedIsConservation == TypeOK /\ Conserved => Conservation
<1> SUFFICES ASSUME TypeOK, Conserved PROVE Conservation
    OBVIOUS
<1>1. \A w \in Threads : Held(w) = Inboxes[w] \cup Outboxes[w]
    BY DEF Held, Inboxes, Outboxes, Ids
<1>2. ASSUME NEW w \in Threads PROVE HeldOnce(w)
  <2>1. /\ inbox[w] \in Seq(Messages) /\ outbox[w] \in Seq(Messages)
        /\ Once(inbox[w]) /\ Once(outbox[w])
        /\ Ids(inbox[w]) \cap Ids(outbox[w]) = {}
    BY DEF TypeOK, Conserved, OnceEach, Placed, Apart, Inboxes, Outboxes
  <2>2. Once(inbox[w] \o outbox[w])
    BY <2>1, ConcatOnce
  <2>3. QED
    BY <2>2 DEF HeldOnce, Once
<1>3. /\ \A v, w \in Threads : v # w => Held(v) \cap Held(w) = {}
      /\ \A w \in Threads : Held(w) \cap (returned \cup lost) = {}
      /\ returned \cap lost = {}
    BY <1>1 DEF Conserved, Placed, Apart
<1>4. ASSUME NEW t \in TaskIds, t < Started
      PROVE  t \in returned \cup lost \cup UNION {Held(w) : w \in Threads}
  <2>1. t \in returned \/ t \in lost \/ \E w \in Threads : t \in Held(w)
    BY <1>1, <1>4 DEF Conserved, Placed, Kept
  <2>2. QED
    BY <2>1
<1>5. QED
    BY <1>2, <1>3, <1>4 DEF Conservation

\* dispatch() puts each id it takes off the queue into one channel, or loses it
\* with a dead thread.
LEMMA DispatchPlaced ==
    ASSUME TypeOK, NEW queue \in Seq(TaskIds), NEW b \in [Threads -> BOOLEAN],
           Dispatch(queue, b),
           NEW first \in Nat, Consecutive(queue, first), taskId' = first + Len(queue),
           \A w \in Threads : Older(Elements(inbox[w]), first), Older(lost, first),
           NEW out, NEW ret \in SUBSET TaskIds, Older(ret, first),
           \A w \in Threads : out[w] \in SUBSET TaskIds /\ Older(out[w], first),
           \A w \in Threads : Once(inbox[w]),
           Placed(Inboxes, out, ret, lost, first)
    PROVE  /\ \A w \in Threads : Once(inbox'[w])
           /\ Placed(Inboxes', out, ret, lost', Started')
<1> DEFINE F == Free(b)
           c == Cardinality(F)
           T == Taken(queue, b)
           task(w) == queue[Rank(w, F)]
           new == [w \in Threads |-> IF w \in T /\ thread[w] = "running" THEN {task(w)} ELSE {}]
           dropped == {task(w) : w \in {v \in T : ~(thread[v] = "running")}}
<1>1. /\ F \in SUBSET Threads /\ c \in Nat
      /\ \A w \in T : /\ w \in Threads
                      /\ Rank(w, F) \in 1..c
                      /\ Rank(w, F) \in 1..Len(queue)
                      /\ task(w) \in TaskIds
    BY TakenTasks DEF TypeOK
<1>2. Len(queue) \in Nat /\ \A i \in 1..Len(queue) : queue[i] \in TaskIds
    BY LenProperties, ElementOfSeq
<1>3. /\ pending' = SubSeq(queue, c + 1, Len(queue))
      /\ inbox' = [w \in Threads |-> IF w \in T /\ thread[w] = "running"
                                     THEN Append(inbox[w], task(w)) ELSE inbox[w]]
      /\ lost' = lost \cup dropped
    BY DEF Dispatch, Taken, Free
<1>4. \A w \in T : task(w) = first + Rank(w, F) - 1 /\ first <= task(w)
  <2>1. \A w \in T : task(w) = first + Rank(w, F) - 1
    BY <1>1 DEF Consecutive
  <2>2. QED
    BY <1>1, <2>1
<1>5. ASSUME NEW v \in T, NEW w \in T, v # w PROVE task(v) # task(w)
  <2>1. v \in F /\ w \in F /\ v \in Int /\ w \in Int
    BY <1>1 DEF Taken, Threads
  <2>2. Rank(v, F) \in Nat /\ Rank(w, F) \in Nat
    BY <1>1
  <2>3. Rank(v, F) # Rank(w, F)
    BY <1>1, <1>5, <2>1, <2>2, RankGrows
  <2>4. QED
    BY <1>4, <2>2, <2>3
<1>6. ASSUME NEW t \in TaskIds, t < Started', ~(t < first)
      PROVE  \E w \in T : t = task(w)
  <2>1. Len(pending') = IF c + 1 <= Len(queue) THEN Len(queue) - (c + 1) + 1 ELSE 0
    <3>1. \A i \in (c + 1)..Len(queue) : queue[i] \in TaskIds
      BY <1>1, <1>2
    <3>2. QED
      BY <1>1, <1>2, <1>3, <3>1, SubSeqProperties
  <2>2. t \in Nat /\ Started' = first + Len(queue) - Len(pending')
    BY DEF TaskIds, Started
  <2>3. t - first + 1 \in 1..c /\ t - first + 1 \in 1..Len(queue)
    <3>1. c \in Nat /\ Len(queue) \in Nat
      BY <1>1, <1>2
    <3>2. CASE c + 1 <= Len(queue)
      <4>1. Started' = first + c
        BY <2>1, <2>2, <3>1, <3>2
      <4>2. QED
        BY <1>6, <2>2, <3>1, <3>2, <4>1
    <3>3. CASE ~(c + 1 <= Len(queue))
      <4>1. Started' = first + Len(queue)
        BY <2>1, <2>2, <3>1, <3>3
      <4>2. QED
        BY <1>6, <2>2, <3>1, <3>3, <4>1
    <3>4. QED
      BY <3>2, <3>3
  <2>4. PICK w \in F : Rank(w, F) = t - first + 1
    BY <1>1, <2>3, RankIsOnto
  <2>5. w \in T
    BY <1>2, <2>3, <2>4 DEF Taken
  <2>6. task(w) = t
    BY <1>4, <2>2, <2>4, <2>5
  <2>7. QED
    BY <2>5, <2>6
<1> HIDE DEF F, c, T
<1>7. \A S \in SUBSET TaskIds : Older(S, first) => \A w \in T : task(w) \notin S
  <2>1. ASSUME NEW S \in SUBSET TaskIds, Older(S, first), NEW w \in T, task(w) \in S PROVE FALSE
    <3>1. task(w) < first /\ first <= task(w) /\ task(w) \in Nat
      BY <1>1, <1>4, <2>1 DEF Older, TaskIds
    <3>2. QED
      BY <3>1
  <2>2. QED
    BY <2>1
<1>8. \A w \in Threads : /\ inbox[w] \in Seq(Messages)
                         /\ Ids(inbox[w]) \in SUBSET TaskIds
                         /\ Older(Ids(inbox[w]), first)
  <2>1. \A w \in Threads : inbox[w] \in Seq(Messages)
    BY DEF TypeOK
  <2>2. QED
    BY <2>1, ElementsType DEF Ids, Older
<1>9. \A v \in T : /\ task(v) \in Messages /\ task(v) # Shutdown
                   /\ task(v) \notin ret /\ task(v) \notin lost
                   /\ \A w \in Threads : task(v) \notin Ids(inbox[w]) /\ task(v) \notin out[w]
  <2>1. \A v \in T : task(v) \in Messages /\ task(v) # Shutdown
    BY <1>1 DEF Messages, TaskIds
  <2>2. lost \in SUBSET TaskIds
    BY DEF TypeOK
  <2>3. \A v \in T : task(v) \notin ret /\ task(v) \notin lost
    BY <1>7, <2>2
  <2>4. \A v \in T, w \in Threads : task(v) \notin Ids(inbox[w]) /\ task(v) \notin out[w]
    BY <1>7, <1>8
  <2>5. QED
    BY <2>1, <2>3, <2>4
<1>10. ASSUME NEW w \in Threads
       PROVE  /\ Once(inbox'[w])
              /\ Inboxes'[w] = Inboxes[w] \cup new[w]
  <2>1. CASE w \in T /\ thread[w] = "running"
    <3>1. inbox'[w] = Append(inbox[w], task(w)) /\ new[w] = {task(w)}
      BY <1>3, <2>1
    <3>2. /\ Ids(Append(inbox[w], task(w))) = Ids(inbox[w]) \cup ({task(w)} \ {Shutdown})
          /\ Once(Append(inbox[w], task(w)))
      BY <1>8, <1>9, <2>1, AppendOnce
    <3>3. {task(w)} \ {Shutdown} = {task(w)}
      BY <1>9, <2>1
    <3>4. QED
      BY <3>1, <3>2, <3>3 DEF Inboxes
  <2>2. CASE ~(w \in T /\ thread[w] = "running")
    BY <1>3, <2>2 DEF Inboxes
  <2>3. QED
    BY <2>1, <2>2
<1>11. \A w \in Threads : \A t \in new[w] : t = task(w) /\ w \in T /\ thread[w] = "running"
    OBVIOUS
<1>12. \A t \in dropped : \E w \in T : t = task(w) /\ thread[w] # "running"
    OBVIOUS
<1>13. \A w \in T : w \in Threads /\ (task(w) \in new[w] \/ task(w) \in dropped)
    BY <1>1
<1> HIDE DEF new, dropped
<1>14. /\ \A v, w \in Threads : new[v] \cap (Inboxes[w] \cup out[w]) = {}
       /\ \A w \in Threads : dropped \cap (Inboxes[w] \cup out[w]) = {}
    BY <1>9, <1>11, <1>12 DEF Inboxes
<1>15. \A v, w \in Threads : v # w => new[v] \cap new[w] = {}
    BY <1>5, <1>11
<1>16. \A w \in Threads : new[w] \cap (ret \cup lost \cup dropped) = {}
    BY <1>5, <1>9, <1>11, <1>12
<1>17. dropped \cap ret = {}
    BY <1>9, <1>12
<1>18. ASSUME NEW t \in TaskIds, t < Started'
       PROVE  t < first \/ t \in dropped \/ \E w \in Threads : t \in new[w]
    BY <1>6, <1>13, <1>18
<1>19. Placed(Inboxes', out, ret, lost \cup dropped, Started')
    BY <1>10, <1>14, <1>15, <1>16, <1>17, <1>18, PostedPlaced
<1>20. QED
    BY <1>3, <1>10, <1>19

LEMMA SubmitConserves ==
    ASSUME TypeOK, FifoOrder, Conserved, Submit
    PROVE  Conserved'
<1> DEFINE queue == Append(pending, taskId)
<1>1. taskId \in TaskIds /\ pending \in Seq(TaskIds) /\ Len(pending) \in Nat
    BY LenProperties DEF TypeOK, Submit, TaskIds
<1>2. Len(pending) <= taskId /\ Consecutive(pending, Started) /\ Posted
    BY FifoIsPosted DEF TypeOK
<1>3. /\ queue \in Seq(TaskIds) /\ Len(queue) = Len(pending) + 1
      /\ Consecutive(queue, Started)
  <2>1. /\ queue \in Seq(TaskIds) /\ Len(queue) = Len(pending) + 1
        /\ \A i \in 1..Len(pending) : queue[i] = pending[i]
        /\ queue[Len(pending) + 1] = taskId
    BY <1>1, AppendProperties
  <2>2. ASSUME NEW i \in 1..Len(queue) PROVE queue[i] = Started + i - 1
    <3>1. CASE i \in 1..Len(pending)
      BY <1>2, <2>1, <3>1 DEF Consecutive
    <3>2. CASE i = Len(pending) + 1
      BY <1>1, <2>1, <3>2 DEF Started, TaskIds
    <3>3. QED
      BY <1>1, <2>1, <2>2, <3>1, <3>2
  <2>3. QED
    BY <2>1, <2>2 DEF Consecutive
<1>4. Started \in Nat /\ taskId' = Started + Len(queue)
    BY <1>1, <1>2, <1>3 DEF Started, Submit, TaskIds
<1> HIDE DEF queue
<1>5. /\ Dispatch(queue, busy) /\ busy \in [Threads -> BOOLEAN]
      /\ outbox' = outbox /\ returned' = returned
    BY DEF Submit, TypeOK, queue
<1>6. \A w \in Threads : Outboxes[w] \in SUBSET TaskIds /\ Older(Outboxes[w], Started)
    BY <1>2, ElementsType DEF TypeOK, Outboxes, Ids, Posted, Older
<1>7. /\ \A w \in Threads : Older(Elements(inbox[w]), Started)
      /\ Older(lost, Started) /\ Older(returned, Started) /\ returned \in SUBSET TaskIds
    BY <1>2 DEF Posted, TypeOK
<1>8. /\ \A w \in Threads : Once(inbox[w])
      /\ Placed(Inboxes, Outboxes, returned, lost, Started)
    BY DEF Conserved, OnceEach
<1>9. /\ \A w \in Threads : Once(inbox'[w])
      /\ Placed(Inboxes', Outboxes, returned, lost', Started')
    BY <1>3, <1>4, <1>5, <1>6, <1>7, <1>8, DispatchPlaced
<1>10. Outboxes' = Outboxes
    BY <1>5 DEF Outboxes
<1>11. QED
    BY <1>5, <1>9, <1>10 DEF Conserved, OnceEach

\* The reply of u is counted, then the queue is dispatched.
LEMMA OnResultConserves ==
    ASSUME TypeOK, FifoOrder, Conserved, NEW u \in Threads, OnResult(u)
    PROVE  Conserved'
<1> DEFINE cleared == [v \in Threads |-> IF v \in workers THEN FALSE ELSE busy[v]]
           S == {Head(outbox[u])} \ {Shutdown}
<1>1. /\ Dispatch(pending, cleared)
      /\ cleared \in [Threads -> BOOLEAN]
      /\ pending \in Seq(TaskIds) /\ Len(pending) \in Nat
      /\ taskId' = taskId /\ taskId \in Nat
  <2>1. Dispatch(pending, cleared) /\ cleared \in [Threads -> BOOLEAN] /\ taskId' = taskId
    BY DEF OnResult, TypeOK
  <2>2. pending \in Seq(TaskIds) /\ taskId \in Nat
    BY DEF TypeOK
  <2>3. QED
    BY <2>1, <2>2, LenProperties
<1>2. Len(pending) <= taskId /\ Consecutive(pending, Started) /\ Posted
    BY FifoIsPosted DEF TypeOK
<1>3. Started \in Nat /\ taskId' = Started + Len(pending)
    BY <1>1, <1>2 DEF Started
<1>4. /\ outbox \in [Threads -> Seq(Messages)]
      /\ outbox[u] \in Seq(Messages) /\ outbox[u] # <<>>
      /\ outbox' = [outbox EXCEPT ![u] = Tail(outbox[u])]
      /\ returned' = returned \cup S
    BY DEF OnResult, TypeOK
<1>5. /\ Ids(outbox[u]) = Ids(Tail(outbox[u])) \cup S
      /\ Once(Tail(outbox[u])) /\ Head(outbox[u]) \notin Ids(Tail(outbox[u]))
    BY <1>4, HeadTailOnce DEF Conserved, OnceEach
<1>6. /\ \A w \in Threads : Once(outbox'[w])
      /\ \A w \in Threads : Outboxes'[w] = IF w = u THEN Outboxes[w] \ S ELSE Outboxes[w]
      /\ S \in SUBSET Outboxes[u]
    BY <1>4, <1>5 DEF Outboxes, Conserved, OnceEach
<1> HIDE DEF S, cleared
<1>7. /\ \A w \in Threads : Outboxes[w] \in SUBSET TaskIds /\ Older(Outboxes[w], Started)
    BY <1>2, ElementsType DEF TypeOK, Outboxes, Ids, Posted, Older
<1>8. \A w \in Threads : Outboxes'[w] \in SUBSET TaskIds /\ Older(Outboxes'[w], Started)
    BY <1>6, <1>7 DEF Older
<1>9. /\ returned' \in SUBSET TaskIds /\ Older(returned', Started)
      /\ \A w \in Threads : Older(Elements(inbox[w]), Started)
      /\ Older(lost, Started)
    BY <1>2, <1>4, <1>6, <1>7 DEF Posted, TypeOK, Older
<1>10. \A w \in Threads : Once(inbox[w])
    BY DEF Conserved, OnceEach
<1>11. Placed(Inboxes, Outboxes', returned', lost, Started)
  <2>1. Placed(Inboxes, Outboxes, returned, lost, Started)
    BY DEF Conserved
  <2>2. Placed(Inboxes, Outboxes', returned \cup S, lost, Started)
    BY <1>6, <2>1, ReturnedPlaced
  <2>3. QED
    BY <1>4, <2>2
<1>12. /\ \A w \in Threads : Once(inbox'[w])
       /\ Placed(Inboxes', Outboxes', returned', lost', Started')
    BY <1>1, <1>2, <1>3, <1>8, <1>9, <1>10, <1>11, DispatchPlaced
<1>13. QED
    BY <1>6, <1>12 DEF Conserved, OnceEach

\* A handler answers the head of its inbox, once.
LEMMA ReplyConserves ==
    ASSUME TypeOK, Conserved, NEW u \in Threads, Reply(u)
    PROVE  Conserved'
<1> DEFINE h == Head(inbox[u])
           S == {h} \ {Shutdown}
<1>1. /\ inbox[u] \in Seq(Messages) /\ inbox[u] # <<>> /\ outbox[u] \in Seq(Messages)
      /\ Once(inbox[u]) /\ Once(outbox[u])
      /\ Ids(inbox[u]) \cap Ids(outbox[u]) = {}
    BY DEF TypeOK, Reply, Conserved, OnceEach, Placed, Apart, Inboxes, Outboxes
<1>2. /\ h \in Messages
      /\ Ids(inbox[u]) = Ids(Tail(inbox[u])) \cup S
      /\ Once(Tail(inbox[u])) /\ h \notin Ids(Tail(inbox[u]))
    BY <1>1, HeadTailProperties, HeadTailOnce
<1>3. h \notin Ids(outbox[u])
    BY <1>1, <1>2 DEF Ids
<1>4. /\ Ids(Append(outbox[u], h)) = Ids(outbox[u]) \cup S
      /\ Once(Append(outbox[u], h))
    BY <1>1, <1>2, <1>3, AppendOnce
<1>5. /\ \A w \in Threads : inbox'[w] = IF w = u THEN Tail(inbox[u]) ELSE inbox[w]
      /\ \A w \in Threads : outbox'[w] = IF w = u THEN Append(outbox[u], h) ELSE outbox[w]
      /\ returned' = returned /\ lost' = lost /\ Started' = Started
    BY DEF TypeOK, Reply, poolVars, Started
<1>6. OnceEach'
    BY <1>2, <1>4, <1>5 DEF Conserved, OnceEach
<1>7. /\ S \in SUBSET Inboxes[u]
      /\ \A w \in Threads : Inboxes'[w] = IF w = u THEN Inboxes[w] \ S ELSE Inboxes[w]
    BY <1>2, <1>5 DEF Inboxes
<1>8. \A w \in Threads : Outboxes'[w] = IF w = u THEN Outboxes[w] \cup S ELSE Outboxes[w]
    BY <1>4, <1>5 DEF Outboxes
<1> HIDE DEF S
<1>9. Placed(Inboxes, Outboxes, returned, lost, Started)
    BY DEF Conserved
<1>10. Placed(Inboxes', Outboxes', returned, lost, Started)
  <2>1. /\ \A w \in Threads : Inboxes'[w] \subseteq Inboxes[w]
        /\ \A w \in Threads : Outboxes'[w] = Outboxes[w] \cup (Inboxes[w] \ Inboxes'[w])
    BY <1>7, <1>8
  <2>2. QED
    BY <1>9, <2>1, AnsweredPlaced
<1>11. QED
    BY <1>5, <1>6, <1>10 DEF Conserved

\* A thread that goes away takes its inbox with it, and nothing else.
LEMMA DropConserves ==
    ASSUME TypeOK, Conserved, NEW u \in Threads,
           inbox' = [inbox EXCEPT ![u] = <<>>], outbox' = outbox, returned' = returned,
           lost' = lost \cup (Elements(inbox[u]) \ {Shutdown}), Started' = Started
    PROVE  Conserved'
<1>1. \A w \in Threads : inbox'[w] = IF w = u THEN <<>> ELSE inbox[w]
    BY DEF TypeOK
<1>2. OnceEach'
    BY <1>1, EmptyOnce DEF Conserved, OnceEach
<1>3. \A w \in Threads : Inboxes'[w] = IF w = u THEN {} ELSE Inboxes[w]
  <2>1. \A w \in Threads : Ids(inbox'[w]) = IF w = u THEN {} ELSE Ids(inbox[w])
    <3>1. Ids(inbox'[u]) = {}
      BY <1>1, EmptyOnce, Zenon
    <3>2. \A w \in Threads : w # u => inbox'[w] = inbox[w]
      BY <1>1
    <3>3. ASSUME NEW w \in Threads PROVE Ids(inbox'[w]) = IF w = u THEN {} ELSE Ids(inbox[w])
      <4>1. CASE w = u
        BY <3>1, <4>1, Zenon
      <4>2. CASE w # u
        <5>1. inbox'[w] = inbox[w]
          BY <3>2, <4>2
        <5>2. Ids(inbox'[w]) = Ids(inbox[w])
          BY <5>1, Zenon
        <5>3. QED
          BY <4>2, <5>2
      <4>3. QED
        BY <4>1, <4>2
    <3>4. QED
      BY <3>3
  <2>2. QED
    BY <2>1 DEF Inboxes
<1>4. Outboxes' = Outboxes /\ lost' = lost \cup Inboxes[u]
    BY DEF Outboxes, Inboxes, Ids
<1>5. Placed(Inboxes, Outboxes, returned, lost, Started)
    BY DEF Conserved
<1>6. Placed(Inboxes', Outboxes, returned, lost \cup Inboxes[u], Started)
    BY <1>3, <1>5, DroppedPlaced
<1>7. QED
    BY <1>2, <1>4, <1>6 DEF Conserved

\* The shutdown message is not a task.
LEMMA TerminateConserves ==
    ASSUME TypeOK, Conserved, Terminate
    PROVE  Conserved'
<1>1. \A w \in Threads : /\ Ids(Append(inbox[w], Shutdown)) = Ids(inbox[w])
                         /\ Once(Append(inbox[w], Shutdown))
  <2>1. ASSUME NEW w \in Threads
        PROVE  inbox[w] \in Seq(Messages) /\ Once(inbox[w]) /\ Shutdown \notin Ids(inbox[w])
    BY DEF TypeOK, Conserved, OnceEach, Ids
  <2>2. Shutdown \in Messages /\ {Shutdown} \ {Shutdown} = {}
    BY DEF Messages
  <2>3. ASSUME NEW w \in Threads
        PROVE  /\ Ids(Append(inbox[w], Shutdown)) = Ids(inbox[w]) \cup ({Shutdown} \ {Shutdown})
               /\ Once(Append(inbox[w], Shutdown))
    BY <2>1, <2>2, AppendOnce
  <2>4. QED
    BY <2>2, <2>3
<1>2. /\ \A w \in Threads : inbox'[w] = Append(inbox[w], Shutdown) \/ inbox'[w] = inbox[w]
      /\ outbox' = outbox /\ returned' = returned /\ lost' = lost /\ Started' = Started
    BY DEF Terminate, poolVars, Started
<1>3. OnceEach'
    BY <1>1, <1>2 DEF Conserved, OnceEach
<1>4. Inboxes' = Inboxes /\ Outboxes' = Outboxes
  <2>1. \A w \in Threads : Ids(inbox'[w]) = Ids(inbox[w])
    BY <1>1, <1>2
  <2>2. QED
    BY <1>2, <2>1 DEF Inboxes, Outboxes
<1>5. QED
    BY <1>2, <1>3, <1>4 DEF Conserved

\* Whatever the order in which threads answer, die and are stopped, and although
\* busy flags are cleared for threads that still compute: every task that left
\* the queue is in exactly one place, at any number of threads and tasks.
THEOREM TasksAreConserved == Spec => []Conservation
<1>1. Init => Conserved
  <2> SUFFICES ASSUME Init PROVE Conserved
    OBVIOUS
  <2>1. /\ OnceEach
        /\ \A w \in Threads : Inboxes[w] = {} /\ Outboxes[w] = {}
    BY EmptyOnce DEF Init, OnceEach, Inboxes, Outboxes
  <2>2. returned = {} /\ lost = {} /\ Started = 0
    <3>1. pending = <<>>
      BY DEF Init
    <3>2. Len(<<>>) = 0
      BY <<>> \in Seq(TaskIds), EmptySeq
    <3>3. Len(pending) = 0
      BY <3>1, <3>2, Zenon
    <3>4. taskId = 0 /\ returned = {} /\ lost = {}
      BY DEF Init
    <3>5. QED
      BY <3>3, <3>4 DEF Started
  <2>3. Apart(Inboxes, Outboxes, returned, lost)
    BY <2>1, <2>2 DEF Apart
  <2>4. Kept(Inboxes, Outboxes, returned, lost, Started)
    BY <2>2 DEF Kept, TaskIds
  <2>5. QED
    BY <2>1, <2>3, <2>4 DEF Conserved, Placed
<1>2. TypeOK /\ FifoOrder /\ Conserved /\ [Next]_vars => Conserved'
  <2> SUFFICES ASSUME TypeOK, FifoOrder, Conserved, [Next]_vars PROVE Conserved'
    OBVIOUS
  <2>1. CASE Submit
    BY <2>1, SubmitConserves
  <2>2. ASSUME NEW u \in Threads, OnResult(u) PROVE Conserved'
    BY <2>2, OnResultConserves
  <2>3. ASSUME NEW u \in Threads, Reply(u) PROVE Conserved'
    BY <2>3, ReplyConserves
  <2>4. ASSUME NEW u \in Threads, Throw(u) PROVE Conserved'
    <3>1. /\ inbox' = [inbox EXCEPT ![u] = <<>>] /\ outbox' = outbox /\ returned' = returned
          /\ lost' = lost \cup (Elements(inbox[u]) \ {Shutdown}) /\ Started' = Started
      BY <2>4 DEF Throw, poolVars, Started
    <3>2. QED
      BY <3>1, DropConserves
  <2>5. CASE Terminate
    BY <2>5, TerminateConserves
  <2>6. CASE StopNext
    <3>1. stopNext \in Threads
      BY <2>6 DEF StopNext, TypeOK, Threads
    <3>2. /\ inbox' = [inbox EXCEPT ![stopNext] = <<>>] /\ outbox' = outbox /\ returned' = returned
          /\ lost' = lost \cup (Elements(inbox[stopNext]) \ {Shutdown}) /\ Started' = Started
      BY <2>6 DEF StopNext, poolVars, Started
    <3>3. QED
      BY <3>1, <3>2, DropConserves
  <2>7. CASE GraceOver \/ Terminated \/ UNCHANGED vars
    <3>1. /\ inbox' = inbox /\ outbox' = outbox /\ returned' = returned /\ lost' = lost
          /\ Started' = Started
      BY <2>7 DEF GraceOver, Terminated, vars, poolVars, Started
    <3>2. QED
      BY <3>1 DEF Conserved, OnceEach, Inboxes, Outboxes
  <2>8. QED
    BY <2>1, <2>2, <2>3, <2>4, <2>5, <2>6, <2>7 DEF Next
<1>3. QED
    BY <1>1, <1>2, ConservedIsConservation, TypeCorrect, OrderIsKept, PTL DEF Spec

-----------------------------------------------------------------------------
(* The pool is a task pool *)

LEMMA DispatchShortens ==
    ASSUME TypeOK, NEW queue \in Seq(TaskIds), NEW b, Dispatch(queue, b)
    PROVE  Len(pending') \in Nat /\ Len(pending') <= Len(queue)
<1> DEFINE c == Cardinality(Free(b))
<1>1. c \in Nat
    BY TakenTasks DEF TypeOK
<1>2. Len(queue) \in Nat /\ \A i \in 1..Len(queue) : queue[i] \in TaskIds
    BY LenProperties, ElementOfSeq
<1>3. pending' = SubSeq(queue, c + 1, Len(queue))
    BY DEF Dispatch, Free
<1> HIDE DEF c
<1>4. \A i \in (c + 1)..Len(queue) : queue[i] \in TaskIds
    BY <1>1, <1>2
<1>5. Len(pending') = IF c + 1 <= Len(queue) THEN Len(queue) - (c + 1) + 1 ELSE 0
    BY <1>1, <1>2, <1>3, <1>4, SubSeqProperties
<1>6. QED
    BY <1>1, <1>2, <1>5

\* Tasks are only ever started, returned and lost.
LEMMA TasksAdvance ==
    ASSUME TypeOK, [Next]_vars
    PROVE  /\ Started <= Started'
           /\ returned \subseteq returned' /\ lost \subseteq lost'
           /\ \/ taskId' = taskId + 1 /\ returned' = returned
              \/ taskId' = taskId
<1>1. pending \in Seq(TaskIds) /\ Len(pending) \in Nat /\ taskId \in Nat
  <2>1. pending \in Seq(TaskIds) /\ taskId \in Nat
    BY DEF TypeOK
  <2>2. QED
    BY <2>1, LenProperties
<1>2. CASE Submit
  <2>1. taskId \in TaskIds
    BY <1>2 DEF TypeOK, Submit, TaskIds
  <2>2. Append(pending, taskId) \in Seq(TaskIds) /\ Len(Append(pending, taskId)) = Len(pending) + 1
    BY <1>1, <2>1, AppendProperties
  <2>3. /\ Dispatch(Append(pending, taskId), busy)
        /\ taskId' = taskId + 1 /\ returned' = returned
    BY <1>2 DEF Submit
  <2>4. Len(pending') \in Nat /\ Len(pending') <= Len(pending) + 1
    BY <2>2, <2>3, DispatchShortens
  <2>5. lost \subseteq lost'
    BY <2>3 DEF Dispatch
  <2>6. QED
    BY <1>1, <2>3, <2>4, <2>5 DEF Started
<1>3. ASSUME NEW w \in Threads, OnResult(w)
      PROVE  /\ Started <= Started' /\ taskId' = taskId
             /\ returned \subseteq returned' /\ lost \subseteq lost'
  <2> DEFINE cleared == [v \in Threads |-> IF v \in workers THEN FALSE ELSE busy[v]]
  <2>1. Dispatch(pending, cleared) /\ taskId' = taskId /\ returned \subseteq returned'
    BY <1>3 DEF OnResult
  <2>2. Len(pending') \in Nat /\ Len(pending') <= Len(pending)
    BY <1>1, <2>1, DispatchShortens
  <2>3. lost \subseteq lost'
    BY <2>1 DEF Dispatch
  <2>4. QED
    BY <1>1, <2>1, <2>2, <2>3 DEF Started
<1>4. CASE \/ \E w \in Threads : Reply(w) \/ Throw(w)
           \/ Terminate \/ GraceOver \/ StopNext \/ Terminated \/ UNCHANGED vars
  <2>1. /\ taskId' = taskId /\ pending' = pending
        /\ returned' = returned /\ lost \subseteq lost'
    BY <1>4 DEF Reply, Throw, Terminate, GraceOver, StopNext, Terminated, vars, poolVars
  <2>2. QED
    BY <1>1, <2>1 DEF Started
<1>5. QED
    BY <1>2, <1>3, <1>4 DEF Next

\* What was started, returned or lost in a step is what a task pool allows, if
\* the invariants hold after the step.
LEMMA StepIsTaskPoolStep ==
    ASSUME TypeOK, FifoOrder, TypeOK', FifoOrder', Conservation', [Next]_vars
    PROVE  Abstract!Next
<1>1. /\ Started <= Started'
      /\ returned \subseteq returned' /\ lost \subseteq lost'
      /\ \/ taskId' = taskId + 1 /\ returned' = returned
         \/ taskId' = taskId
    BY TasksAdvance
<1>2. Started \in Nat /\ Started' \in Nat /\ taskId \in Nat /\ Started' <= taskId'
  <2>1. pending \in Seq(TaskIds) /\ pending' \in Seq(TaskIds) /\ taskId \in Nat /\ taskId' \in Nat
    BY DEF TypeOK
  <2>2. Len(pending) \in Nat /\ Len(pending') \in Nat
    BY <2>1, LenProperties
  <2>3. Len(pending) <= taskId /\ Len(pending') <= taskId'
    BY DEF FifoOrder, QueueIsNewest
  <2>4. QED
    BY <2>1, <2>2, <2>3 DEF Started
<1>3. \A t \in returned' \cup lost' : t \in TaskIds /\ t < Started'
    BY DEF TypeOK, FifoOrder, PostedIsOlder
<1>4. returned' \cap lost' = {}
    BY DEF Conservation
<1>5. Started' \in Started..taskId'
    BY <1>1, <1>2
<1>6. CASE taskId' = taskId + 1 /\ returned' = returned
  <2>1. lost' \ lost \subseteq {t \in TaskIds : t < Started'} \ (returned \cup lost)
    BY <1>3, <1>4, <1>6
  <2>2. Abstract!Submit
    BY <1>1, <1>5, <1>6, <2>1 DEF Abstract!Submit, Abstract!Ended
  <2>3. QED
    BY <2>2 DEF Abstract!Next
<1>7. CASE taskId' = taskId
  <2>1. /\ (returned' \ returned) \cap (lost' \ lost) = {}
        /\ (returned' \cup lost') \ (returned \cup lost) \subseteq {t \in TaskIds : t < Started'}
        /\ returned' \cap lost = {} /\ lost' \cap returned = {}
    BY <1>1, <1>3, <1>4
  <2>2. Abstract!Progress
    BY <1>1, <1>5, <1>7, <2>1 DEF Abstract!Progress, Abstract!Ended
  <2>3. QED
    BY <2>2 DEF Abstract!Next
<1>8. QED
    BY <1>1, <1>6, <1>7

\* Seen from outside, with the number of ids that left the queue as the number
\* of started tasks, the pool is a task pool: tasks start in the order they were
\* submitted, and a started one ends once, by its reply or with its thread.
THEOREM PoolIsTaskPool == Spec => ImplementsTaskPool
<1>1. Init => Abstract!Init
  <2> SUFFICES ASSUME Init PROVE Abstract!Init
    OBVIOUS
  <2>1. Len(pending) = 0
    <3>1. pending = <<>>
      BY DEF Init
    <3>2. Len(<<>>) = 0
      BY <<>> \in Seq(TaskIds), EmptySeq
    <3>3. QED
      BY <3>1, <3>2, Zenon
  <2>2. taskId = 0 /\ returned = {} /\ lost = {}
    BY DEF Init
  <2>3. QED
    BY <2>1, <2>2 DEF Started, Abstract!Init
<1>2. TypeOK /\ FifoOrder /\ TypeOK' /\ FifoOrder' /\ Conservation' /\ [Next]_vars
      => [Abstract!Next]_(Abstract!vars)
    BY StepIsTaskPoolStep
<1>3. QED
    BY <1>1, <1>2, TypeCorrect, OrderIsKept, TasksAreConserved, PTL
    DEF Spec, ImplementsTaskPool, Abstract!Spec
=============================================================================
