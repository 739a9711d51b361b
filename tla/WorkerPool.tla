----------------------------- MODULE WorkerPool -----------------------------
(***************************************************************************)
(* The worker-thread pool of pipeline/src/parallel/worker-pool.ts and the  *)
(* thread program of ci-worker.ts it runs.                                 *)
(*                                                                         *)
(* The pool lives on the event loop of the main thread, so submit,         *)
(* onResult and each stretch of terminate between two awaits are atomic.   *)
(* The threads run beside it; the two meet in one FIFO channel each way    *)
(* per worker (postMessage).  A thread whose handler throws exits: the     *)
(* pool's 'error' listener does nothing, messages still in its inbox are   *)
(* dropped, and later messages to it are silently discarded.               *)
(***************************************************************************)
EXTENDS Integers, Sequences, FiniteSets

CONSTANTS Size,        \* number of worker threads, the constructor's size
          MaxTasks,    \* bound: number of submit calls
          Shutdown     \* the message {type: 'shutdown'}, which has no id

ASSUME SizeAssumption == Size \in Nat
ASSUME MaxTasksAssumption == MaxTasks \in Nat
ASSUME ShutdownAssumption == Shutdown \notin Nat

VARIABLES
    taskId,     \* next task id
    pending,    \* ids waiting for a worker, oldest first
    workers,    \* indices of this.workers; {} once terminate has finished
    busy,       \* busy flag of each entry
    thread,     \* "running", "crashed" or "stopped"
    inbox,      \* messages posted to each thread
    outbox,     \* replies posted by each thread
    phase,      \* of terminate: "open", "grace" (100 ms), "stopping", "closed"
    stopNext,   \* the entry the second loop of terminate stops next
    settled,    \* ids whose promise was resolved or rejected
    returned,   \* ids whose reply reached onResult
    lost        \* ids dropped together with a thread

poolVars == <<taskId, pending, workers, busy>>
vars == <<taskId, pending, workers, busy, thread, inbox, outbox, phase,
          stopNext, settled, returned, lost>>

Threads == 1..Size
TaskIds == 0..(MaxTasks - 1)
Messages == TaskIds \cup {Shutdown}
ThreadStates == {"running", "crashed", "stopped"}

Elements(s) == {s[i] : i \in DOMAIN s}

(***************************************************************************)
(* The ids in the possession of thread w: not started, or replied to and   *)
(* not yet seen by the main thread.                                        *)
(***************************************************************************)
Held(w) == (Elements(inbox[w]) \cup Elements(outbox[w])) \ {Shutdown}
Started == taskId - Len(pending)

-----------------------------------------------------------------------------
(* Actions *)

Init ==
    /\ taskId = 0
    /\ pending = <<>>
    /\ workers = Threads
    /\ busy = [w \in Threads |-> FALSE]
    /\ thread = [w \in Threads |-> "running"]
    /\ inbox = [w \in Threads |-> <<>>]
    /\ outbox = [w \in Threads |-> <<>>]
    /\ phase = "open"
    /\ stopNext = 1
    /\ settled = {}
    /\ returned = {}
    /\ lost = {}

\* Position of w among the free entries F, in the order of this.workers.
Rank(w, F) == Cardinality({v \in F : v <= w})

\* The loop of dispatch(): while something is queued and an entry is free, the
\* first free entry gets the oldest task.  So the k-th free entry gets the k-th
\* task.  The flags are those of b; what is posted to a dead thread is dropped,
\* on top of what the caller itself loses.  Tasks can be cloned: postMessage, which
\* throws for a task that cannot, after the shift, does not throw here.
\* Mutant: the task that is posted is not taken off the queue.
DispatchWithoutShift(queue, b) ==
    LET free  == {w \in workers : ~b[w]}
        taken == {w \in free : Rank(w, free) <= Len(queue)}
    IN  /\ pending' = queue
        /\ busy' = [w \in Threads |-> b[w] \/ w \in taken]
        /\ inbox' = [w \in Threads |-> IF w \in taken /\ thread[w] = "running"
                                       THEN Append(inbox[w], queue[Rank(w, free)])
                                       ELSE inbox[w]]
        /\ UNCHANGED lost

Dispatch(queue, b) ==
    LET free  == {w \in workers : ~b[w]}
        taken == {w \in free : Rank(w, free) <= Len(queue)}
        task(w) == queue[Rank(w, free)]
        alive(w) == thread[w] = "running"
    IN  /\ pending' = SubSeq(queue, Cardinality(free) + 1, Len(queue))
        /\ busy' = [w \in Threads |-> b[w] \/ w \in taken]
        /\ inbox' = [w \in Threads |-> IF w \in taken /\ alive(w)
                                       THEN Append(inbox[w], task(w))
                                       ELSE inbox[w]]
        /\ lost' = lost \cup {task(w) : w \in {v \in taken : ~alive(v)}}

\* Mutant: the new task is put in front of the queue.
SubmitInFront ==
    /\ taskId < MaxTasks
    /\ taskId' = taskId + 1
    /\ Dispatch(<<taskId>> \o pending, busy)
    /\ UNCHANGED <<workers, thread, outbox, phase, stopNext, settled, returned>>

Submit ==
    /\ taskId < MaxTasks
    /\ taskId' = taskId + 1
    /\ Dispatch(Append(pending, taskId), busy)
    /\ UNCHANGED <<workers, thread, outbox, phase, stopNext, settled, returned>>

\* onResult: every flag is cleared, whoever replied; the task is looked up
\* among the queued ones, where it no longer is, and nobody's promise is
\* settled; then dispatch().
\* Mutants: no dispatch() after the flags are cleared; the answer to the
\* shutdown message is taken for a result.
OnResultWithoutDispatch(w) ==
    /\ outbox[w] # <<>>
    /\ outbox' = [outbox EXCEPT ![w] = Tail(@)]
    /\ returned' = returned \cup ({Head(outbox[w])} \ {Shutdown})
    /\ busy' = [v \in Threads |-> IF v \in workers THEN FALSE ELSE busy[v]]
    /\ UNCHANGED <<taskId, pending, workers, thread, inbox, phase, stopNext, settled, lost>>
OnResultOfAnyMessage(w) ==
    /\ outbox[w] # <<>>
    /\ outbox' = [outbox EXCEPT ![w] = Tail(@)]
    /\ returned' = returned \cup {Head(outbox[w])}
    /\ Dispatch(pending, [v \in Threads |-> IF v \in workers THEN FALSE ELSE busy[v]])
    /\ UNCHANGED <<taskId, workers, thread, phase, stopNext, settled>>

OnResult(w) ==
    /\ outbox[w] # <<>>
    /\ outbox' = [outbox EXCEPT ![w] = Tail(@)]
    /\ returned' = returned \cup ({Head(outbox[w])} \ {Shutdown})
    /\ Dispatch(pending, [v \in Threads |-> IF v \in workers THEN FALSE ELSE busy[v]])
    /\ UNCHANGED <<taskId, workers, thread, phase, stopNext, settled>>

\* The thread's handler.  A message without data (the shutdown message is one)
\* is answered at once.
\* Mutants: the handler computes and does not post the result; it posts it and
\* leaves the message in the inbox, which is answered again.
ReplyNothing(w) ==
    /\ thread[w] = "running"
    /\ inbox[w] # <<>>
    /\ inbox' = [inbox EXCEPT ![w] = Tail(@)]
    /\ UNCHANGED <<poolVars, outbox, thread, phase, stopNext, settled, returned, lost>>
ReplyTwice(w) ==
    /\ thread[w] = "running"
    /\ inbox[w] # <<>>
    /\ outbox' = [outbox EXCEPT ![w] = Append(@, Head(inbox[w]))]
    /\ Len(outbox[w]) < 2
    /\ UNCHANGED <<poolVars, inbox, thread, phase, stopNext, settled, returned, lost>>

Reply(w) ==
    /\ thread[w] = "running"
    /\ inbox[w] # <<>>
    /\ inbox' = [inbox EXCEPT ![w] = Tail(@)]
    /\ outbox' = [outbox EXCEPT ![w] = Append(@, Head(inbox[w]))]
    /\ UNCHANGED <<poolVars, thread, phase, stopNext, settled, returned, lost>>

\* A task whose data has no samples makes bootstrapMean throw: the thread dies.
Throw(w) ==
    /\ thread[w] = "running"
    /\ inbox[w] # <<>>
    /\ Head(inbox[w]) # Shutdown
    /\ thread' = [thread EXCEPT ![w] = "crashed"]
    /\ lost' = lost \cup (Elements(inbox[w]) \ {Shutdown})
    /\ inbox' = [inbox EXCEPT ![w] = <<>>]
    /\ UNCHANGED <<poolVars, outbox, phase, stopNext, settled, returned>>

ThreadStep(w) == Reply(w) \/ Throw(w)

\* terminate(), up to its first await: the shutdown message goes to every entry.
Terminate ==
    /\ phase = "open"
    /\ phase' = "grace"
    /\ inbox' = [w \in Threads |-> IF w \in workers /\ thread[w] = "running"
                                   THEN Append(inbox[w], Shutdown) ELSE inbox[w]]
    /\ UNCHANGED <<poolVars, thread, outbox, stopNext, settled, returned, lost>>

GraceOver ==
    /\ phase = "grace"
    /\ phase' = "stopping"
    /\ UNCHANGED <<poolVars, thread, inbox, outbox, stopNext, settled, returned, lost>>

\* One await of the second loop: the thread stops wherever it is.  Replies it
\* had posted are delivered before its exit is reported.
StopNext ==
    /\ phase = "stopping"
    /\ stopNext <= Size
    /\ outbox[stopNext] = <<>>
    /\ thread' = [thread EXCEPT ![stopNext] = "stopped"]
    /\ lost' = lost \cup (Elements(inbox[stopNext]) \ {Shutdown})
    /\ inbox' = [inbox EXCEPT ![stopNext] = <<>>]
    /\ stopNext' = stopNext + 1
    /\ UNCHANGED <<poolVars, outbox, phase, settled, returned>>

Terminated ==
    /\ phase = "stopping"
    /\ stopNext = Size + 1
    /\ workers' = {}
    /\ phase' = "closed"
    /\ UNCHANGED <<taskId, pending, busy, thread, inbox, outbox, stopNext,
                   settled, returned, lost>>

Next ==
    \/ Submit
    \/ \E w \in Threads : OnResult(w) \/ Reply(w) \/ Throw(w)
    \/ Terminate
    \/ GraceOver
    \/ StopNext
    \/ Terminated

\* The event loop runs every delivered message and due timer; a thread that has
\* a message handles it.  Nobody is obliged to submit or to terminate.
Fairness ==
    /\ \A w \in Threads : WF_vars(OnResult(w)) /\ WF_vars(ThreadStep(w))
    /\ WF_vars(GraceOver) /\ WF_vars(StopNext) /\ WF_vars(Terminated)

Spec == Init /\ [][Next]_vars /\ Fairness

-----------------------------------------------------------------------------
(* Properties *)

\* The type invariant of the pool, the threads and the channels between them.
TypeOK ==
    /\ taskId \in 0..MaxTasks
    /\ pending \in Seq(TaskIds)
    /\ workers \in {Threads, {}}
    /\ busy \in [Threads -> BOOLEAN]
    /\ thread \in [Threads -> ThreadStates]
    /\ inbox \in [Threads -> Seq(Messages)]
    /\ outbox \in [Threads -> Seq(Messages)]
    /\ phase \in {"open", "grace", "stopping", "closed"}
    /\ stopNext \in 1..(Size + 1)
    /\ settled \subseteq TaskIds
    /\ returned \subseteq TaskIds
    /\ lost \subseteq TaskIds

\* dispatch() takes tasks strictly in submission order: what is queued is
\* exactly the newest ids, and nothing queued was already posted.
QueueIsNewest ==
    /\ Len(pending) <= taskId
    /\ \A i \in 1..Len(pending) : pending[i] = Started + i - 1
PostedIsOlder ==
    /\ \A w \in Threads : \A t \in Held(w) : t < Started
    /\ \A t \in returned \cup lost : t < Started
FifoOrder == QueueIsNewest /\ PostedIsOlder

\* Every task that left the queue is in exactly one place: with one thread,
\* returned, or lost with its thread.  No task is run twice, none vanishes,
\* although flags are cleared for threads that are still computing.
HeldOnce(w) ==
    LET all == inbox[w] \o outbox[w]
    IN  \A i, j \in DOMAIN all : all[i] = all[j] /\ i # j => all[i] = Shutdown
Conservation ==
    /\ \A w \in Threads : HeldOnce(w)
    /\ \A v, w \in Threads : v # w => Held(v) \cap Held(w) = {}
    /\ \A w \in Threads : Held(w) \cap (returned \cup lost) = {}
    /\ returned \cap lost = {}
    /\ \A t \in TaskIds : t < Started =>
          t \in returned \cup lost \cup UNION {Held(w) : w \in Threads}

\* No lost wake-up: tasks wait only while every entry is flagged busy, and an
\* entry stays flagged busy while its thread runs only if a message of that
\* thread is still to be handled (the reply will call dispatch again).
WaitOnlyWhenBusy == pending # <<>> => \A w \in workers : busy[w]
BusyMeansOutstanding ==
    \A w \in workers : busy[w] /\ thread[w] = "running"
                          => inbox[w] # <<>> \/ outbox[w] # <<>>
NoLostWakeup == WaitOnlyWhenBusy /\ BusyMeansOutstanding

\* The doc of submit: "Returns a Promise that resolves when complete."  A task
\* whose reply reached the pool has a settled promise.
ResolvesWhenComplete == returned \subseteq settled

\* As long as a thread runs, a queued task is eventually handed out: the threads
\* that died and kept their busy flag do not hold the queue up.
QueueDrains ==
    \A t \in TaskIds :
        t \in Elements(pending) ~>
            (t \notin Elements(pending) \/ \A w \in Threads : thread[w] # "running")

\* A task that was handed out does not stay in a channel for ever.
PostedTasksEnd ==
    \A t \in TaskIds : t < Started ~> t \in returned \cup lost

Abstract == INSTANCE TaskPool WITH Tasks <- TaskIds, submitted <- taskId,
                                   started <- Started

\* The pool implements the abstract task pool.
ImplementsTaskPool == Abstract!Spec
=============================================================================
