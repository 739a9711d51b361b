------------------------ MODULE DistributedDiscovery ------------------------
(***************************************************************************)
(* Distributed discovery of pipeline/src/graph: the coordinator            *)
(* (distributed-coordinator.ts) partitions the independence tests of all   *)
(* edges into batches, its stateless workers (distributed-worker.ts) run   *)
(* them, and the results of an edge are merged (distributed-ci.ts).        *)
(*                                                                         *)
(* A p-value is "zero" (it underflows), "low", "high" or "one".  A data    *)
(* set says what the tests of two variables give, alone and given others.  *)
(***************************************************************************)
EXTENDS VersionClocks, SequencesExt

CONSTANTS Variables,     \* number of variables: 0..Variables-1
          TauMax,        \* largest lag
          MaxCondVars,   \* config.maxCondVars
          Setups,        \* the configurations: strategy, count, merge, ciBackend
          Datasets,      \* [pairs of variables -> [alone, given : p-values]]
          MaxRuns        \* bound: discoveries, synchronisations and publications

ASSUME DistributedAssumption ==
    /\ Variables \in Nat
    /\ TauMax \in Nat
    /\ MaxCondVars \in Nat
    /\ \A s \in Setups :
          /\ s.strategy \in {"round-robin", "least-loaded", "partition-aware"}
          /\ s.count \in Nat

VARIABLES
    setup,      \* the configuration of the coordinator
    decisions,  \* the last runDiscovery: "edges" and those returned, "throws", or "none"
    dataset,    \* the data it was given
    runs

distVars == <<clockVars, setup, decisions, dataset, runs>>

Coordinator == "coordinator"
Worker(w) == "worker-" \o ToString(w)
Vars == 0..(Variables - 1)

-----------------------------------------------------------------------------
(* partitionCITasks *)

Task(i, j, lag, S) == [source |-> i, target |-> j, lag |-> lag, condSet |-> S]
CondSets(i, j, size) == SetToSeq(kSubset(size, Vars \ {i, j}))
TasksOf(i, j, lag) ==
    FlattenSeq([size \in 1..(MaxCondVars + 1) |->
                   LET sets == CondSets(i, j, size - 1)
                   IN  [k \in DOMAIN sets |-> Task(i, j, lag, sets[k])]])
Lags(i, j) == IF i = j THEN [l \in 1..TauMax |-> l] ELSE [l \in 1..(TauMax + 1) |-> l - 1]
Tasks ==
    FlattenSeq([p \in 1..(Variables * Variables) |->
                   LET i == (p - 1) % Variables
                       j == (p - 1) \div Variables
                       lags == Lags(i, j)
                   IN  FlattenSeq([l \in DOMAIN lags |-> TasksOf(i, j, lags[l])])])

\* partitionToBatches: the worker of each task.
RoundRobin(tasks, count) == [t \in DOMAIN tasks |-> (t - 1) % count]
Shortest(queues, count) ==
    LET load(w) == Cardinality({u \in DOMAIN queues : queues[u] = w})
    IN  Min({w \in 0..(count - 1) : \A v \in 0..(count - 1) : load(w) <= load(v)})
LeastLoaded(tasks, count) ==
    FoldLeft(LAMBDA queues, t : Append(queues, Shortest(queues, count)), <<>>, tasks)
PartitionAware(tasks, count) ==
    LET first(s) == Min({t \in DOMAIN tasks : tasks[t].source = s})
        before(u, t) == LET a == first(tasks[u].source)
                            b == first(tasks[t].source)
                        IN  a < b \/ (a = b /\ u < t)
    IN  [t \in DOMAIN tasks |-> Cardinality({u \in DOMAIN tasks : before(u, t)}) % count]
WorkersOf(tasks) ==
    CASE setup.strategy = "round-robin" -> RoundRobin(tasks, setup.count)
      [] setup.strategy = "least-loaded" -> LeastLoaded(tasks, setup.count)
      [] setup.strategy = "partition-aware" -> PartitionAware(tasks, setup.count)

\* The batch of each worker that has tasks.
\* Mutant: the last worker's batch is not sent.
BatchesButLast ==
    LET tasks == Tasks
        queues == WorkersOf(tasks)
    IN  {[worker |-> w,
          tasks |-> {tasks[t] : t \in {u \in DOMAIN queues : queues[u] = w}}] :
            w \in ToSet(queues) \ {setup.count - 1}}
Batches ==
    LET tasks == Tasks
        queues == WorkersOf(tasks)
    IN  {[worker |-> w,
          tasks |-> {tasks[t] : t \in {u \in DOMAIN queues : queues[u] = w}}] :
            w \in ToSet(queues)}

-----------------------------------------------------------------------------
(* The tests and their merge *)

\* The test of a task.  It is not told the lag: a lagged edge is tested on the
\* same rows as the contemporaneous one.
PValue(data, t) ==
    LET d == data[{t.source, t.target}] IN IF t.condSet = {} THEN d.alone ELSE d.given
\* executeBatch has the statistic 0 for unconditional tests of "parcorr".
FastPath(t) == t.condSet = {} /\ t.lag = 0 /\ setup.ciBackend = "parcorr"

\* In tenths: -2 ln p, the normal score, and the critical value of the chi-square
\* distribution with 2 k degrees of freedom, for alpha = 0.05.
Score == [low |-> 92, high |-> 14]
Normal == [zero |-> 80, low |-> 26, high |-> 7, one |-> 0]
Critical(k) == <<60, 95, 126, 155, 183, 210, 237, 263>>[k]
Significant(p) == p \in {"zero", "low"}

\* The merges of a set of results, each for a conditioning set of its own.
FisherMethod(data, ts) ==
    LET valid == {t \in ts : PValue(data, t) \in {"low", "high"}}
    IN  valid # {} /\ SumFunctionOnSet([t \in valid |-> Score[PValue(data, t)]], valid)
                          > Critical(Cardinality(valid))
WeightedMean(data, ts) ==
    LET z == [t \in ts |-> IF FastPath(t) THEN 0 ELSE Normal[PValue(data, t)]]
        sum == SumFunctionOnSet(z, ts)
    IN  sum * sum > 384 * Cardinality(ts)
MajorityVote(data, ts) ==
    2 * Cardinality({t \in ts : Significant(PValue(data, t))}) >= Cardinality(ts)
KeepEdge(data, ts) ==
    CASE setup.merge = "fisher-method" -> FisherMethod(data, ts)
      [] setup.merge = "weighted-mean" -> WeightedMean(data, ts)
      [] setup.merge = "majority-vote" -> MajorityVote(data, ts)

EdgeOf(t) == <<t.source, t.target, t.lag>>
\* dispatchBatches and groupResultsByEdge
Results == UNION {b.tasks : b \in Batches}
Merged(data) ==
    LET results == Results
    IN  {e \in {EdgeOf(t) : t \in results} :
            KeepEdge(data, {t \in results : EdgeOf(t) = e})}

-----------------------------------------------------------------------------

Decided(outcome, edges) == [outcome |-> outcome, edges |-> edges]

DistInit(s) ==
    /\ ClockInit
    /\ setup = s
    /\ decisions = Decided("none", {})
    /\ dataset = CHOOSE d \in Datasets : TRUE
    /\ runs = 0

Step == runs < MaxRuns /\ runs' = runs + 1

\* Without workers the first task has no queue to go to.
RunDiscovery(data) ==
    /\ Step
    /\ dataset' = data
    /\ IF setup.count = 0 /\ Tasks # <<>>
       THEN decisions' = Decided("throws", {}) /\ UNCHANGED clockVars
       ELSE /\ decisions' = Decided("edges", Merged(data))
            /\ Advance({Coordinator} \cup {Worker(b.worker) : b \in Batches})
            /\ UNCHANGED published
    /\ UNCHANGED setup

Sync(p, q) == Step /\ SyncClock(p, q) /\ UNCHANGED <<setup, decisions, dataset>>
PublishVersion(p) == Step /\ Publish(p) /\ UNCHANGED <<setup, decisions, dataset>>

DistNext ==
    \/ \E data \in Datasets : RunDiscovery(data)
    \/ \E p, q \in Processes : p # q /\ Sync(p, q)
    \/ \E p \in Processes : PublishVersion(p)

DistSpec == (\E s \in Setups : DistInit(s)) /\ [][DistNext]_distVars

-----------------------------------------------------------------------------
(* Properties *)

\* What the discovery decides does not depend on how many workers there are nor
\* on how the tests were dealt out: every edge is judged by all its tests, one for
\* each conditioning set.
PartitionIsInvisible ==
    decisions.outcome = "edges" =>
        LET edges    == {e \in Vars \X Vars \X (0..TauMax) : e[1] # e[2] \/ e[3] > 0}
            tests(e) == {Task(e[1], e[2], e[3], S) :
                            S \in {R \in SUBSET (Vars \ {e[1], e[2]}) :
                                      Cardinality(R) <= MaxCondVars}}
        IN  decisions.edges = {e \in edges : KeepEdge(dataset, tests(e))}
=============================================================================
