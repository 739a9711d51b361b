--------------------------- MODULE VersionClocks ---------------------------
(***************************************************************************)
(* The vector clocks of core/src/types/distributed.ts, as the coordinator  *)
(* and the workers of pipeline/src/graph use them: each advances its own   *)
(* entry, syncClock takes over what another clock knows, and graph         *)
(* versions carry the clock of the process that made them.  An entry that  *)
(* a clock does not have counts as 0, here too.                            *)
(***************************************************************************)
EXTENDS Integers, FiniteSets

CONSTANT Processes      \* the coordinator and the workers

VARIABLES
    clocks,     \* coordinatorClock, currentClock of each worker
    published,  \* graph versions: a clock, and (history) the events before it
    events,     \* history: the number of advances of each process
    past        \* history: the events each process has seen, pairs of a
                \* process and the number of its advance

clockVars == <<clocks, published, events, past>>

Zero == [p \in Processes |-> 0]

\* Mutant: one entry that is larger is enough.
CompareClocksByAny(a, b) ==
    CASE a = b -> "equal"
      [] \E p \in Processes : a[p] > b[p] -> "after"
      [] OTHER -> "before"
CompareClocks(a, b) ==
    LET aGte == \A p \in Processes : a[p] >= b[p]
        bGte == \A p \in Processes : b[p] >= a[p]
    IN  CASE aGte /\ bGte -> "equal"
          [] aGte /\ ~bGte -> "after"
          [] ~aGte /\ bGte -> "before"
          [] OTHER -> "concurrent"

MergeClocks(a, b) == [p \in Processes |-> IF a[p] >= b[p] THEN a[p] ELSE b[p]]

NoVersion == [clock |-> Zero, past |-> {}, made |-> FALSE]
ResolveGraphConflict(a, b) ==
    LET order == CompareClocks(a.clock, b.clock)
    IN  CASE order = "before" -> b
          [] order \in {"after", "equal"} -> a
          [] OTHER -> NoVersion

ClockInit ==
    /\ clocks = [p \in Processes |-> Zero]
    /\ published = {}
    /\ events = [p \in Processes |-> 0]
    /\ past = [p \in Processes |-> {}]

\* incrementClock: the coordinator after a discovery, a worker after a batch.
Advance(S) ==
    /\ clocks' = [p \in Processes |->
                     IF p \in S THEN [clocks[p] EXCEPT ![p] = @ + 1] ELSE clocks[p]]
    /\ events' = [p \in Processes |-> IF p \in S THEN events[p] + 1 ELSE events[p]]
    /\ past' = [p \in Processes |->
                   IF p \in S THEN past[p] \cup {<<p, events[p] + 1>>} ELSE past[p]]

\* worker.syncClock(other.getClock())
SyncClock(p, q) ==
    /\ clocks' = [clocks EXCEPT ![p] = MergeClocks(@, clocks[q])]
    /\ past' = [past EXCEPT ![p] = @ \cup past[q]]
    /\ UNCHANGED <<published, events>>

\* A graph version with getClock().
Publish(p) ==
    /\ published' = published \cup {[clock |-> clocks[p], past |-> past[p], made |-> TRUE]}
    /\ UNCHANGED <<clocks, events, past>>

ClockNext ==
    \/ \E S \in SUBSET Processes : Advance(S) /\ UNCHANGED published
    \/ \E p, q \in Processes : SyncClock(p, q)
    \/ \E p \in Processes : Publish(p)

ClockSpec == ClockInit /\ [][ClockNext]_clockVars

\* A clock says exactly which events its process has seen: of every process the
\* first ones, as many as the entry counts.
Seen(clock) == {e \in Processes \X Nat : 1 <= e[2] /\ e[2] <= clock[e[1]]}

-----------------------------------------------------------------------------
(* Properties *)

\* Of two graph versions made anywhere, the one resolveGraphConflict keeps has
\* seen everything the other has, and it gives up only when neither has: the
\* clocks compare as the histories do, however processes advanced and synced.
ConflictsAreResolved ==
    \A a, b \in published :
        LET kept == ResolveGraphConflict(a, b)
        IN  /\ kept = NoVersion <=> ~(a.past \subseteq b.past) /\ ~(b.past \subseteq a.past)
            /\ kept.made => a.past \cup b.past = kept.past
=============================================================================
