------------------------------ MODULE TaskPool ------------------------------
(***************************************************************************)
(* What the users of pipeline/src/parallel/worker-pool.ts rely on when     *)
(* they hand it tasks: tasks are started in the order they were submitted  *)
(* (so the started ones are always an initial segment of the submitted     *)
(* ones), only a started task ends, and it ends once: its reply comes back *)
(* or the thread that had it is gone.  How workers, their busy flags and   *)
(* the two message channels bring this about is in WorkerPool.             *)
(***************************************************************************)
EXTENDS Naturals

CONSTANT Tasks          \* the ids a pool can give out

VARIABLES submitted,    \* number of tasks submitted
          started,      \* number of tasks handed to a worker
          returned,     \* ids whose reply was received
          lost          \* ids dropped with the thread that held them

vars == <<submitted, started, returned, lost>>

Ended == returned \cup lost

Init == /\ submitted = 0
        /\ started = 0
        /\ returned = {}
        /\ lost = {}

Submit == /\ submitted' = submitted + 1
          /\ started' \in started..submitted'
          /\ returned' = returned
          /\ lost \subseteq lost'
          /\ lost' \ lost \subseteq {t \in Tasks : t < started'} \ Ended

Progress == /\ submitted' = submitted
            /\ started' \in started..submitted
            /\ returned \subseteq returned'
            /\ lost \subseteq lost'
            /\ (returned' \ returned) \cap (lost' \ lost) = {}
            /\ (returned' \cup lost') \ Ended \subseteq {t \in Tasks : t < started'}
            /\ returned' \cap lost = {}
            /\ lost' \cap returned = {}

Next == Submit \/ Progress

Spec == Init /\ [][Next]_vars
=============================================================================
