---------------------------- MODULE Transactions ----------------------------
(***************************************************************************)
(* What ITransactionStore (core/src/interfaces/index.ts) promises to       *)
(* sessions that take turns: from begin to commit a session works on rows  *)
(* of its own, which a rollback sets to what they were at a checkpoint and *)
(* the commit makes those of the database.                                 *)
(***************************************************************************)
EXTENDS Integers, Sequences

CONSTANTS Rows, Names, Values

VARIABLES committed,  \* the rows of the database
          open,       \* a transaction is open
          working,    \* its rows
          marks       \* its checkpoints: the name and the rows of each

transactionVars == <<committed, open, working, marks>>

Init == ~open /\ working = committed /\ marks = <<>>

Begin ==
    /\ ~open
    /\ open' = TRUE
    /\ marks' = <<>>
    /\ UNCHANGED <<committed, working>>

\* Outside a transaction a row is stored at once.
Store(rows, value) ==
    /\ working' = [r \in Rows |-> IF r \in rows THEN value ELSE working[r]]
    /\ committed' = IF open THEN committed ELSE working'
    /\ UNCHANGED <<open, marks>>

Checkpoint(name) ==
    /\ open
    /\ marks' = Append(marks, [name |-> name, rows |-> working])
    /\ UNCHANGED <<committed, open, working>>

\* Back to a checkpoint, the latest of its name; those after it are gone.
Rollback(i) ==
    /\ open
    /\ \A j \in DOMAIN marks : marks[j].name = marks[i].name => j <= i
    /\ working' = marks[i].rows
    /\ marks' = SubSeq(marks, 1, i)
    /\ UNCHANGED <<committed, open>>

Commit ==
    /\ open
    /\ committed' = working
    /\ open' = FALSE
    /\ marks' = <<>>
    /\ UNCHANGED working

\* A crash undoes what was not committed.
Crash ==
    /\ open' = FALSE
    /\ working' = committed
    /\ marks' = <<>>
    /\ UNCHANGED committed

Next == \/ Begin
        \/ \E rows \in SUBSET Rows, value \in Values : Store(rows, value)
        \/ \E name \in Names : Checkpoint(name)
        \/ \E i \in DOMAIN marks : Rollback(i)
        \/ Commit
        \/ Crash
=============================================================================
