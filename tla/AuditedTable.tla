---------------------------- MODULE AuditedTable ----------------------------
(***************************************************************************)
(* What an audited table promises those who read what is committed: the    *)
(* rows and the log change together, in groups of one entry or more, every *)
(* entry lawful on the rows it was applied to, and what was logged once    *)
(* stays.  Callers, flows and rollbacks do not exist at this level.        *)
(***************************************************************************)
EXTENDS Integers, Sequences

CONSTANTS Seed,          \* the rows the seed wrote
          Apply(_, _),   \* what one entry does to the rows
          Allows(_, _)   \* whether the rows allow the entry

VARIABLES table, log,
          before         \* history: the rows before each entry

tableVars == <<table, log, before>>

At(i) == IF i > Len(log) THEN table ELSE before[i]

Init == table = Seed /\ log = <<>> /\ before = <<>>

\* One group of entries commits.
Commit ==
    /\ Len(log') > Len(log)
    /\ SubSeq(log', 1, Len(log)) = log
    /\ \A i \in 1 .. Len(log) + 1 : At(i)' = At(i)
    /\ \A i \in Len(log) + 1 .. Len(log') :
         /\ Allows(At(i)', log'[i])
         /\ At(i + 1)' = Apply(At(i)', log'[i])

Spec == Init /\ [][Commit]_tableVars

=============================================================================
