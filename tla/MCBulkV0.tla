------------------------------ MODULE MCBulkV0 ------------------------------
(* Small instances of BulkV0. *)
EXTENDS BulkV0, TLC

CONSTANTS j1, t1, t2

OneJob == t1 :> j1 @@ t2 :> j1

\* Adverse events that may happen, by kind.
EachOnce == [f \in AdverseEvents |-> 1]
NoInsertFault == [f \in AdverseEvents |-> IF f \in {"insert", "answer"} THEN 0 ELSE 1]

Symmetry == Permutations(Tasks) \union Permutations(Hosts)
=============================================================================
