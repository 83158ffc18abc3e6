---------------------------- MODULE MCBulkQueue ----------------------------
(* Small instances of BulkQueue. *)
EXTENDS BulkQueue, TLC

CONSTANTS j1, t1, t2

SmallJob == t1 :> j1 @@ t2 :> j1

\* Adverse events that may happen, by kind.
None == [f \in AdverseEvents |-> 0]
EachOnce == [f \in AdverseEvents |-> 1]
Recoverable == [None EXCEPT !["throttle"] = 1, !["crash"] = 1, !["storage"] = 1]

BackendSymmetry == Permutations(Backends)
\* The tasks of one job are symmetric too.
TaskSymmetry == Permutations(Backends) \union Permutations(Tasks)
=============================================================================
