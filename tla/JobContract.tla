---------------------------- MODULE JobContract ----------------------------
(***************************************************************************)
(* What a bulk verification promises of each task, whatever queue carries  *)
(* it: once submitted it is pending, and then it is settled for good, by a *)
(* result in the database (done) or by being given up (lost).  A result is *)
(* never taken back by the queue, and nothing that was given up returns.   *)
(* BulkQueue (RabbitMQ, v1) and BulkV0 (sqlxmq, v0) implement it.          *)
(***************************************************************************)
CONSTANTS Tasks
VARIABLES task   \* task[t]: the state of t

Init == task = [t \in Tasks |-> "absent"]

Becomes(t, from, to) == task[t] = from /\ task' = [task EXCEPT ![t] = to]

Submit(t) == Becomes(t, "absent", "pending")
Finish(t) == Becomes(t, "pending", "done")

\* One fault may cost several tasks their last chance.
Lose ==
  \E lost \in SUBSET {t \in Tasks : task[t] = "pending"} :
    task' = [t \in Tasks |-> IF t \in lost THEN "lost" ELSE task[t]]

Next == (\E t \in Tasks : Submit(t) \/ Finish(t)) \/ Lose

Spec == Init /\ [][Next]_task

\* No task stays pending.
Settled == \A t \in Tasks : task[t] = "pending" ~> task[t] # "pending"
=============================================================================
