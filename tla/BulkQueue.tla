------------------------------ MODULE BulkQueue ------------------------------
(***************************************************************************)
(* A bulk verification from POST /v1/bulk to the rows of v1_task_result:   *)
(* the HTTP handler that inserts the job and publishes one task per email, *)
(* the "check_email" queue of RabbitMQ, the worker loops that consume it   *)
(* and the tasks they spawn.  A backend is one process that runs both the  *)
(* HTTP server and a worker loop over one AMQP connection and channel.     *)
(*                                                                         *)
(* The broker is external: it is modelled by what the code relies on, with *)
(* publish and ack frames that are in flight until the broker handles them *)
(* (neither is confirmed: no confirm_select) and are lost with the         *)
(* connection.  Whether a check is throttled is nondeterministic (module   *)
(* Throttle models when).                                                  *)
(***************************************************************************)
EXTENDS Naturals, Sequences, FiniteSets

CONSTANTS
  Jobs,         \* the bulk requests
  Tasks,        \* their emails: one queue message each
  JobOf,        \* JobOf[t]: the request that lists t
  Hooked,       \* the requests with a webhook, the only ones that can fail
  Backends,
  Concurrency,  \* worker.rabbitmq.concurrency, the prefetch of the channel
  Budget,       \* Budget[f]: how often an adverse event of kind f may happen
  NoBackend

AdverseEvents == {"throttle", "crash", "disconnect", "broker", "storage"}
Outcomes == {"known", "unknown", "error"}

ASSUME JobsAssumption ==
  /\ JobOf \in [Tasks -> Jobs]
  /\ Hooked \subseteq Jobs
  /\ IsFiniteSet(Tasks)
ASSUME BackendsAssumption ==
  /\ NoBackend \notin Backends
  /\ IsFiniteSet(Backends)
  /\ Concurrency \in Nat
ASSUME BudgetAssumption == Budget \in [AdverseEvents -> Nat]

VARIABLES
  post,        \* post[j]: the progress of the POST /v1/bulk handler
  server,      \* server[j]: the backend that handles it
  queue,       \* queue[t]: where the message of task t is
  redelivered, \* redelivered[t]: the flag the broker sets on a requeue
  holder,      \* holder[t]: the backend whose channel holds t unacknowledged
  loop,        \* loop[b]: the worker loop of backend b
  stage,       \* stage[b][t]: the spawned do_check_email_work of t on b
  flagged,     \* flagged[b][t]: delivery.redelivered of its delivery
  outcome,     \* outcome[b][t]: its worker_output
  rows,        \* rows[t]: the rows of t in v1_task_result, oldest first
  requeued,    \* history: how often an outcome put t back into the queue
  used         \* used[f]: the adverse events of kind f so far

http == <<post, server>>
broker == <<queue, redelivered, holder>>
work == <<stage, flagged, outcome>>
vars == <<post, server, queue, redelivered, holder, loop, stage, flagged, outcome,
          rows, requeued, used>>

TasksOf(j) == {t \in Tasks : JobOf[t] = j}

TypeOK ==
  /\ post \in [Jobs -> {"new", "publishing", "accepted", "aborted"}]
  /\ server \in [Jobs -> Backends \union {NoBackend}]
  /\ queue \in [Tasks -> {"absent", "sent", "ready", "unacked", "acking", "gone"}]
  /\ redelivered \in [Tasks -> BOOLEAN]
  /\ holder \in [Tasks -> Backends \union {NoBackend}]
  /\ loop \in [Backends -> {"consuming", "sleeping", "ended", "down"}]
  /\ stage \in [Backends -> [Tasks -> {"none", "running", "checked", "acked"}]]
  /\ flagged \in [Backends -> [Tasks -> BOOLEAN]]
  /\ outcome \in [Backends -> [Tasks -> Outcomes]]
  /\ rows \in [Tasks -> Seq(Outcomes)]
  /\ requeued \in [Tasks -> Nat]
  /\ used \in [AdverseEvents -> Nat]

Init ==
  /\ post = [j \in Jobs |-> "new"]
  /\ server = [j \in Jobs |-> NoBackend]
  /\ queue = [t \in Tasks |-> "absent"]
  /\ redelivered = [t \in Tasks |-> FALSE]
  /\ holder = [t \in Tasks |-> NoBackend]
  /\ loop = [b \in Backends |-> "consuming"]
  /\ stage = [b \in Backends |-> [t \in Tasks |-> "none"]]
  /\ flagged = [b \in Backends |-> [t \in Tasks |-> FALSE]]
  /\ outcome = [b \in Backends |-> [t \in Tasks |-> "known"]]
  /\ rows = [t \in Tasks |-> <<>>]
  /\ requeued = [t \in Tasks |-> 0]
  /\ used = [f \in AdverseEvents |-> 0]

-----------------------------------------------------------------------------
(* Helpers. *)

\* An adverse event of kind f happens, within its budget.
Happens(f) == used[f] < Budget[f] /\ used' = [used EXCEPT ![f] = @ + 1]

\* The channel of b is open.
Connected(b) == loop[b] \in {"consuming", "sleeping"}

\* What b's channel holds: the prefetch limit (basic_qos) counts these.
Held(b) == {t \in Tasks : holder[t] = b}

\* Delivered to b and waiting in its consumer for the loop.
Buffered(b, t) == holder[t] = b /\ queue[t] = "unacked" /\ stage[b][t] = "none"

\* reject(requeue: true): back into the queue, flagged as redelivered.
Requeue(ts) ==
  /\ queue' = [t \in Tasks |-> IF t \in ts THEN "ready" ELSE queue[t]]
  /\ redelivered' = [t \in Tasks |-> redelivered[t] \/ t \in ts]
  /\ holder' = [t \in Tasks |-> IF t \in ts THEN NoBackend ELSE holder[t]]

\* do_check_email_work of t returns on b.
Finish(b, t) ==
  /\ stage' = [stage EXCEPT ![b][t] = "none"]
  /\ flagged' = [flagged EXCEPT ![b][t] = FALSE]
  /\ outcome' = [outcome EXCEPT ![b][t] = "known"]

-----------------------------------------------------------------------------
(* POST /v1/bulk. *)

\* The handler inserts the job with its total_records.
InsertJob(j, b) ==
  /\ post[j] = "new"
  /\ loop[b] # "down"
  /\ post' = [post EXCEPT ![j] = "publishing"]
  /\ server' = [server EXCEPT ![j] = b]
  /\ UNCHANGED <<broker, loop, work, rows, requeued, used>>

\* publish_task of one more email (ten are published concurrently, so that
\* their frames leave in any order).
Publish(t) ==
  /\ post[JobOf[t]] = "publishing"
  /\ queue[t] = "absent"
  /\ Connected(server[JobOf[t]])
  /\ queue' = [queue EXCEPT ![t] = "sent"]
  /\ UNCHANGED <<http, redelivered, holder, loop, work, rows, requeued, used>>

\* publish_task fails on a channel that is closed: the handler answers 500 and
\* the job row stays, with the tasks published so far.
PublishFails(j) ==
  /\ post[j] = "publishing"
  /\ ~ Connected(server[j])
  /\ \E t \in TasksOf(j) : queue[t] = "absent"
  /\ post' = [post EXCEPT ![j] = "aborted"]
  /\ UNCHANGED <<server, broker, loop, work, rows, requeued, used>>

\* All tasks are published: the client gets its job_id.
Accept(j) ==
  /\ post[j] = "publishing"
  /\ loop[server[j]] # "down"
  /\ \A t \in TasksOf(j) : queue[t] # "absent"
  /\ post' = [post EXCEPT ![j] = "accepted"]
  /\ UNCHANGED <<server, broker, loop, work, rows, requeued, used>>

-----------------------------------------------------------------------------
(* The broker. *)

Enqueue(t) ==
  /\ queue[t] = "sent"
  /\ queue' = [queue EXCEPT ![t] = "ready"]
  /\ UNCHANGED <<http, redelivered, holder, loop, work, rows, requeued, used>>

(* Operators named Mutant... are deliberate errors: substituted for the       *)
(* definition that follows, each makes a property below fail.               *)

\* Mutant: the prefetch limit only counts what waits in the consumer (auto-ack
\* when the loop takes a delivery).
MutantDeliverMore(b, t) ==
  /\ queue[t] = "ready"
  /\ Connected(b)
  /\ Cardinality({u \in Tasks : Buffered(b, u)}) < Concurrency
  /\ queue' = [queue EXCEPT ![t] = "unacked"]
  /\ holder' = [holder EXCEPT ![t] = b]
  /\ UNCHANGED <<http, redelivered, loop, work, rows, requeued, used>>

Deliver(b, t) ==
  /\ queue[t] = "ready"
  /\ Connected(b)
  /\ Cardinality(Held(b)) < Concurrency
  /\ queue' = [queue EXCEPT ![t] = "unacked"]
  /\ holder' = [holder EXCEPT ![t] = b]
  /\ UNCHANGED <<http, redelivered, loop, work, rows, requeued, used>>

HandleAck(t) ==
  /\ queue[t] = "acking"
  /\ queue' = [queue EXCEPT ![t] = "gone"]
  /\ holder' = [holder EXCEPT ![t] = NoBackend]
  /\ UNCHANGED <<http, redelivered, loop, work, rows, requeued, used>>

-----------------------------------------------------------------------------
(* The worker loop and do_check_email_work. *)

\* Mutant: the throttled task is discarded, as a single-shot task would be.
MutantThrottleDiscards(b, t) ==
  /\ loop[b] = "consuming"
  /\ Buffered(b, t)
  /\ Happens("throttle")
  /\ queue' = [queue EXCEPT ![t] = "gone"]
  /\ holder' = [holder EXCEPT ![t] = NoBackend]
  /\ loop' = [loop EXCEPT ![b] = "sleeping"]
  /\ UNCHANGED <<http, redelivered, work, rows, requeued>>

\* A bulk task that meets the throttle goes back into the queue and the loop
\* sleeps for the delay.
ThrottleTask(b, t) ==
  /\ loop[b] = "consuming"
  /\ Buffered(b, t)
  /\ Happens("throttle")
  /\ Requeue({t})
  /\ loop' = [loop EXCEPT ![b] = "sleeping"]
  /\ UNCHANGED <<http, work, rows, requeued>>

\* Mutant: the loop returns after the sleep instead of going on.
MutantWakeUpEnds(b) ==
  /\ loop[b] = "sleeping"
  /\ loop' = [loop EXCEPT ![b] = "ended"]
  /\ UNCHANGED <<http, broker, work, rows, requeued, used>>

WakeUp(b) ==
  /\ loop[b] = "sleeping"
  /\ loop' = [loop EXCEPT ![b] = "consuming"]
  /\ UNCHANGED <<http, broker, work, rows, requeued, used>>

StartTask(b, t) ==
  /\ loop[b] = "consuming"
  /\ Buffered(b, t)
  /\ stage' = [stage EXCEPT ![b][t] = "running"]
  /\ flagged' = [flagged EXCEPT ![b][t] = redelivered[t]]
  /\ UNCHANGED <<http, broker, loop, outcome, rows, requeued, used>>

\* check_email_and_send_result: the check itself cannot fail, the webhook can.
Verify(b, t, o) ==
  /\ stage[b][t] = "running"
  /\ o = "error" => JobOf[t] \in Hooked
  /\ stage' = [stage EXCEPT ![b][t] = "checked"]
  /\ outcome' = [outcome EXCEPT ![b][t] = o]
  /\ UNCHANGED <<http, broker, loop, flagged, rows, requeued, used>>

\* Mutant: the redelivered flag is not looked at.
MutantRequeueAlways(b, t) == outcome[b][t] \in {"unknown", "error"}

\* Mutant: only errors are worth a second check.
MutantRequeueErrors(b, t) == outcome[b][t] = "error" /\ ~ flagged[b][t]

\* An unknown result or an error puts the task back, once.
WantsRequeue(b, t) == outcome[b][t] \in {"unknown", "error"} /\ ~ flagged[b][t]

RequeueTask(b, t) ==
  /\ stage[b][t] = "checked"
  /\ holder[t] = b
  /\ WantsRequeue(b, t)
  /\ Requeue({t})
  /\ Finish(b, t)
  /\ requeued' = [requeued EXCEPT ![t] = @ + 1]
  /\ UNCHANGED <<http, loop, rows, used>>

\* Mutant: the ack is missing.
MutantNoAck(b, t) ==
  /\ stage[b][t] = "checked"
  /\ holder[t] = b
  /\ ~ WantsRequeue(b, t)
  /\ stage' = [stage EXCEPT ![b][t] = "acked"]
  /\ UNCHANGED <<http, broker, loop, flagged, outcome, rows, requeued, used>>

\* Otherwise the task is acknowledged BEFORE its result is stored.
AckTask(b, t) ==
  /\ stage[b][t] = "checked"
  /\ holder[t] = b
  /\ ~ WantsRequeue(b, t)
  /\ queue' = [queue EXCEPT ![t] = "acking"]
  /\ stage' = [stage EXCEPT ![b][t] = "acked"]
  /\ UNCHANGED <<http, redelivered, holder, loop, flagged, outcome, rows, requeued, used>>

\* The channel was lost during the check: a reject fails or goes unheard, and
\* so does an ack.  When ack fails, the result is dropped.
SettleFails(b, t) ==
  /\ stage[b][t] = "checked"
  /\ holder[t] # b
  /\ Finish(b, t)
  /\ UNCHANGED <<http, broker, loop, rows, requeued, used>>

\* While lapin has not noticed the loss, ack returns and the code goes on.
AckUnheard(b, t) ==
  /\ stage[b][t] = "checked"
  /\ holder[t] # b
  /\ ~ WantsRequeue(b, t)
  /\ stage' = [stage EXCEPT ![b][t] = "acked"]
  /\ UNCHANGED <<http, broker, loop, flagged, outcome, rows, requeued, used>>

\* Mutant: the wrong local is stored.
MutantStoreStage(b, t) ==
  /\ stage[b][t] = "acked"
  /\ rows' = [rows EXCEPT ![t] = Append(@, stage[b][t])]
  /\ Finish(b, t)
  /\ UNCHANGED <<http, broker, loop, requeued, used>>

Store(b, t) ==
  /\ stage[b][t] = "acked"
  /\ rows' = [rows EXCEPT ![t] = Append(@, outcome[b][t])]
  /\ Finish(b, t)
  /\ UNCHANGED <<http, broker, loop, requeued, used>>

\* The INSERT fails: logged, and the task is gone already.
StoreFails(b, t) ==
  /\ stage[b][t] = "acked"
  /\ Happens("storage")
  /\ Finish(b, t)
  /\ UNCHANGED <<http, broker, loop, rows, requeued>>

-----------------------------------------------------------------------------
(* Crashes, lost connections and restarts. *)

\* The frames in flight on b's connection are lost: what b published is lost,
\* what its channel holds is requeued, acknowledged or not.
LoseConnection(b) ==
  LET lost == {t \in Tasks : queue[t] = "sent" /\ server[JobOf[t]] = b} IN
  /\ queue' = [t \in Tasks |-> IF t \in lost THEN "gone"
                               ELSE IF t \in Held(b) THEN "ready" ELSE queue[t]]
  /\ redelivered' = [t \in Tasks |-> redelivered[t] \/ t \in Held(b)]
  /\ holder' = [t \in Tasks |-> IF t \in Held(b) THEN NoBackend ELSE holder[t]]

\* The consumer yields an error and the spawned loop ends; nothing reconnects.
\* The process and the tasks it runs go on.
Disconnect(b) ==
  /\ Connected(b)
  /\ Happens("disconnect")
  /\ LoseConnection(b)
  /\ loop' = [loop EXCEPT ![b] = "ended"]
  /\ UNCHANGED <<http, work, rows, requeued>>

Crash(b) ==
  /\ loop[b] # "down"
  /\ Happens("crash")
  /\ LoseConnection(b)
  /\ loop' = [loop EXCEPT ![b] = "down"]
  /\ stage' = [stage EXCEPT ![b] = [t \in Tasks |-> "none"]]
  /\ flagged' = [flagged EXCEPT ![b] = [t \in Tasks |-> FALSE]]
  /\ outcome' = [outcome EXCEPT ![b] = [t \in Tasks |-> "known"]]
  /\ post' = [j \in Jobs |-> IF post[j] = "publishing" /\ server[j] = b
                             THEN "aborted" ELSE post[j]]
  /\ UNCHANGED <<server, rows, requeued>>

\* The process is started again, by the container's restart policy.
Restart(b) ==
  /\ loop[b] = "down"
  /\ loop' = [loop EXCEPT ![b] = "consuming"]
  /\ UNCHANGED <<http, broker, work, rows, requeued, used>>

\* The broker restarts: the queue is durable but its messages are not (no
\* delivery_mode), and every connection is lost.
RestartBroker ==
  /\ Happens("broker")
  /\ queue' = [t \in Tasks |-> IF queue[t] = "absent" THEN "absent" ELSE "gone"]
  /\ holder' = [t \in Tasks |-> NoBackend]
  /\ loop' = [b \in Backends |-> IF loop[b] = "down" THEN "down" ELSE "ended"]
  /\ UNCHANGED <<http, redelivered, work, rows, requeued>>

-----------------------------------------------------------------------------
Handle(b, t) ==
  \/ StartTask(b, t)
  \/ \E o \in Outcomes : Verify(b, t, o)
  \/ RequeueTask(b, t)
  \/ AckTask(b, t)
  \/ SettleFails(b, t)
  \/ AckUnheard(b, t)
  \/ Store(b, t)

Next ==
  \/ \E j \in Jobs :
       (\E b \in Backends : InsertJob(j, b)) \/ PublishFails(j) \/ Accept(j)
  \/ \E t \in Tasks : Publish(t) \/ Enqueue(t) \/ HandleAck(t)
  \/ \E b \in Backends, t \in Tasks :
       Deliver(b, t) \/ ThrottleTask(b, t) \/ Handle(b, t) \/ StoreFails(b, t)
  \/ \E b \in Backends : WakeUp(b) \/ Disconnect(b) \/ Crash(b) \/ Restart(b)
  \/ RestartBroker

Spec == Init /\ [][Next]_vars

\* The broker keeps working, tokio runs every task that can run, a check ends
\* (check_email has its timeouts), sleeps end and the container's restart
\* policy restarts a process that is down.  Clients need not post anything.
Fairness ==
  /\ \A t \in Tasks : WF_vars(Publish(t)) /\ WF_vars(Enqueue(t)) /\ WF_vars(HandleAck(t))
  /\ \A j \in Jobs : WF_vars(PublishFails(j)) /\ WF_vars(Accept(j))
  /\ \A t \in Tasks : SF_vars(\E b \in Backends : Deliver(b, t))
  /\ \A b \in Backends, t \in Tasks : WF_vars(Handle(b, t))
  /\ \A b \in Backends : WF_vars(WakeUp(b)) /\ WF_vars(Restart(b))

FairSpec == Spec /\ Fairness

-----------------------------------------------------------------------------
(* What clients see. *)

\* Mutant: COUNT(*) without the WHERE job_id.
MutantRowsOfAll(j) == UNION {{t} \X DOMAIN rows[t] : t \in Tasks}

\* The rows of a job in v1_task_result, and get_progress's verdict on it.
RowsOf(j) == UNION {{t} \X DOMAIN rows[t] : t \in TasksOf(j)}
\* Mutant: complete one row early.
MutantCompletedEarly(j) ==
  /\ post[j] # "new"
  /\ Cardinality(RowsOf(j)) + 1 >= Cardinality(TasksOf(j))

Completed(j) ==
  /\ post[j] # "new"
  /\ Cardinality(RowsOf(j)) >= Cardinality(TasksOf(j))

\* get_results reads the column "result" of every row as JSON; it is NULL, and
\* the read panics, in the row of a task that failed.
ReadsAsJson(o) == o # "error"
ResultsReadable(j) == \A t \in TasksOf(j) : \A i \in DOMAIN rows[t] : ReadsAsJson(rows[t][i])

-----------------------------------------------------------------------------
(* Properties. *)

InProgress(b) == {t \in Tasks : stage[b][t] \in {"running", "checked"}}

\* A task that the broker no longer has, without a row and with no execution
\* that may still store one.
Lost(t) ==
  /\ queue[t] = "gone"
  /\ rows[t] = <<>>
  /\ \A b \in Backends : stage[b][t] # "acked"

\* "Each worker processes up to 5 emails concurrently": although the limit is
\* the broker's prefetch and tasks outlive their delivery and their channel.
ConcurrencyBound == \A b \in Backends : Cardinality(InProgress(b)) <= Concurrency

\* "we requeue the message, but only once": across workers, crashes and
\* redeliveries, a bad outcome puts a task back at most once.
RequeuedOnce == \A t \in Tasks : requeued[t] <= 1

\* What each fault can cost.  A lost connection costs a task only while its
\* publication is in flight (no publisher confirms), a crash also one that is
\* acknowledged and not stored yet, a failed INSERT the one it was to store: what
\* the queue or a worker has survives all of them, and throttling, requeues and
\* the races between backends cost nothing.  A broker restart costs everything.
Occurs(f) == used'[f] # used[f]
OnlyFaultsLose ==
  [][\A t \in Tasks : Lost(t)' /\ ~ Lost(t) =>
       \/ Occurs("broker")
       \/ queue[t] = "sent" /\ (Occurs("disconnect") \/ Occurs("crash"))
       \/ queue[t] = "gone" /\ (Occurs("crash") \/ Occurs("storage"))
       \/ queue[t] = "acking" /\ used["storage"] > 0]_vars

\* Every crash or lost connection can duplicate the row of a task once, by a
\* redelivery of what was checked already; nothing else can.
RowsBound ==
  \A t \in Tasks : Len(rows[t]) <= 1 + used["crash"] + used["disconnect"]

\* As long as rows cannot be duplicated, a job that get_progress reports as
\* completed has the result of every one of its emails.
CompletedMeansAll ==
  used["crash"] + used["disconnect"] = 0 =>
    \A j \in Jobs : Completed(j) => \A t \in TasksOf(j) : rows[t] # <<>>

\* do_work: "If is_reachable is unknown, then we requeue the message, but only
\* once": an unknown result is stored only after a second check, as long as
\* neither the throttle nor a lost process or connection has put a task back:
\* those set the flag that do_work reads as "second check".
UnknownIsRetried ==
  used["throttle"] + used["crash"] + used["disconnect"] + used["broker"] = 0 =>
    \A t \in Tasks : \A i \in DOMAIN rows[t] :
      rows[t][i] \in {"unknown", "error"} => requeued[t] = 1

\* GET /v1/bulk/{job_id}/results "will return an error if the job is still
\* running": once it is completed its results can be read.
CompletedIsReadable == \A j \in Jobs : Completed(j) => ResultsReadable(j)

\* Each task keeps the contract of a bulk verification: through requeues, restarts
\* and redeliveries it stays pending until its result is stored or nothing is
\* left of it, once and for all, and it does not stay pending for ever.
TaskState ==
  [t \in Tasks |-> IF queue[t] = "absent" THEN "absent"
                   ELSE IF rows[t] # <<>> THEN "done"
                   ELSE IF Lost(t) /\ \A b \in Backends : stage[b][t] = "none" THEN "lost"
                   ELSE "pending"]
Contract == INSTANCE JobContract WITH task <- TaskState
ImplementsContract == Contract!Spec /\ Contract!Settled
-----------------------------------------------------------------------------
(* The inductive invariant of BulkQueueProofs.                             *)

\* An execution that has not yet tried to settle its delivery.
Unsettled(b, t) == stage[b][t] \in {"running", "checked"}

\* A message is held exactly while it is delivered, over a channel that is open.
HolderInv ==
  \A t \in Tasks :
    /\ holder[t] # NoBackend <=> queue[t] \in {"unacked", "acking"}
    /\ holder[t] # NoBackend => Connected(holder[t])

\* On an open channel an unsettled execution is that of a delivery it holds; a
\* process that is down executes nothing.
LinkInv ==
  \A b \in Backends, t \in Tasks :
    /\ Connected(b) /\ Unsettled(b, t) => holder[t] = b /\ queue[t] = "unacked"
    /\ loop[b] = "down" => stage[b][t] = "none"

\* An outcome has put a task back only if its message is flagged, and a flag that
\* was read is still that of the message.
RequeueInv ==
  \A t \in Tasks :
    /\ requeued[t] = 1 => redelivered[t]
    /\ requeued[t] <= 1
    /\ \A b \in Backends :
         Unsettled(b, t) /\ holder[t] = b => (flagged[b][t] <=> redelivered[t])

\* The limit holds for what a channel holds and for what its process executes.
LimitInv ==
  \A b \in Backends :
    /\ Cardinality(Held(b)) <= Concurrency
    /\ Cardinality(InProgress(b)) <= Concurrency

\* The executions that may still store a row of t, beside that of its delivery.
Detached(t) ==
  {b \in Backends : stage[b][t] = "acked" \/ (Unsettled(b, t) /\ holder[t] # b)}
\* Whether the message of t may still lead to one.
Outstanding(t) == IF queue[t] \in {"acking", "gone"} THEN 0 ELSE 1

\* Rows, executions and message together grow with crashes and disconnects only.
Potential(t) == Len(rows[t]) + Cardinality(Detached(t)) + Outstanding(t)
Losses == used["crash"] + used["disconnect"]
RowsInv == \A t \in Tasks : Potential(t) <= 1 + Losses

IInv == TypeOK /\ HolderInv /\ LinkInv /\ RequeueInv /\ LimitInv /\ RowsInv

-----------------------------------------------------------------------------
(* What BulkQueueContract adds to it, about the results.                   *)

\* Nothing is known of a task that has not been published.
AbsentInv ==
  \A t \in Tasks : queue[t] = "absent" =>
    rows[t] = <<>> /\ \A b \in Backends : stage[b][t] = "none"

\* A task whose ack is in flight has a row or is about to have one, or else an
\* INSERT has failed.
AcknowledgedInv ==
  \A t \in Tasks : queue[t] = "acking" =>
    rows[t] # <<>> \/ stage[holder[t]][t] = "acked" \/ used["storage"] > 0

\* A flag that was read is still that of the message; a bad outcome is stored only
\* by an execution that has read it.
FlagInv ==
  \A b \in Backends, t \in Tasks :
    /\ flagged[b][t] => redelivered[t]
    /\ stage[b][t] = "acked" /\ outcome[b][t] \in {"unknown", "error"} => flagged[b][t]

\* What else than an outcome puts a task back.
Disturbances == {"throttle", "crash", "disconnect", "broker"}

\* Unless that has happened, the flag stands for a requeue by an outcome, and so
\* does every bad outcome that is stored.
RetryInv ==
  (\A f \in Disturbances : used[f] = 0) => \A t \in Tasks :
    /\ redelivered[t] => requeued[t] = 1
    /\ \A i \in DOMAIN rows[t] : rows[t][i] \in {"unknown", "error"} => requeued[t] = 1

ResultInv == AbsentInv /\ AcknowledgedInv /\ FlagInv /\ RetryInv
=============================================================================
