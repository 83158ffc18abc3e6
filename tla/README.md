# TLA+ models of check-email ("Reacher") and its coordinator

This directory models the core of the repository: the verification of one address
over SMTP and the configuration it runs with, the request throttle of a backend,
bulk and single-shot verification over RabbitMQ, the older bulk verification over
the `sqlxmq` queue in PostgreSQL, the pruning of its jobs, and the Python
coordinator that spreads a job over several backends. The models are checked with
TLC on small instances. Both queues are shown to implement one abstract
specification, `JobContract`. The safety of the throttle, of both queues (that they
keep the contract included), of the single-shot RPC, of the coordinator and of the
SMTP check is also proved with TLAPS for every value of their constants: every
invariant and every action property of the runs below has its theorem.

Every definition that stands for code is listed in `PROJECT.json` ("map") with
the lines it translates. Operators called `Mutant...` are deliberate errors: each
is the body of the definition after it, changed the way a plausible bug would
change it, and makes one property fail.

## 1. The system

| Component | Source | State | Operations |
|---|---|---|---|
| Request throttle | `backend/src/throttle.rs` | four counters and four instants behind one mutex | `check_throttle` (reset, then compare), `increment_counters` |
| v1 bulk API | `backend/src/http/v1/bulk/` | `v1_bulk_job` | POST inserts the job and publishes a task per email; GET derives progress and results from the rows |
| RabbitMQ worker | `backend/src/worker/{consume,do_work}.rs` | one connection and one channel per process; spawned tasks | consume, throttle, verify, requeue or ack, store |
| Single-shot RPC | `backend/src/http/v1/check_email/post.rs`, `worker/single_shot.rs` | an exclusive reply queue per request | publish, wait, answer; reply after ack |
| Result storage | `backend/src/storage/postgres.rs` | `v1_task_result` | one INSERT per outcome |
| Coordinator | `coordinator/backend/app/{coordinator,database}.py` | SQLite tables `jobs`, `subjobs`, `results`; one coroutine per job and one per server ("lane") | dispatch, submit, poll, fetch, retry, Apify fallback, sweep at start-up |
| Coordinator front ends | `.../main.py`, `mcp_server.py`, `services.py` | none of their own | create a job, read tables, `verify_and_wait` |
| Configuration | `backend/src/config.rs`, `core/src/smtp/verif_method.rs`, `http/v0/check_email/` | the parsed file | merge overrides, proxies and the fields of a request into a method per provider |
| SMTP check | `core/src/smtp/` | one SMTP session | connect, retry, reconnect, catch-all probe |
| Verification pipeline | `core/src/lib.rs`, `mx`, `misc`, `syntax` | none | checks in order, reachability |
| v0 bulk | `backend/src/http/v0/bulk/`, `backend/migrations/` | `bulk_jobs`, `email_results` and the messages of the `sqlxmq` queue | submit, poll, verify, store, complete; status and pages of results |
| Pruning | `backend/src/bin/prune_db.rs` | the same two tables | one SELECT, two DELETEs |
| SQS lambda, CLI, browser front end, auth | `sqs`, `cli`, `coordinator/frontend`, `auth.py` | none that interacts | - |

How they interact:

    client --POST /v1/bulk--------> backend --publish--> RabbitMQ --deliver--> worker loop
    client --POST /v1/check_email-> handler --publish-->   (same queue)          |
                 ^------------------- reply queue <--------- reply ---------------|
    worker --INSERT--> PostgreSQL <--COUNT(*), SELECT-- GET /v1/bulk/{id}[/results]
    client --POST /v0/bulk--> backend --INSERT--> bulk_jobs, mq_msgs <--mq_poll-- runner
    runner --INSERT--> email_results <--DELETE-- prune_db ; GET /v0/bulk/{id}/results reads it
    coordinator lane --submit, poll, fetch--> backend ; lane --> SQLite
    MCP client --verify_and_wait--> coordinator: create the job, look at it until it ends
    worker loop, handlers --check, count--> throttle

What is hard about it (the list with lines is "hazards" in `PROJECT.json`):

* The throttle is checked and counted in two critical sections, and counts in a
  window that another caller may have reset in between.
* A worker acknowledges a task before it stores the result, publishes without
  confirms, and nobody reconnects a channel that was lost.
* One flag, `redelivered`, says both "an unknown result was requeued" and "the
  broker or the throttle put this message back".
* One channel carries publishes, acks, replies and their consumers. The order of
  its frames and its one prefetch limit matter.
* Progress of a job is a number of rows, not a set of finished emails, in both
  generations; prune_db takes the same number as its licence to delete.
* The v0 queue is a lease per message with a few attempts: executions overlap
  when a lease lapses, and a message that used up its attempts stays for ever.
* Three queries make one page of results, and ids are given before they commit.
* The method of a check is merged from four places: the request's method fields,
  its proxy, the overrides of the file and the file's top level.
* The coordinator keeps a job's state in three tables and in coroutines, gives up
  batches that go on remotely, asks again for emails that already have a row, and
  must clean up whatever a restart interrupts.
* A verification talks to a server that may be silent, refuse, or hang up at every
  step, under a timeout that may fire anywhere, and is repeated for some errors.

## 2. Modules

### `Throttle`

`requests[k]`, `last_reset[k]` are the fields `requests_per_*` and `last_reset_*`
(`NumLimits` is 4 in the code). `holder` is the mutex, held from the reset to the
comparison. `check_throttle` is `CheckResets` followed by one of `CheckAllows`,
`CheckRefuses`, `CheckBacksOff`: two steps because `should_throttle` reads the
clock again, and `Tick` may come in between. The callers are the worker loop
(counts right after it spawns the task) and the HTTP handlers: with the worker
enabled they check and publish but never count (`Forward`), without it they count
after `check_email` has returned (`Count`), or never, when the client has gone
(`Disconnect`). `starts`, `recent` and `before` are history variables: when each
verification was started, and in which window of each limit.

### `BulkQueue`

`post[j]` is the POST handler; `queue[t]`, `redelivered[t]` and `holder[t]` the
broker's view of a task's message; `loop[b]` the spawned consumer loop of a
backend; `stage[b][t]`, `flagged[b][t]`, `outcome[b][t]` the spawned
`do_check_email_work`; `rows[t]` the rows in `v1_task_result`. A task may run
on two backends at once, which is why its local state is indexed by both.
`AckTask` and `Store` are separate steps with a crash, a lost connection or
other tasks between them. `LoseConnection` loses the publishes in flight and
requeues what the channel held. After `Disconnect` a loop is "ended" for good,
as in the code; after `Crash` the container's restart policy starts the process
again. `RestartBroker` drops the messages, which are published without
`delivery_mode`. `Budget` bounds each kind of adverse event.

### `JobContract`

The abstract specification of a bulk verification: a task is absent, then
pending, then done or lost for good. `Next` says what no step may do (take a
result back, revive what was lost, lose what was done); `Settled` says that no
task stays pending. `BulkQueue` and `BulkV0` implement it under their mappings
`TaskState`: done means a row exists, lost means that there is no row, no
message that will be delivered and no execution that may still store one.

### `BulkV0`

`post[j]` is the POST handler, `jobs` the table `bulk_jobs`. A message is
`attempt_at[t]` and `attempts[t]`, as in `mq_msgs`: `mq_poll` uses up an attempt and
moves `attempt_at` to the end of a lease, or to NULL with the last attempt. The
module names an execution by its task and the attempts that were left, so that
`stage[t][a]`, `host[t][a]`, `port[t][a]` and `row[t][a]` are the local state of
`email_verification_task`; two executions of a task overlap after a `Lapse`.
`Insert` and `CommitInsert` are two steps because the id of a row, and with it its
place in `ORDER BY id` (`ids`), is fixed before others see the row. An INSERT under
way when its client crashes still commits; one that never reached the server is a
crash before `Insert`. `InsertFails` is one that stores nothing, `InsertAnswerLost` one
that commits although its task sees an error: the task is retried and stores a second
row. A check may also never return (`Check` has no fairness), since a v0 task is
given no `smtp_timeout`. `SelectTotal`, `SelectCount` and `SelectPage` are the three
queries of a page; `reader[j]` is a client that asks for page after page. `SelectOld`, `DeleteResults`, `DeleteJobs` and `PruneFails` are
prune_db: each statement is its own transaction, and the second DELETE waits for
INSERTs under way, whose foreign key locks the job's row, and fails if one has
committed since the first. `interrupted` is a history variable.

### `SingleShot`

The same broker seen through the frames a backend has sent: `wire[b]` is the
FIFO of one channel, so that "ack, then reply" and "discard, then 429" arrive in
that order or are lost together from some point on. `reply[r]` is the exclusive
reply queue of a request. `Load(b)` is what the global prefetch counts: tasks AND
replies, since handlers consume their replies on the channel of the worker.
The bulk tasks are there because they compete for priority, slots and the
loop, which sleeps after throttling one of them. Storing is left to `BulkQueue`.

### `Coordinator`

One job. `status`, `counts`, `subjobs` and `rows` are its rows in SQLite; the
results are a function from their ids, which `AUTOINCREMENT` never gives twice
(`last_id`), so that "ORDER BY id" is the order of the domain. `phase`, `attempt`,
`assignments` are the coroutine `_run_job`; `lane[s]` the coroutine
`_run_server_batches` of a server, with the places (in `assignments`) of its batch
and of those still to run; `remote[s]` the bulk job it waits for, which behaves as
`BulkQueue` allows: rows in any order, some perhaps never, some perhaps twice
(`MaxDuplicates`). The properties that such a row breaks are stated for
`duplicates = 0`. A step is the code between two awaits of the event loop, so that `Fetch` runs its
three transactions in one step; `RestartAfterInsert` is the crash between
them, `RestartAfterApify` the one between the two transactions that store Apify's
answer. `ApifyFails` is the call that fails inside the inner `try` and falls back to
the servers, `ApifyRaises` an answer whose items are not understood, outside of it,
which fails the job. `Restart` is `Database._initialize` finding the interrupted job. `waiter` is a
call of `verify_and_wait` on the MCP server: it may have created the job, looks at
it from time to time, and answers or gives up; it ends with the process. `apify`
and `failed` are history variables.

### `SmtpCheck`

One call of `check_email`. `pc` is the await at which it is suspended; each
action is one exchange with the mail server and the code up to the next await.
`Fail(e)` is the way every error of an attempt takes: back through
`check_smtp_without_retry` to `check_smtp_with_retry`, which tries again or
returns. `Timeout` may cut an attempt at any await, also while a QUIT whose
result is ignored is under way (`Abort`, `Hangup`). A reply is its sort (which
variant of the async-smtp error it becomes) and the phrases that `parser.rs`
searches for; `is_invalid`, `is_err_ip_blacklisted` and the others are that
search. `Init` takes any configuration file that `load_config` accepts
(`SettingsType`, `validate_proxies`) and any request (`RequestType`: v1, v0 or a
task of `/v0/bulk`) and computes what the check needs of both, `conf`, the way the
code does: `get_verif_method`, then `to_check_email_input` or `TaskInput`, then
`get_proxy`. `probed`, `answered`, `refused`, `attempts`, `connections` and `direct`
are history variables; `refused` says what the code has made of the last refusal of
the client: returned it as the error of the attempt, ignored it (the random address:
`smtp_is_catch_all(..).unwrap_or(false)`), searched it for a verdict on the mailbox
first, or lost it to a timeout while `try_smtp` was sending QUIT. `BulkQueue` and
`SingleShot` see this module as one nondeterministic outcome.

### MC modules

The `MC...` modules only define constants (windows, budgets of adverse events,
replies, configurations) and symmetry sets.
Symmetry is used in safety runs only: backends among themselves, tasks of the
one job, requests.

## 3. Runs

| Run | Instance | Shows |
|---|---|---|
| `ThrottleWorker` | worker loop, 2 handlers, windows of 2 and 4 ticks with maxima 2 and 3, 7 instants, 9 starts | any interval of a window's length has at most twice the maximum of starts (`BurstBound`), also when a handler resets the window between check and count; its sleep is long enough (`WakeMeansFree`) |
| `ThrottleHttp` | no worker, 2 handlers, maxima 1 and 2 | overruns are bounded by the number of handlers (`OverrunBound`) |
| `BulkQueueFaults` | 1 job of 2 tasks, 2 backends, one adverse event of each of 5 kinds | at most one requeue per task, what each fault can cost (`OnlyFaultsLose`), unknown results stored only after a second check unless something else set the flag, one duplicate row per crash or lost connection, never more verifications at once than the prefetch limit, completed means all while nothing was duplicated |
| `BulkQueueLive` | 1 job of 2 tasks, 2 backends, one throttling, crash and failing INSERT, fairness | `ImplementsContract`: the queue implements `JobContract`, including that every task is settled |
| `BulkV0Queue` | 1 request of 2 emails, with no port or 2 ports, 2 backends, 2 attempts, one crash, lapse, failing INSERT, INSERT whose answer is lost and failing completion, fairness | `ImplementsContract` for the v0 queue; one duplicate row per crash, lapse, failed completion or INSERT that commits unheard (`RowsBound`); a task is given up only after as many faults as it has attempts (`LostIsExhausted`); a task whose own checks return is settled, whatever silent servers do to the others (`SettledUnlessHeld`) |
| `BulkV0Prune` | 1 request of 2 emails, 1 backend, pages of one row, prune_db at any time, one crash, lapse and failed completion | `PagesComplete`: a client reads each email exactly once unless a row was duplicated or pruned; `PrunedIsFinished`: no result of an unfinished job is deleted, and no job survives its results except where prune_db failed |
| `SingleShotRpc` | 1 request, 1 bulk task, 2 backends with a prefetch of 1, one throttling, crash and lost connection, fairness | at most one reply; no verification of an email after its answer; every waiting handler is answered, except where a process or connection was lost and the task is gone without a reply |
| `CoordinatorJob` | 2 emails, 2 servers, batches of 1, Apify, 2 retry rounds, one restart, with and without `verify_and_wait`, fairness | one row per email, unknown emails seen by two servers (`UnknownsSeenTwice`), results never lost and known results final (`ResultsStay`), completed batches stored, progress monotone, nothing dangling after a restart, a completed job lacks at most the emails of its failed batches and has used its retries (`CompletedIsExhausted`), what `verify_and_wait` answers is the end of the job (`AnswerIsFinal`), every job and every wait ends |
| `SmtpCheck` | every provider and method, files with and without a top-level proxy and overrides, requests of each kind, `retries` 0 to 2, ten refusals at every exchange | `ConnectionsBound`; `UnknownIsExhausted`: attempts are never given up early; `VerdictIsBacked`: the output rests on what the server said in the last attempt; `RefusedIsFinal`: no connection after a refusal that the code takes as one; `NoDirectConnection`: a proxy that the request or the configuration asks for is used; `CheckEnds` with a timeout or the browser |
| `BulkQueueErrorRow` | violation | see finding 1 |
| `CoordinatorTwoServers` | violation | see finding 2 |
| `SmtpProxy` | violation | see finding 3 |

Why the bounds are enough. Two backends and two tasks are the smallest instance in
which a task runs twice at once while another is still outstanding, which is what
the duplicate row needs. One event of each kind in every order contains each
pair of faults; the bounds of `RowsBound` count events, so that a second
one of a kind adds only a repetition. Seven instants with windows of 2 and 4 give
three windows of the one inside two of the other, and the proofs remove the bound
altogether. Two servers with two retry rounds is the smallest instance in which
`(last + attempt) % n` leaves the last server in one round and comes back to it in
another; `UnknownsSeenTwice` holds there, `RetriedElsewhere` does not (finding 2). In
`CoordinatorJob` both emails may end up on one server in the second round, as two
batches with the pacing between.
In `BulkV0` two attempts are the fewest with both a retry and an exhausted message,
and one fault of each kind in every order contains the pairs that use both up. Two
emails and pages of one row are the smallest instance in which a row can become
visible between two pages, before or after those already read. `Refusals` in
`MCSmtpCheck` has one reply per branch of the parser.

`CHECK_DEADLOCK FALSE` is set everywhere because all these systems stop
legitimately: the clock's bound, all tasks done, the job ended.

Fairness. `BulkQueue`: weak fairness of every broker and tokio step that stays
enabled; strong fairness of delivery, since a loop may be asleep or its slots
full again and again; weak fairness of `Restart` from the container's restart
policy (`docker-compose.worker.yml`). None for clients, faults or throttling.
That a check returns is part of it and rests on `smtp_timeout`, which
`docker-compose.worker.yml` sets.
`SingleShot`: the same, with strong fairness of deliveries and of reply
deliveries. `BulkV0`: weak fairness of the commit of an INSERT, of the completion and
of the end of a lease, strong fairness of being polled, since other messages may fill
the runner again and again while `mq_poll` takes the message that is due longest;
none for the checks, which have no timeout (`task.rs:79-86`), for clients, for
prune_db or for faults. `SettledUnlessHeld` therefore assumes of a task that its own
checks return, and of the runners that one of them has a free slot again and again. `Coordinator`: weak fairness of
`_run_job` and of each lane, whose every await has a timeout (`BatchFails` is always possible and is what ends a
batch no server answers); none for the servers and none for `Poll`, so that
`JobEnds` does not rest on any answer; weak fairness of the loop of
`verify_and_wait`, and none of its timeout. `SmtpCheck`: weak fairness of the resolver
and the browser, which bound their own waits, and of the timer; none for the
mail server, so that `CheckEnds` rests on `smtp_timeout`.

### Findings

1. `BulkQueueErrorRow`: a task that fails twice is stored with a NULL result;
   `job_result_as_iter` reads that column as JSON of every row.
2. `CoordinatorTwoServers`: `_unknown_assignments` promises "a server other than
   the one that produced its current result"; with two servers, the second round
   picks that server.
3. `SmtpProxy`: `validate_proxies` (`verif_method.rs:165-219`) leaves out Mimecast
   and Proofpoint. With a proxy id that is not configured, `get_proxy` returns
   None and the check connects without a proxy, where `load_config` says that
   each provider's proxy "must exist".

Seen while modelling, without a run of their own: `get_progress.rs:107` compares
the number of rows with `total_records`, so that a task redelivered after a lost
connection, which is stored twice, completes its job for another that has no
result yet (`CompletedMeansAll` excludes duplicated rows, and so do `PagesComplete`
and `PrunedIsFinished` for v0); without a worker, concurrent
requests pass a throttle limit (bounded by `OverrunBound`); the comment at
`worker/consume.rs:75-76` on "only one consumer" does not count the reply
consumers on the same channel; a duplicated row on a server gives an email two
rows in the coordinator's `results`, which `OneRowPerEmail` excludes by
`duplicates = 0`, and completes its bulk job one row early; `_run_server_batches` swallows the transport errors that
`_run_reacher_retries` says it returns. `do_work.rs` requeues an unknown result
"but only once", decided by `delivery.redelivered`, which a throttled or lost
delivery has set before the first check: `UnknownIsRetried` excludes those. In
`SmtpCheck`: a refusal in reply to the random RCPT counts as "not catch-all" and the
check goes on, over a new connection if it must (`connect.rs:266-268`, `:293`); a reply with status 5.7.1 makes an email invalid before it can be
recognised as a refusal of the client's IP, although `parser.rs:165-183` lists
such replies as blacklistings (`VerdictIsBacked` excludes them); a timeout during
the QUIT of `try_smtp` turns a refusal into a retried error (`RefusedIsFinal`
excludes these refusals and that of the random address); a disposable address is "invalid", not "risky" as
`docs/getting-started/is-reachable.md` has it, because `check_syntax` already
refuses it with the same `mailchecker::is_valid`; a reconnection makes more SMTP
connections than "the total number" that `retries` is documented to be
(`ConnectionsBound` has twice the number).

Of the v0 code: the comments in `prune_db.rs:50` and `:64` say "within the
transaction", but both DELETEs are executed on `&pool` and the transaction begun at
`:40` is empty. `task.rs:210-212` says of an empty result "This can can never occur
currently": `smtp_ports: []` is accepted and every task of such a request completes
without a row, so that the job never does (`LostIsExhausted` excludes it). A silent
mail server holds a v0 execution, and its runner's slot, for ever. A message
whose attempts are used up stays in `mq_msgs` with `attempt_at` NULL and its job
stays "Running".

Of the configuration: a task of `/v0/bulk` knows nothing of the
backend's configuration, and a request with `yahoo_verif_method` or
`hotmailb2c_verif_method` set to `Smtp` and no proxy of its own connects directly,
where `backend_config.toml` says of the top-level `[proxy]` that it is "to route all
SMTP verification requests through a specified proxy" (`NoDirectConnection`
speaks of what the request or the method that applies names); an override replaces
the top-level `smtp_timeout` too. The SQS lambda's handler loads the configuration
without `connect()`, so that its storage adapter is `Noop` and `store` does nothing.

## 4. Proofs

`ThrottleProofs` proves, for every finite set of handlers, every number of
limits, all widths and maxima (with `NoLimit` for an unset one), every
`MaxTime` and `MaxStarts`:

* `TypeCorrect`: `Spec => []TypeOK`
* `OverrunIsBounded`: `Spec => []OverrunBound`
* `WorkerStaysWithinLimit`: with a worker, `Spec => []CounterWithinLimit`; without one
  only `OverrunBound` holds
* `BurstIsBounded`: `Spec => []BurstBound`
* `DelaySuffices`: `Spec => []WakeMeansFree`

The assumptions are the module's named ASSUMEs: finite, non-empty `Handlers`
without the worker, positive widths, natural maxima. The inductive
invariant is `IInv` at the end of `Throttle.tla`:

* `OverrunBound` is inductive with `TypeOK` and `LockInv`, because a check is
  passed only by a caller that was not in flight while the counter is below its
  maximum, and counting moves one caller from the second summand to the first.
* `BurstBound` is not: it speaks of all intervals. `WindowInv` attributes each
  start to the current window of a limit (`recent`), the one before (`before`),
  or an older one. The first two hold at most the maximum each; an older start
  lies a full `Width` before the last reset, so that no interval of that length
  meets both it and a recent one. `Pending` is the start whose count is still
  to come, which a reset by a handler may move into the next window.
* `SleepInv` relates the deadline to the window that refused the worker, unless
  a handler has reset that window meanwhile; `DelaySuffices` follows.

`BulkQueueProofs` proves, for any set of jobs, any finite sets of tasks and
backends, any `Concurrency` and any budget of throttlings, crashes, lost
connections, broker restarts and failing INSERTs:

* `TypeCorrect`: `Spec => []TypeOK`
* `RequeuedAtMostOnce`: `Spec => []RequeuedOnce`
* `ConcurrencyIsBounded`: `Spec => []ConcurrencyBound`
* `RowsAreBounded`: `Spec => []RowsBound`

None of the three bounds is inductive: each depends on how the broker's view of
a message and the executions of its task are related. `IInv`, at the end of
`BulkQueue.tla`, is the conjunction of

* `HolderInv`: a message is held exactly while it is unacknowledged, over an open
  channel;
* `LinkInv`: while its channel is open, a process executes only what the channel
  holds, so that two unsettled executions of a task are on different channels
  of which one at least is lost;
* `RequeueInv`: an outcome that has put a task back has flagged its message, and a
  flag read at the start of an execution is still that of the message it holds;
  `RequeuedOnce` follows, because only an unflagged execution may requeue;
* `LimitInv`: both what a channel holds and what its process executes stay within
  the limit. On an open channel the second is a subset of the first (`LinkInv`);
  a closed one starts nothing (`Moves`);
* `RowsInv`: the potential of a task, its rows plus the executions that may store
  another without holding the message plus one while the message may still be
  delivered, is at most one plus the crashes and lost connections so far. An ack
  turns the message into such an execution, an INSERT turns the execution into a
  row, and only a crash or a lost connection adds to the sum, either by putting
  an acknowledged message back or by detaching an execution from its message
  (`PotentialNext`).

`BulkQueueContract` goes on from there, under the same assumptions. It adds to `IInv`
the invariant `ResultInv` about what is stored (`Results`) and proves

* `FaultsLoseLittle`: `Spec => OnlyFaultsLose`, an action property. By
  `AcknowledgedInv` a message whose ack is under way has a row or an execution that is
  going to store one, or an INSERT has failed, so that the broker's handling of the
  ack loses nothing. Each other action is taken by itself: a lost connection puts back
  what its channel held, and what a process forgets without having acknowledged it the
  broker delivers again.
* `BadOutcomesAreRetried`: `Spec => []UnknownIsRetried`. `FlagInv` says that a bad
  outcome is stored only by an execution that has read a flag; `RetryInv`, that
  without another disturbance a flag stands for a requeue by an outcome.
* `CompletedJobsAreWhole`: `Spec => []CompletedMeansAll`, by counting: without
  crashes and lost connections each task has at most one row (`RowsBound`), so
  that the tasks with a row are as many as the rows, and a set of tasks that is as
  large as that of all tasks of the job is that set (`EveryTaskCounted`).
* `QueueKeepsContract`: `Spec => Contract!Spec`. Each action maps to a step of
  `JobContract` or to a stutter for every task: a row stays (rows are only
  appended), an acknowledged message without row and execution stays lost, and
  nothing becomes absent again. It needs `AbsentInv` and `HolderInv` in the states
  in which `TaskState` is computed.

`BulkV0Proofs` proves, for any set of jobs and finite set of tasks, any hosts, any
`MaxAttempts > 0`, any limits of the runner and any budget of faults:

* `TypeCorrect`: `Spec => []TypeOK`
* `DuplicatesArePaidFor`: `Spec => []RowsBound`
* `GivenUpIsExhausted`: `Spec => []LostIsExhausted`
* `RunnerKeepsContract`: `Spec => ImplementsContract`

The invariant is `QueueInv`, with two potentials of a task. `RowsInv`: rows plus
executions that may insert another plus one while the message may be polled without
a fault. A poll takes the one and starts an execution, an INSERT turns that into a
row, and only crashes, lapses, failed completions and INSERTs that commit unheard add
to the sum. `SpentInv`: as
long as there is no row, the attempts that were used up are at most the faults plus
the one that goes on. `MessageInv` and `ExecutionInv` say what the columns of a
message and the local state of an execution have to do with each other: a poll uses
an attempt that no execution has used.

`BulkV0Results` adds the clients and prune_db (`Invariant: Spec => []IInv`):

* `ClientsReadAll`: `Spec => []PagesComplete`. A client begins to read when there
  are as many visible rows as tasks. Without duplicates these are one of each task
  (`ReaderInv`), so that no row can become visible before or between the pages: the
  rank of a row, on which the offset of the next page rests, does not change any
  more. Rows are named by their place in `ids` (`Visible`, `Rank`) to say so.
* `PrunesFinishedJobs`: `Spec => []PrunedIsFinished`. `PruneInv` follows a selected
  job through the two DELETEs: all rows visible, then all deleted, and new ones only
  as duplicates.

`SingleShotProofs` proves, for any sets of requests, bulk tasks and backends, any
prefetch and any budget, `Invariant: Spec => []IInv` and from it

* `TypeCorrect`: `Spec => []TypeOK`
* `AnsweredAtMostOnce`: `Spec => []AtMostOneReply`
* `NothingIsVerifiedAgain`: `Spec => []AnsweredIsGone`

Both follow from the order of frames on one channel. `SettleInv`: a delivery is
settled by at most one frame, over the channel that holds it, and an execution on
an open channel has not settled its own. `OrderInv`: wherever there is a reply
(an execution about to send one, a frame in flight, a queue, an answer) its message
is gone, or a frame that removes it is ahead of the reply on the same channel. With a
lost channel both go. `OnceInv`: there is one such reply in all these places
together; an execution that becomes a second one would need a message, which the
first has removed. The lemmas on `Frames` say what sending, handling and losing
frames does to those of one task.

`SmtpCheckProofs` proves, for any addresses, any settings and requests, any
natural `retries` and any set of replies, `Invariant: Spec => []IInv` and

* `TypeCorrect`: `Spec => []TypeOK`
* `FewConnections`: `Spec => []ConnectionsBound`. `Tries` says that `count` and the
  attempts made add up to `retries`, `ConnectInv` that the second connection of an
  attempt is its reconnection.
* `GivesUpLate`: `Spec => []UnknownIsExhausted`
* `OutputIsBacked`: `Spec => []VerdictIsBacked`. `VerdictInv` says what an attempt
  concludes from what it has heard, at every await. The proof goes by cases on the
  order of the searches in `parser.rs`; it showed that an earlier form of the
  property was true only for replies with a single phrase, as those of the run are.
* `ProxyIsKept`: `Spec => []NoDirectConnection`, by cases on the four places the
  method comes from.
* `RefusalIsFinal`: `Spec => RefusedIsFinal`, an action property, for any timeout: by
  `RefusedInv` a check whose attempt returns the refusal is at its end, or on the way
  there over a QUIT (if the timeout cuts that, the refusal is `"overtaken"`). Retries
  cannot follow because `Retryable` excludes the errors with a description.

`CoordinatorProofs` proves, for any numbers of emails, servers, retry rounds,
restarts and duplicated rows, any size of a batch, with or without Apify,
`Invariant: Spec => []IInv` and

* `TypeCorrect`: `Spec => []TypeOK`
* `RowsAreUnique`: `Spec => []OneRowPerEmail`. Not inductive: `Fetch` keeps it only
  because the server lists each place of the batch once (`RemoteInv`) and the places
  of a round have different emails, which `UnknownAssignments` takes from the rows,
  one of each email. `UniqueInv` is that circle, closed by the third conjunct: what
  is still to be stored replaces unknown verdicts only.
* `ResultsAreKept`: `Spec => ResultsStay`, an action property. The DELETE of
  `insert_results` meets only emails that get a new row in the same transaction, and
  by `UniqueInv` none with a known verdict, also when the process dies before the
  next transaction.
* `RetriesMove`: `Spec => [](attempt % NumServers # 0 => RetriedElsewhere)`, for any
  number of servers. `RetriesReturn` is the converse: in a round whose number is a
  multiple of the number of servers every retry goes back to the server of the result,
  which is why the code's comment cannot hold there. `RetryServer` computes the server
  of a retry, `ModMoves` is the arithmetic. `BackendInv` is needed when an email has
  several rows.
* `UnknownsAreSeenTwice`: `Spec => []UnknownsSeenTwice`, what is left of the docstring's
  promise when rounds return. By `SeenInv` the server of every result has had its email
  in a batch; in the first retry round, which always moves when there are two servers,
  each unknown email is still to be stored from another server, and when it is stored
  its old and its new server are the two. Later rounds only add servers.
* `CompletedBatchesAreStored`: `Spec => []CompletedBatchIsStored`, by counting: without
  duplicates a list of as many rows as the batch has emails contains each of them
  (`PigeonHole`, `RemoteBound`). After a restart it is `Sweep` that keeps it: the job of
  a completed subjob without results says that it has failed.
* `CompletedJobsAreExhausted`: `Spec => []CompletedIsExhausted`. `CoverInv` says that
  every email has a row, is in a lane that will store it, or was in a batch that failed
  (`GivenUp`, which only grows).
* `ProgressGoesOn`: `Spec => ProgressMonotone`, an action property. `ProgressInv`: what
  is shown is not ahead of the tables, whose progress only grows (`ProgressGrows`),
  since a subjob has never processed more than its total when `Fetch` sets it to the
  total, and a deleted row is replaced.
* `NothingIsLeft`: `Spec => []NothingDangles`. `LaneInv` and `SubjobsInv` pair each
  subjob that is under way with a lane, and no lane outlives its round.
* `AnswersAreFinal`: `Spec => []AnswerIsFinal`. `JobInv` ties `status` to `phase`, so
  that nothing runs after the end. That the counts agree holds only where someone
  waits, since a restart between two transactions separates them and ends who waits.

`IInv` was checked first with TLC as an invariant: on the instance of `CoordinatorJob`,
on two servers with a duplicated row, and on three emails on one server in batches of
two with a duplicated row.

Not proved, and left to TLC: liveness under fairness (`Contract!Settled`,
`SettledUnlessHeld`, `Answered`, `JobEnds`, `CheckEnds`), which is out of the prover's
reach here. `CounterWithinLimit` (of the worker) is proved and has no run.

## 5. Abstractions

* Payloads, headers, UUIDs, HTML, CSV and logging are left out. A verification is
  a nondeterministic outcome (known, unknown, error), an error being possible
  only with a webhook, the only fallible call after the check.
* Whether a check is throttled is nondeterministic in `BulkQueue` and `SingleShot`;
  `Throttle` says when.
* The broker is external: FIFO frames per channel, requeue of unacknowledged
  deliveries when a connection is lost, transient messages. Queue order is not
  modelled (any ready task may be next), except for the priority of single-shot
  tasks over bulk tasks.
* Database reads see all earlier writes, except that in `BulkV0` an INSERT is seen
  only once it has committed. In `BulkQueue` only the INSERT of a result may fail, in
  `BulkV0` also those of the POST handler, the completion and the statements of
  prune_db; the SQLite of the coordinator does not fail.
* A client that leaves while its single-shot request is in the RPC is not
  modelled: its handler would stop waiting and nothing else changes.
* `_fetch_results` reads one page, and `verify_and_wait` answers with the first; the
  coordinator's clock appears only as the timeouts and sleeps that may end.
* In `BulkV0` the runner of the crate `sqlxmq` is external: it polls while fewer than
  the minimum of its tasks run, and takes any of the messages that are due, up to
  its maximum; backoffs are leases that may end at any time. `check_email` is a
  result or, when there is a further port, perhaps unknown. A client reads with a
  fixed limit and the offset of what it has got; prune_db deletes at most the jobs
  it has selected, once per run.
* The names, addresses and ports of a verification method are left out; a proxy is
  its id, and `validate_proxies` is that of the one provider the check will use.
* In `SmtpCheck` the greeting, EHLO and the TCP or SOCKS5 connection are one
  exchange; suggestions, normalised addresses, gravatar and haveibeenpwned, which
  do not influence `is_reachable`, are left out, as are the sleeps of the browser.
* `InsertJob` includes the validation of the body, which refuses before any
  change of state.

## 6. Not modelled, and the plan

`Pacing`: several jobs that share a server's allowance per minute, with a clock
(`coordinator.py:242-264`); `PROJECT.json` lists it among the hazards without a
property. The others of these are losses and waits that the code allows as it is: no
property could hold there, and each has a note saying which property exempts it.

Not planned: what happens on the pages the browser and the Yahoo API visit (its
result is an answer in `SmtpCheck`), authentication (`auth.py`, `mcp_auth.py`,
`check_header`: a check of each request that keeps no state beside the job's), the
browser front end, the SQS lambda (one check per invocation, without state; its
redelivery is AWS's), CSV layout (`csv_helper.rs`), address normalisation and
suggestions (`util/`), which do not influence `is_reachable`, the CLI,
and vendored or generated files.
