------------------------------- MODULE BulkV0 -------------------------------
(***************************************************************************)
(* The deprecated bulk verification of POST /v0/bulk: the handler inserts  *)
(* the job and one message per email into the sqlxmq queue, which lives in *)
(* the same PostgreSQL database; the runner of each backend polls it, runs *)
(* email_verification_task, which stores a result and then completes its   *)
(* message; clients read status and results; prune_db, run by hand or by   *)
(* cron, deletes old jobs.                                                 *)
(*                                                                         *)
(* An execution is named by its task and the attempts its message had left *)
(* when it was polled: each poll uses one up, so that this pair is unique. *)
(* The runner of sqlxmq and PostgreSQL are external.  A message is a lease *)
(* until attempt_at, which the runner extends while the execution goes on  *)
(* (mq_keep_alive); a lease that lapses nevertheless (a stalled runner, a  *)
(* failed query) is an adverse event.                                      *)
(***************************************************************************)
EXTENDS Naturals, Sequences, FiniteSets

CONSTANTS
  Jobs,         \* the bulk requests
  Tasks,        \* their emails: one message each
  JobOf,        \* JobOf[t]: the request that lists t
  Hosts,        \* the backends with RCH_ENABLE_BULK
  NoHost,
  MaxAttempts,  \* attempts of a new message (5 in the code)
  MinConc,      \* RCH_MINIMUM_TASK_CONCURRENCY: below it a runner polls
  MaxConc,      \* RCH_MAXIMUM_CONCURRENT_TASK_FETCH: up to that many
  PortCounts,   \* the lengths of smtp_ports that clients send
  Readers,      \* the requests whose client reads the results
  Old,          \* the requests that are old enough for prune_db
  PageLimit,    \* the limit a client reads results with (50 by default)
  Budget        \* Budget[f]: how often an adverse event of kind f may happen

AdverseEvents == {"crash", "lapse", "insert", "answer", "complete"}

ASSUME JobsAssumption ==
  /\ JobOf \in [Tasks -> Jobs]
  /\ IsFiniteSet(Tasks)
  /\ Readers \subseteq Jobs
  /\ Old \subseteq Jobs
ASSUME HostsAssumption == NoHost \notin Hosts
ASSUME RunnerAssumption == {MaxAttempts, MinConc, MaxConc, PageLimit} \subseteq Nat \ {0}
ASSUME PortsAssumption == PortCounts \subseteq Nat
ASSUME BudgetAssumption == Budget \in [AdverseEvents -> Nat]

Attempts == 1..MaxAttempts

VARIABLES
  post,        \* post[j]: the progress of the POST /v0/bulk handler
  ports,       \* ports[j]: the number of smtp_ports in its body
  jobs,        \* the jobs with a row in bulk_jobs
  attempt_at,  \* attempt_at[t]: when the message of t may be polled
  attempts,    \* attempts[t]: the attempts it has left
  stage,       \* stage[t][a]: execution a of t
  host,        \* host[t][a]: the backend that runs it
  port,        \* port[t][a]: the smtp_port being tried
  row,         \* row[t][a]: the row it inserted into email_results
  ids,         \* those rows in the order of their ids
  reader,      \* reader[j]: a client that pages through the results of j
  prune,       \* the run of prune_db
  interrupted, \* history: the jobs prune_db was deleting when it failed
  used         \* used[f]: the adverse events of kind f so far

queue == <<attempt_at, attempts>>
runner == <<stage, host, port>>
table == <<row, ids>>
vars == <<post, ports, jobs, attempt_at, attempts, stage, host, port, row, ids,
          reader, prune, interrupted, used>>

TasksOf(j) == {t \in Tasks : JobOf[t] = j}

TypeOK ==
  /\ post \in [Jobs -> {"new", "submitting", "accepted", "failed"}]
  /\ ports \in [Jobs -> Nat]
  /\ jobs \subseteq Jobs
  \* "absent" and "deleted": no message; "null": never polled again.
  /\ attempt_at \in [Tasks -> {"absent", "due", "later", "null", "deleted"}]
  /\ attempts \in [Tasks -> 0..MaxAttempts]
  /\ stage \in [Tasks -> [Attempts ->
                  {"none", "checking", "inserting", "completing"}]]
  /\ host \in [Tasks -> [Attempts -> Hosts \union {NoHost}]]
  /\ port \in [Tasks -> [Attempts -> Nat]]
  /\ row \in [Tasks -> [Attempts -> {"none", "written", "visible", "deleted"}]]
  /\ ids \in Seq(Tasks \X Attempts)
  /\ reader \in [Jobs -> [stage : {"idle", "counting", "reading", "done"}, got : Seq(Tasks)]]
  /\ prune \in [stage : {"idle", "selected", "emptied"}, ids : SUBSET Jobs]
  /\ interrupted \subseteq Jobs
  /\ used \in [AdverseEvents -> Nat]

Init ==
  /\ post = [j \in Jobs |-> "new"]
  /\ ports = [j \in Jobs |-> 0]
  /\ jobs = {}
  /\ attempt_at = [t \in Tasks |-> "absent"]
  /\ attempts = [t \in Tasks |-> MaxAttempts]
  /\ stage = [t \in Tasks |-> [a \in Attempts |-> "none"]]
  /\ host = [t \in Tasks |-> [a \in Attempts |-> NoHost]]
  /\ port = [t \in Tasks |-> [a \in Attempts |-> 0]]
  /\ row = [t \in Tasks |-> [a \in Attempts |-> "none"]]
  /\ ids = <<>>
  /\ reader = [j \in Jobs |-> [stage |-> "idle", got |-> <<>>]]
  /\ prune = [stage |-> "idle", ids |-> {}]
  /\ interrupted = {}
  /\ used = [f \in AdverseEvents |-> 0]

-----------------------------------------------------------------------------
(* Helpers. *)

Happens(f) == used[f] < Budget[f] /\ used' = [used EXCEPT ![f] = @ + 1]

\* The executions of t that go on, and those on h.
Live(t) == {a \in Attempts : stage[t][a] # "none"}
RunningOn(h) == {e \in Tasks \X Attempts : host[e[1]][e[2]] = h}

\* Execution a of t is over.
End(t, a) ==
  /\ stage' = [stage EXCEPT ![t][a] = "none"]
  /\ host' = [host EXCEPT ![t][a] = NoHost]
  /\ port' = [port EXCEPT ![t][a] = 0]

\* The rows of j that a query sees now, by their places in ids, and how many of
\* them ORDER BY id puts up to p.
Visible(j) ==
  {p \in DOMAIN ids : JobOf[ids[p][1]] = j /\ row[ids[p][1]][ids[p][2]] = "visible"}
Rank(j, p) == Cardinality({q \in Visible(j) : q <= p})

\* COUNT(*) and total_records: every status below is derived from the two.
total_processed(j) == Cardinality(Visible(j))
total_records(j) == Cardinality(TasksOf(j))

-----------------------------------------------------------------------------
(* POST /v0/bulk. *)

\* The handler inserts the job with its total_records.
InsertJob(j, n) ==
  /\ post[j] = "new"
  /\ total_records(j) > 0
  /\ post' = [post EXCEPT ![j] = "submitting"]
  /\ ports' = [ports EXCEPT ![j] = n]
  /\ jobs' = jobs \union {j}
  /\ UNCHANGED <<queue, runner, table, reader, prune, interrupted, used>>

\* submit_job of the next email.
SubmitJob(t) ==
  /\ post[JobOf[t]] = "submitting"
  /\ attempt_at[t] = "absent"
  /\ attempt_at' = [attempt_at EXCEPT ![t] = "due"]
  /\ UNCHANGED <<post, ports, jobs, attempts, runner, table, reader, prune, interrupted, used>>

\* A query fails, or the handler goes with its client or its process: the job
\* row and the messages inserted so far stay.
PostFails(j) ==
  /\ post[j] \in {"new", "submitting"}
  /\ post' = [post EXCEPT ![j] = "failed"]
  /\ UNCHANGED <<ports, jobs, queue, runner, table, reader, prune, interrupted, used>>

Accept(j) ==
  /\ post[j] = "submitting"
  /\ \A t \in TasksOf(j) : attempt_at[t] # "absent"
  /\ post' = [post EXCEPT ![j] = "accepted"]
  /\ UNCHANGED <<ports, jobs, queue, runner, table, reader, prune, interrupted, used>>

-----------------------------------------------------------------------------
(* The queue. *)

(* Operators named Mutant... are deliberate errors: substituted for the       *)
(* definition that follows, each makes a property below fail.               *)

\* Mutant: the last attempt is not recognised.
MutantAfterPoll(t) == "later"

\* The last attempt leaves attempt_at NULL.
AfterPoll(t) == IF attempts[t] = 1 THEN "null" ELSE "later"

\* mq_poll hands h the messages ts, up to its limit or fewer, when another
\* runner takes the others first.
Poll(h, ts) ==
  LET running == Cardinality(RunningOn(h))
      Started(f, v) == [t \in Tasks |-> IF t \in ts THEN [f[t] EXCEPT ![attempts[t]] = v]
                                        ELSE f[t]]
  IN
  /\ running < MinConc
  /\ ts # {} /\ Cardinality(ts) <= MaxConc - running
  /\ \A t \in ts : attempt_at[t] = "due"
  /\ attempt_at' = [t \in Tasks |-> IF t \in ts THEN AfterPoll(t) ELSE attempt_at[t]]
  /\ attempts' = [t \in Tasks |-> IF t \in ts THEN attempts[t] - 1 ELSE attempts[t]]
  /\ stage' = Started(stage, "checking")
  /\ host' = Started(host, h)
  /\ port' = Started(port, 1)
  /\ UNCHANGED <<post, ports, jobs, table, reader, prune, interrupted, used>>

\* Mutant: so does that of a message without attempts.
MutantExpire(t) ==
  /\ attempt_at[t] \in {"later", "null"}
  /\ Live(t) = {}
  /\ attempt_at' = [attempt_at EXCEPT ![t] = "due"]
  /\ UNCHANGED <<post, ports, jobs, attempts, runner, table, reader, prune, interrupted, used>>

\* Mutant: mq_poll does not see a message with one attempt left.
MutantExpireLast(t) ==
  /\ attempt_at[t] = "later" /\ attempts[t] > 1
  /\ Live(t) = {}
  /\ attempt_at' = [attempt_at EXCEPT ![t] = "due"]
  /\ UNCHANGED <<post, ports, jobs, attempts, runner, table, reader, prune, interrupted, used>>

\* The lease of a message runs out after its executions are over.
Expire(t) ==
  /\ attempt_at[t] = "later"
  /\ Live(t) = {}
  /\ attempt_at' = [attempt_at EXCEPT ![t] = "due"]
  /\ UNCHANGED <<post, ports, jobs, attempts, runner, table, reader, prune, interrupted, used>>

\* mq_keep_alive comes too late: the lease runs out under an execution.
Lapse(t) ==
  /\ attempt_at[t] = "later"
  /\ Live(t) # {}
  /\ Happens("lapse")
  /\ attempt_at' = [attempt_at EXCEPT ![t] = "due"]
  /\ UNCHANGED <<post, ports, jobs, attempts, runner, table, reader, prune, interrupted>>

-----------------------------------------------------------------------------
(* email_verification_task. *)

\* check_email over the port being tried is unknown, and there is a next one.
NextPort(t, a) ==
  /\ stage[t][a] = "checking"
  /\ port[t][a] < ports[JobOf[t]]
  /\ port' = [port EXCEPT ![t][a] = @ + 1]
  /\ UNCHANGED <<post, ports, jobs, queue, stage, host, table, reader, prune, interrupted, used>>

\* The result of this port is final, known or that of the last one: its INSERT
\* is under way, with an id, and nobody sees it yet.
Insert(t, a) ==
  /\ stage[t][a] = "checking"
  /\ ports[JobOf[t]] > 0
  /\ JobOf[t] \in jobs
  /\ stage' = [stage EXCEPT ![t][a] = "inserting"]
  /\ row' = [row EXCEPT ![t][a] = "written"]
  /\ ids' = Append(ids, <<t, a>>)
  /\ UNCHANGED <<post, ports, jobs, queue, host, port, reader, prune, interrupted, used>>

\* PostgreSQL commits it, whether or not its client is still there.
CommitInsert(t, a) ==
  /\ row[t][a] = "written"
  /\ row' = [row EXCEPT ![t][a] = "visible"]
  /\ stage' = [stage EXCEPT ![t][a] = IF @ = "inserting" THEN "completing" ELSE @]
  /\ UNCHANGED <<post, ports, jobs, queue, host, port, ids, reader, prune, interrupted, used>>

\* Mutant: the error is logged and the message completed.
MutantInsertFails(t, a) ==
  /\ stage[t][a] = "checking"
  /\ ports[JobOf[t]] > 0
  /\ \/ JobOf[t] \notin jobs /\ UNCHANGED used
     \/ JobOf[t] \in jobs /\ Happens("insert")
  /\ attempt_at' = [attempt_at EXCEPT ![t] = "deleted"]
  /\ End(t, a)
  /\ UNCHANGED <<post, ports, jobs, attempts, table, reader, prune, interrupted>>

\* The INSERT fails and stores nothing, on the foreign key when the job is gone: the
\* task returns the error and the message stays for its next attempt.
InsertFails(t, a) ==
  /\ stage[t][a] = "checking"
  /\ ports[JobOf[t]] > 0
  /\ \/ JobOf[t] \notin jobs /\ UNCHANGED used
     \/ JobOf[t] \in jobs /\ Happens("insert")
  /\ End(t, a)
  /\ UNCHANGED <<post, ports, jobs, queue, table, reader, prune, interrupted>>

\* The connection is lost before the answer to the INSERT, which may commit: the task
\* returns the error all the same.
InsertAnswerLost(t, a) ==
  /\ stage[t][a] = "inserting"
  /\ Happens("answer")
  /\ End(t, a)
  /\ UNCHANGED <<post, ports, jobs, queue, table, reader, prune, interrupted>>

\* Its row is committed; or smtp_ports is [], there was no check and there is
\* nothing to store.
Finished(t, a) ==
  \/ stage[t][a] = "completing"
  \/ stage[t][a] = "checking" /\ ports[JobOf[t]] = 0

\* Mutant: the task returns Ok without complete().
MutantComplete(t, a) ==
  /\ Finished(t, a)
  /\ End(t, a)
  /\ UNCHANGED <<post, ports, jobs, queue, table, reader, prune, interrupted, used>>

\* current_job.complete() deletes the message.
Complete(t, a) ==
  /\ Finished(t, a)
  /\ attempt_at' = [attempt_at EXCEPT ![t] = "deleted"]
  /\ End(t, a)
  /\ UNCHANGED <<post, ports, jobs, attempts, table, reader, prune, interrupted, used>>

CompleteFails(t, a) ==
  /\ Finished(t, a)
  /\ Happens("complete")
  /\ End(t, a)
  /\ UNCHANGED <<post, ports, jobs, queue, table, reader, prune, interrupted>>

\* The process of h dies with its executions, and is started again.
Crash(h) ==
  LET On(t, a) == host[t][a] = h
      Cleared(f, v) == [t \in Tasks |-> [a \in Attempts |-> IF On(t, a) THEN v ELSE f[t][a]]]
  IN
  /\ RunningOn(h) # {}
  /\ Happens("crash")
  /\ stage' = Cleared(stage, "none")
  /\ host' = Cleared(host, NoHost)
  /\ port' = Cleared(port, 0)
  /\ UNCHANGED <<post, ports, jobs, queue, table, reader, prune, interrupted>>

-----------------------------------------------------------------------------
(* GET /v0/bulk/{id}/results, by a client that asks for page after page. *)

Reads(j, s) == reader' = [reader EXCEPT ![j].stage = s]

SelectTotal(j) ==
  /\ j \in Readers \intersect jobs
  /\ reader[j].stage = "idle"
  /\ Reads(j, "counting")
  /\ UNCHANGED <<post, ports, jobs, queue, runner, table, prune, interrupted, used>>

\* Mutant: the job need not be completed.
MutantSelectCount(j) ==
  /\ reader[j].stage = "counting"
  /\ Reads(j, "reading")
  /\ UNCHANGED <<post, ports, jobs, queue, runner, table, prune, interrupted, used>>

\* JobInProgress, unless all records are processed.
SelectCount(j) ==
  /\ reader[j].stage = "counting"
  /\ Reads(j, IF total_processed(j) < total_records(j) THEN "idle" ELSE "reading")
  /\ UNCHANGED <<post, ports, jobs, queue, runner, table, prune, interrupted, used>>

\* job_result_as_iter: LIMIT and OFFSET.  A short page is the client's last.
PageLength(j, offset) ==
  IF offset + PageLimit <= total_processed(j) THEN PageLimit
  ELSE IF offset <= total_processed(j) THEN total_processed(j) - offset ELSE 0

SelectPage(j) ==
  LET offset == Len(reader[j].got)
      n == PageLength(j, offset)
  IN
  /\ reader[j].stage = "reading"
  /\ \E page \in [1..n -> Visible(j)] :
       /\ \A i \in 1..n : Rank(j, page[i]) = offset + i
       /\ reader' = [reader EXCEPT ![j] =
            [stage |-> IF n < PageLimit THEN "done" ELSE "idle",
             got |-> @.got \o [i \in 1..n |-> ids[page[i]][1]]]]
  /\ UNCHANGED <<post, ports, jobs, queue, runner, table, prune, interrupted, used>>

-----------------------------------------------------------------------------
(* prune_db. *)

\* WHERE b.total_records = e.total_processed, of the jobs that are old enough.
Prunable(j) == total_records(j) = total_processed(j)

SelectOld ==
  LET selected == {j \in Old \intersect jobs : Prunable(j)} IN
  /\ prune.stage = "idle"
  /\ selected # {}
  /\ prune' = [stage |-> "selected", ids |-> selected]
  /\ UNCHANGED <<post, ports, jobs, queue, runner, table, reader, interrupted, used>>

\* DELETE FROM email_results: the rows the statement sees, on the pool.
DeleteResults ==
  /\ prune.stage = "selected"
  /\ prune' = [prune EXCEPT !.stage = "emptied"]
  /\ row' = [t \in Tasks |-> [a \in Attempts |->
               IF JobOf[t] \in prune.ids /\ row[t][a] = "visible" THEN "deleted" ELSE row[t][a]]]
  /\ UNCHANGED <<post, ports, jobs, queue, runner, ids, reader, interrupted, used>>

\* Mutant: the second DELETE runs in `tx`, and `tx` is not committed.
MutantDeleteJobs ==
  /\ prune.stage = "emptied"
  /\ prune' = [stage |-> "idle", ids |-> {}]
  /\ UNCHANGED <<post, ports, jobs, queue, runner, table, reader, interrupted, used>>

\* DELETE FROM bulk_jobs waits for INSERTs under way, which lock the job's row,
\* and fails for all of them if a row has arrived meanwhile.
DeleteJobs ==
  LET Has(s) == \E t \in Tasks, a \in Attempts : JobOf[t] \in prune.ids /\ row[t][a] = s IN
  /\ prune.stage = "emptied"
  /\ ~ Has("written")
  /\ jobs' = IF Has("visible") THEN jobs ELSE jobs \ prune.ids
  /\ prune' = [stage |-> "idle", ids |-> {}]
  /\ UNCHANGED <<post, ports, queue, runner, table, reader, interrupted, used>>

\* A query fails or the process is stopped.  What the pool has executed is not
\* part of the transaction `tx` and stays.
PruneFails ==
  /\ prune.stage # "idle"
  /\ prune' = [stage |-> "idle", ids |-> {}]
  /\ interrupted' = interrupted \union prune.ids
  /\ UNCHANGED <<post, ports, jobs, queue, runner, table, reader, used>>

-----------------------------------------------------------------------------
\* What follows when the mail server lets check_email return, and what needs only
\* the backend and its database.
Check(t, a) == NextPort(t, a) \/ Insert(t, a) \/ InsertFails(t, a)
Settle(t, a) == CommitInsert(t, a) \/ Complete(t, a)

Next ==
  \/ \E j \in Jobs :
       (\E n \in PortCounts : InsertJob(j, n)) \/ PostFails(j) \/ Accept(j)
  \/ \E t \in Tasks : SubmitJob(t) \/ Expire(t) \/ Lapse(t)
  \/ \E h \in Hosts : Crash(h) \/ \E ts \in SUBSET Tasks : Poll(h, ts)
  \/ \E t \in Tasks, a \in Attempts :
       Check(t, a) \/ Settle(t, a) \/ InsertAnswerLost(t, a) \/ CompleteFails(t, a)
  \/ \E j \in Jobs : SelectTotal(j) \/ SelectCount(j) \/ SelectPage(j)
  \/ SelectOld \/ DeleteResults \/ DeleteJobs \/ PruneFails

Spec == Init /\ [][Next]_vars

\* The runners are notified of messages or wake up when the first is due, a
\* lease runs out, and tokio and PostgreSQL go on with what they have started.
\* None for the checks, which have no timeout here and which a silent mail server
\* holds for ever, for clients, for prune_db or for faults.
Fairness ==
  /\ \A t \in Tasks :
       /\ WF_vars(Expire(t))
       /\ SF_vars(\E h \in Hosts, ts \in SUBSET Tasks : t \in ts /\ Poll(h, ts))
  /\ \A t \in Tasks, a \in Attempts : WF_vars(Settle(t, a))

FairSpec == Spec /\ Fairness

-----------------------------------------------------------------------------
(* What has become of a task and of a job. *)

\* The executions of t that have inserted a row.
Stored(t) == {a \in Attempts : row[t][a] # "none"}
Duplicated(j) == \E t \in TasksOf(j) : Cardinality(Stored(t)) > 1

\* prune_db has deleted results of j.
Emptied(j) == \E t \in TasksOf(j), a \in Attempts : row[t][a] = "deleted"

\* Nothing is stored, no execution goes on and no attempt is left.
Lost(t) == Stored(t) = {} /\ Live(t) = {} /\ attempt_at[t] \in {"null", "deleted"}

-----------------------------------------------------------------------------
(* Properties. *)

\* Each row beyond the first is paid for by a crash, a lapse, a failed complete() or
\* an INSERT that commits although its error makes the task be retried.  An INSERT
\* that stores nothing never leads to a second row.
RowsBound ==
  \A t \in Tasks :
    Cardinality(Stored(t)) <=
      1 + used["crash"] + used["lapse"] + used["answer"] + used["complete"]

\* The attempts of a message outlast fewer faults than there are attempts: a task
\* is given up without a result only after as many, or when its request lists
\* no port ("This can can never occur currently") or its job is pruned.
LostIsExhausted ==
  \A t \in Tasks :
    Lost(t) /\ ports[JobOf[t]] > 0 /\ JobOf[t] \in jobs =>
      MaxAttempts <= used["crash"] + used["lapse"] + used["insert"]

\* A client that pages through the results of a completed job reads each email
\* exactly once, whatever was committed in whatever order between the three
\* queries of a page and between pages, unless a row is duplicated or the job
\* is pruned meanwhile.
PagesComplete ==
  \A j \in Jobs :
    LET got == reader[j].got IN
    reader[j].stage = "done" /\ ~ Emptied(j) /\ ~ Duplicated(j) =>
      /\ Len(got) = total_records(j)
      /\ \A t \in TasksOf(j) : \E i \in DOMAIN got : got[i] = t

\* prune_db selects jobs by their number of rows and deletes them by two DELETEs
\* that are meant to be one transaction and are not.  It deletes no result of a
\* job with an email still being verified, and leaves no job behind without its
\* results except when it fails between the two: unless rows are duplicated,
\* which make up the number, or arrive between the DELETEs and stop the second.
PrunedIsFinished ==
  \A j \in Jobs : Emptied(j) =>
    /\ ~ Duplicated(j) => \A t \in TasksOf(j) : Stored(t) # {}
    /\ \/ j \notin jobs \/ j \in interrupted \/ prune.stage # "idle"
       \/ \E k \in Jobs : Duplicated(k)

\* Each task keeps the contract of a bulk verification, whatever crashes, lapses
\* or fails: what is stored stays, and what is given up stays so.
TaskState ==
  [t \in Tasks |-> IF attempt_at[t] = "absent" THEN "absent"
                   ELSE IF Stored(t) # {} THEN "done"
                   ELSE IF Lost(t) THEN "lost" ELSE "pending"]
Contract == INSTANCE JobContract WITH task <- TaskState
ImplementsContract == Contract!Spec

\* new_with_same_config_for_all(.., None, 1): no check of /v0/bulk has a timeout.  A
\* mail server that never answers holds the task it was asked about, and a slot of
\* its runner; but no other task: every task whose own checks return is settled,
\* as long as some runner has less than MinConc held ones.
Returns(t) == \A a \in Attempts : []<>(stage[t][a] # "checking")
SomeRunnerPolls == []<>(\E h \in Hosts : Cardinality(RunningOn(h)) < MinConc)
SettledUnlessHeld ==
  \A t \in Tasks :
    Returns(t) /\ SomeRunnerPolls => (TaskState[t] = "pending" ~> TaskState[t] # "pending")

-----------------------------------------------------------------------------
(* The inductive invariant of BulkV0Proofs.                                *)

\* The columns of a message agree, and it is deleted for a reason.
MessageInv ==
  /\ \A j \in Jobs : post[j] = "new" => j \notin jobs
  /\ \A t \in Tasks :
       /\ attempt_at[t] = "absent" =>
            attempts[t] = MaxAttempts /\ Live(t) = {} /\ Stored(t) = {}
       /\ attempt_at[t] # "absent" => post[JobOf[t]] # "new"
       /\ attempt_at[t] \in {"due", "later"} => attempts[t] > 0
       /\ attempt_at[t] = "null" => attempts[t] = 0
       /\ attempt_at[t] = "deleted" => Stored(t) # {} \/ ports[JobOf[t]] = 0

\* What an execution has inserted, and that attempts which are left are not used.
ExecutionInv ==
  \A t \in Tasks, a \in Attempts :
    /\ stage[t][a] = "checking" => row[t][a] = "none"
    /\ stage[t][a] \in {"inserting", "completing"} => row[t][a] # "none"
    /\ a <= attempts[t] => stage[t][a] = "none" /\ row[t][a] = "none"

\* The executions of t that may insert a row, and whether its message may lead to
\* another one without a fault.
Checking(t) == {a \in Attempts : stage[t][a] = "checking"}
Pending(t) ==
  IF attempt_at[t] \in {"absent", "due"} \/ (attempt_at[t] = "later" /\ Live(t) = {})
  THEN 1 ELSE 0

\* Rows, executions and message together grow with these faults only.
Potential(t) == Cardinality(Stored(t)) + Cardinality(Checking(t)) + Pending(t)
Losses == used["crash"] + used["lapse"] + used["answer"] + used["complete"]
RowsInv == \A t \in Tasks : Potential(t) <= 1 + Losses

\* Until a row is stored, each attempt that was used up has met a fault, but for
\* the one that goes on.
Failures == used["crash"] + used["lapse"] + used["insert"]
GoesOn(t) == IF Live(t) # {} /\ attempt_at[t] # "due" THEN 1 ELSE 0
SpentInv ==
  \A t \in Tasks :
    Stored(t) = {} /\ ports[JobOf[t]] > 0 /\ JobOf[t] \in jobs =>
      MaxAttempts <= attempts[t] + Failures + GoesOn(t)

\* ids lists each row once.
IdsInv ==
  /\ \A p, q \in DOMAIN ids : ids[p] = ids[q] => p = q
  /\ \A t \in Tasks, a \in Attempts : row[t][a] # "none" <=> \E p \in DOMAIN ids : ids[p] = <<t, a>>

\* A client that has begun to read sees all results, and has read them in order.
ReaderInv ==
  \A j \in Jobs :
    LET got == reader[j].got IN
    /\ ~ Emptied(j) /\ ~ Duplicated(j)
    /\ reader[j].stage \in {"reading", "done"} \/ got # <<>>
    =>
    /\ total_processed(j) = total_records(j)
    /\ \A i \in DOMAIN got : \E p \in Visible(j) : Rank(j, p) = i /\ ids[p][1] = got[i]
    /\ reader[j].stage = "done" => Len(got) = total_records(j)

\* Every task of j has a row in state s.
AllRows(j, s) == \A t \in TasksOf(j) : \E a \in Attempts : row[t][a] = s

\* How far prune_db has come with the jobs it has selected, and what it has done.
PruneInv ==
  \A j \in Jobs :
    /\ j \in prune.ids /\ ~ Duplicated(j) =>
         /\ prune.stage = "selected" => AllRows(j, "visible")
         /\ prune.stage = "emptied" => AllRows(j, "deleted")
    /\ Emptied(j) =>
         /\ ~ Duplicated(j) => \A t \in TasksOf(j) : Stored(t) # {}
         /\ \/ j \notin jobs \/ j \in interrupted
            \/ prune.stage = "emptied" /\ j \in prune.ids
            \/ \E k \in Jobs : Duplicated(k)

IInv == TypeOK /\ MessageInv /\ ExecutionInv /\ RowsInv /\ SpentInv /\ IdsInv /\ ReaderInv /\ PruneInv
=============================================================================
