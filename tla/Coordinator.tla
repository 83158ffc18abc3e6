----------------------------- MODULE Coordinator -----------------------------
(***************************************************************************)
(* One job of the coordinator (coordinator/backend/app/coordinator.py and  *)
(* database.py): the coroutine _run_job spreads the emails of an upload    *)
(* over the Reacher servers, one coroutine ("lane") per server submits     *)
(* them in batches to POST /v1/bulk and polls them, the results go to one  *)
(* SQLite table, and the unknown tail is verified again, by Apify or on    *)
(* other servers.                                                          *)
(*                                                                         *)
(* All coroutines run on one event loop: a step of the model is the code   *)
(* between two awaits.  A process crash may fall between two transactions  *)
(* of such a step.  A bulk job on a server is external and given by what   *)
(* BulkQueue allows: rows appear in any order, may be missing for ever and *)
(* may be duplicated, and it is completed once it has as many rows as      *)
(* emails.                                                                 *)
(***************************************************************************)
EXTENDS Integers, Sequences, FiniteSets

CONSTANTS
  NumEmails,     \* the emails of the job, in the order of the upload
  NumServers,    \* settings.servers
  PerMinute,     \* emails_per_minute: the size of a batch
  Attempts,      \* unknown_retry_attempts
  UseApify,      \* an apify_token is configured
  Named,         \* the servers whose backend_name is their configured name
  MaxDuplicates, \* bound: duplicated rows on the servers
  MaxCrashes     \* bound: restarts of the coordinator

Emails == 1..NumEmails
Servers == 0..(NumServers - 1)
Foreign == NumServers  \* any backend_name that names no server
Verdicts == {"known", "unknown"}  \* safe, risky and invalid are known

ASSUME SizesAssumption ==
  /\ NumEmails \in Nat \ {0} /\ NumServers \in Nat \ {0} /\ PerMinute \in Nat \ {0}
  /\ Attempts \in Nat /\ MaxDuplicates \in Nat /\ MaxCrashes \in Nat
ASSUME SettingsAssumption == UseApify \in BOOLEAN /\ Named \subseteq Servers

VARIABLES
  status,      \* jobs.status, or "none" before the job is created
  counts,      \* jobs.processed and its counts by verdict
  subjobs,     \* the table subjobs, in order of insertion
  rows,        \* the table results: rows[i] is the row with the id i
  last_id,     \* the last id that was given (AUTOINCREMENT)
  phase,       \* where the coroutine _run_job is
  attempt,     \* its current retry round, 0 for the first dispatch
  assignments, \* the emails and servers of the round, by their places in the list
  lane,        \* lane[s]: the coroutine _run_server_batches of server s
  remote,      \* remote[s]: the rows of the bulk job that lane[s] waits for
  waiter,      \* the call of verify_and_wait that has created the job, if one has
  apify,       \* history: what became of the call to Apify
  failed,      \* history: the rounds in which a batch failed
  duplicates,  \* history: the rows the servers have duplicated
  crashes      \* history: the restarts so far

results == <<rows, last_id>>
tables == <<status, counts, subjobs, results>>
job == <<phase, attempt, assignments>>
history == <<apify, failed, duplicates, crashes>>
vars == <<status, counts, subjobs, rows, last_id, phase, attempt, assignments, lane,
          remote, waiter, apify, failed, duplicates, crashes>>

Rows == [email : Emails, verdict : Verdicts, backend : Servers \union {Foreign}]
NoWaiter == [pc |-> "none", status |-> "none", counts |-> <<>>, rows |-> <<>>]
Ended == {"completed", "failed"}

\* total is the number of emails of the batch; the emails themselves are not in
\* the table.
Subjobs == [server : Servers, emails : SUBSET Emails, total : Nat, processed : Nat,
            status : {"submitting", "running", "completed", "failed"}]

\* A row that a server has stored, for the email at a place of the batch.
Listed == [place : Nat, verdict : Verdicts]

\* A coroutine has the places of its current batch, that of the subjob sub, and
\* those of the batches to come.
Lanes == [pc : {"idle", "ready", "submitting", "polling", "fetching", "pacing"},
          batch : SUBSET Nat, todo : SUBSET Nat, sub : Nat]
Idle == [pc |-> "idle", batch |-> {}, todo |-> {}, sub |-> 0]

TypeOK ==
  /\ status \in {"none", "queued", "running", "retrying", "completed", "failed"}
  /\ counts \in [processed : 0..NumEmails, known : Nat, unknown : Nat]
  /\ subjobs \in Seq(Subjobs)
  /\ last_id \in Nat
  /\ DOMAIN rows \subseteq 1..last_id
  /\ rows \in [DOMAIN rows -> Rows]
  /\ phase \in {"none", "created", "round", "apify", "waiting"}
  /\ attempt \in 0..Attempts
  /\ DOMAIN assignments \subseteq Nat /\ IsFiniteSet(DOMAIN assignments)
  /\ assignments \in [DOMAIN assignments -> [email : Emails, server : Servers]]
  /\ lane \in [Servers -> Lanes]
  /\ remote \in [Servers -> Seq(Listed)]
  /\ waiter.pc \in {"none", "waiting", "answered", "timed_out"}
  /\ apify \in {"unused", "answered", "failed"}
  /\ failed \subseteq 0..Attempts
  /\ duplicates \in 0..MaxDuplicates
  /\ crashes \in 0..MaxCrashes

Init ==
  /\ status = "none"
  /\ counts = [processed |-> 0, known |-> 0, unknown |-> 0]
  /\ subjobs = <<>>
  /\ rows = <<>>
  /\ last_id = 0
  /\ phase = "none"
  /\ attempt = 0
  /\ assignments = <<>>
  /\ lane = [s \in Servers |-> Idle]
  /\ remote = [s \in Servers |-> <<>>]
  /\ waiter = NoWaiter
  /\ apify = "unused"
  /\ failed = {}
  /\ duplicates = 0
  /\ crashes = 0

-----------------------------------------------------------------------------
(* Helpers. *)

Min2(a, b) == IF a <= b THEN a ELSE b
Max2(a, b) == IF a <= b THEN b ELSE a

EmailsIn(rs) == {rs[i].email : i \in DOMAIN rs}
WithVerdict(rs, v) == {i \in DOMAIN rs : rs[i].verdict = v}

\* SUM(processed) of the table subjobs: a tick for each email a subjob has seen.
Ticks(subs, is) == Cardinality(UNION {{i} \X (1..subs[i].processed) : i \in is})

(* Operators named Mutant... are deliberate errors: substituted for the       *)
(* definition that follows, each makes a property below fail.               *)

\* Mutant: the WHERE status='unknown' is missing.
MutantUnknowns == DOMAIN rows

\* The ids of the unknown tail of the job.
Unknowns == WithVerdict(rows, "unknown")

\* Mutant: the DELETE is missing.
MutantInserted(new) ==
  [i \in DOMAIN rows \union (last_id + 1)..(last_id + Len(new)) |->
     IF i \in DOMAIN rows THEN rows[i] ELSE new[i - last_id]]

\* insert_results: one transaction that deletes the rows of these emails and
\* gives the new ones the next ids.
Inserted(new) ==
  LET kept == {i \in DOMAIN rows : rows[i].email \notin EmailsIn(new)} IN
  [i \in kept \union (last_id + 1)..(last_id + Len(new)) |->
     IF i \in kept THEN rows[i] ELSE new[i - last_id]]

InsertResults(new) ==
  /\ rows' = Inserted(new)
  /\ last_id' = last_id + Len(new)

\* Mutant: progress is not capped by the number of emails.
MutantUncapped(subs, rs) ==
  [processed |-> Max2(Ticks(subs, DOMAIN subs), Cardinality(DOMAIN rs)),
   known |-> Cardinality(WithVerdict(rs, "known")),
   unknown |-> Cardinality(WithVerdict(rs, "unknown"))]

\* Mutant: a failed batch takes its progress back.
MutantLiveTicks(subs, rs) ==
  LET live == {i \in DOMAIN subs : subs[i].status # "failed"} IN
  [processed |-> Min2(NumEmails, Max2(Ticks(subs, live), Cardinality(DOMAIN rs))),
   known |-> Cardinality(WithVerdict(rs, "known")),
   unknown |-> Cardinality(WithVerdict(rs, "unknown"))]

\* _refresh_job_counts, from the tables as they are after the step.
Refreshed(subs, rs) ==
  [processed |-> Min2(NumEmails, Max2(Ticks(subs, DOMAIN subs), Cardinality(DOMAIN rs))),
   known |-> Cardinality(WithVerdict(rs, "known")),
   unknown |-> Cardinality(WithVerdict(rs, "unknown"))]

\* The first round goes around the servers.
FirstAssignments ==
  [e \in Emails |-> [email |-> e, server |-> (e - 1) % NumServers]]

\* The server of the result with the id i, or else its position among the unknowns.
LastServer(i) ==
  IF rows[i].backend \in Servers THEN rows[i].backend
                                 ELSE Cardinality({k \in Unknowns : k < i})

\* Mutant: a retry stays on the server of the result.
MutantSameServer(a) ==
  [i \in Unknowns |-> [email |-> rows[i].email, server |-> LastServer(i) % NumServers]]

\* _unknown_assignments.
UnknownAssignments(a) ==
  [i \in Unknowns |->
    [email |-> rows[i].email, server |-> (LastServer(i) + a) % NumServers]]

\* _dispatch_round starts a lane for every server with an email.
PlacesOf(asg, s) == {p \in DOMAIN asg : asg[p].server = s}

Dispatch(asg) ==
  /\ phase' = "round"
  /\ assignments' = asg
  /\ lane' = [s \in Servers |->
       IF PlacesOf(asg, s) = {} THEN Idle
       ELSE [pc |-> "ready", batch |-> {}, todo |-> PlacesOf(asg, s), sub |-> 0]]

\* Mutant: the loop ends one round early.
MutantRetryShort(a) ==
  IF a >= Attempts \/ Unknowns = {}
    THEN /\ status' = "completed"
         /\ phase' = "none"
         /\ assignments' = <<>>
         /\ UNCHANGED attempt
    ELSE /\ status' = "retrying"
         /\ phase' = "waiting"
         /\ assignments' = UnknownAssignments(a)
         /\ attempt' = a

\* The loop of _run_reacher_retries at its round a.  No exception leaves
\* _run_server_batches, so that _dispatch_round never returns an error.
RetryRound(a) ==
  IF a > Attempts \/ Unknowns = {}
    THEN /\ status' = "completed"
         /\ phase' = "none"
         /\ assignments' = <<>>
         /\ UNCHANGED attempt
    ELSE /\ status' = "retrying"
         /\ phase' = "waiting"
         /\ assignments' = UnknownAssignments(a)
         /\ attempt' = a

-----------------------------------------------------------------------------
(* _run_job. *)

\* create_job, called by one of the routes and tools or by verify_and_wait, which
\* goes on to wait for the job.
CreateJob ==
  /\ status = "none"
  /\ status' = "queued"
  /\ phase' = "created"
  /\ \E pc \in {"none", "waiting"} : waiter' = [NoWaiter EXCEPT !.pc = pc]
  /\ UNCHANGED <<counts, subjobs, results, attempt, assignments, lane, remote, history>>

RunJob ==
  /\ phase = "created"
  /\ status' = "running"
  /\ Dispatch(FirstAssignments)
  /\ UNCHANGED <<counts, subjobs, results, attempt, remote, waiter, history>>

\* asyncio.gather returns: every lane has ended.
RoundDone == phase = "round" /\ \A s \in Servers : lane[s].pc = "idle"

EndRound ==
  /\ RoundDone
  /\ attempt > 0 \/ ~ UseApify
  /\ RetryRound(attempt + 1)
  /\ UNCHANGED <<counts, subjobs, results, lane, remote, waiter, history>>

\* The first round ends with an Apify token.
CallApify ==
  /\ RoundDone
  /\ attempt = 0 /\ UseApify
  /\ IF Unknowns = {}
       THEN status' = "completed" /\ phase' = "none"
       ELSE status' = "retrying" /\ phase' = "apify"
  /\ UNCHANGED <<counts, subjobs, results, attempt, assignments, lane, remote, waiter, history>>

\* Apify lists some of the emails in some order, each with a verdict; the rest
\* stay unknown.
ApifyItems ==
  UNION {{items \in [1..n -> [email : {rows[i].email : i \in Unknowns},
                              verdict : Verdicts, backend : {Foreign}]] :
            \A k, l \in 1..n : items[k].email = items[l].email => k = l} :
         n \in 0..Cardinality(Unknowns)}

ApifyAnswers ==
  /\ phase = "apify"
  /\ \E items \in ApifyItems :
       /\ InsertResults(items)
       /\ counts' = IF items = <<>> THEN counts ELSE Refreshed(subjobs, rows')
  /\ status' = "completed"
  /\ phase' = "none"
  /\ apify' = "answered"
  /\ UNCHANGED <<subjobs, attempt, assignments, lane, remote, waiter, failed, duplicates, crashes>>

\* Mutant: a failed call ends the coroutine.
MutantApifyReturns ==
  /\ phase = "apify"
  /\ phase' = "none"
  /\ apify' = "failed"
  /\ UNCHANGED <<tables, attempt, assignments, lane, remote, waiter, failed, duplicates, crashes>>

ApifyFails ==
  /\ phase = "apify"
  /\ RetryRound(1)
  /\ apify' = "failed"
  /\ UNCHANGED <<counts, subjobs, results, lane, remote, waiter, failed, duplicates, crashes>>

\* Apify has answered with items that are not understood: outside the inner `try`,
\* so that the job fails.
ApifyRaises ==
  /\ phase = "apify"
  /\ status' = "failed"
  /\ phase' = "none"
  /\ apify' = "failed"
  /\ UNCHANGED <<counts, subjobs, results, attempt, assignments, lane, remote, waiter,
                 failed, duplicates, crashes>>

\* retry_delay_seconds are over.
WakeUp ==
  /\ phase = "waiting"
  /\ Dispatch(assignments)
  /\ UNCHANGED <<tables, attempt, remote, waiter, history>>

-----------------------------------------------------------------------------
(* _run_server_batches and _run_batch, on server s. *)

Goto(s, from, to) == lane[s].pc = from /\ lane' = [lane EXCEPT ![s].pc = to]

\* After a batch, whatever became of it: the pacing sleep, or the end.
LeaveBatch(s) ==
  lane' = [lane EXCEPT ![s] =
    IF @.todo = {} THEN Idle
    ELSE [pc |-> "pacing", batch |-> {}, todo |-> @.todo, sub |-> 0]]

\* The next batch: the places with fewer than PerMinute others of the server
\* before them.
NextBatch(s) ==
  LET todo == lane[s].todo IN
  {p \in todo : Cardinality({q \in todo : q < p}) < PerMinute}

Submit(s) ==
  /\ lane[s].pc = "ready"
  /\ LET batch == NextBatch(s) IN
       /\ subjobs' = Append(subjobs, [server |-> s, emails |-> {assignments[p].email : p \in batch},
                                      total |-> Cardinality(batch), processed |-> 0,
                                      status |-> "submitting"])
       /\ lane' = [lane EXCEPT ![s] = [pc |-> "submitting", batch |-> batch,
                                       todo |-> @.todo \ batch, sub |-> Len(subjobs) + 1]]
  /\ remote' = [remote EXCEPT ![s] = <<>>]
  /\ UNCHANGED <<status, counts, results, job, waiter, history>>

\* The server has answered with its job_id.
Accepted(s) ==
  /\ Goto(s, "submitting", "polling")
  /\ subjobs' = [subjobs EXCEPT ![lane[s].sub].status = "running"]
  /\ UNCHANGED <<status, counts, results, job, remote, waiter, history>>

\* The server stores a row for the email at place p of the batch.
RemoteStores(s, p, v) ==
  /\ lane[s].pc \in {"polling", "fetching"}
  /\ p \in lane[s].batch
  /\ IF \E k \in DOMAIN remote[s] : remote[s][k].place = p
       THEN duplicates < MaxDuplicates /\ duplicates' = duplicates + 1
       ELSE UNCHANGED duplicates
  /\ remote' = [remote EXCEPT ![s] = Append(@, [place |-> p, verdict |-> v])]
  /\ UNCHANGED <<tables, job, lane, waiter, apify, failed, crashes>>

RemoteCompleted(s) == Len(remote[s]) >= Cardinality(lane[s].batch)

\* One answer of GET /v1/bulk/{job_id}: the subjob takes over its status.
Poll(s) ==
  /\ lane[s].pc = "polling"
  /\ LET i == lane[s].sub
         seen == IF RemoteCompleted(s) THEN "completed" ELSE "running"
     IN  /\ subjobs' = [subjobs EXCEPT ![i] =
              [@ EXCEPT !.processed = Len(remote[s]), !.status = seen]]
         /\ lane' = [lane EXCEPT ![s].pc = IF seen = "completed" THEN "fetching" ELSE @]
  /\ counts' = Refreshed(subjobs', rows)
  /\ UNCHANGED <<status, results, job, remote, waiter, history>>

\* _fetch_results (one page), as rows for insert_results.
Fetched(s) ==
  [k \in DOMAIN remote[s] |->
    [email |-> assignments[remote[s][k].place].email, verdict |-> remote[s][k].verdict,
     backend |-> IF s \in Named THEN s ELSE Foreign]]

Fetch(s) ==
  /\ lane[s].pc = "fetching"
  /\ InsertResults(Fetched(s))
  /\ subjobs' = [subjobs EXCEPT ![lane[s].sub] =
                    [@ EXCEPT !.processed = subjobs[lane[s].sub].total, !.status = "completed"]]
  /\ counts' = Refreshed(subjobs', rows')
  /\ LeaveBatch(s)
  /\ UNCHANGED <<status, job, remote, waiter, history>>

\* Mutant: the subjob keeps the status of the last poll.
MutantBatchFailsSilently(s) ==
  /\ lane[s].pc \in {"submitting", "polling", "fetching"}
  /\ failed' = failed \union {attempt}
  /\ LeaveBatch(s)
  /\ UNCHANGED <<tables, job, remote, waiter, apify, duplicates, crashes>>

\* An HTTP error or timeout, an answer that is not understood, or a poll past
\* job_timeout_seconds.  The lane logs it and goes on.
BatchFails(s) ==
  /\ lane[s].pc \in {"submitting", "polling", "fetching"}
  /\ subjobs' = [subjobs EXCEPT ![lane[s].sub].status = "failed"]
  /\ counts' = Refreshed(subjobs', rows)
  /\ failed' = failed \union {attempt}
  /\ LeaveBatch(s)
  /\ UNCHANGED <<status, results, job, remote, waiter, apify, duplicates, crashes>>

EndPacing(s) ==
  /\ Goto(s, "pacing", "ready")
  /\ UNCHANGED <<tables, job, remote, waiter, history>>

-----------------------------------------------------------------------------
(* verify_and_wait. *)

Answer == [pc |-> "answered", status |-> status, counts |-> counts, rows |-> rows]

\* Mutant: the loop waits while the job is queued or running.
MutantWaiterAnswers ==
  /\ waiter.pc = "waiting"
  /\ status \notin {"queued", "running"}
  /\ waiter' = Answer
  /\ UNCHANGED <<tables, job, lane, remote, history>>

\* It looks at the job again after poll_interval_seconds.  No await separates
\* that look from the reading of the results.
WaiterAnswers ==
  /\ waiter.pc = "waiting"
  /\ status \in Ended
  /\ waiter' = Answer
  /\ UNCHANGED <<tables, job, lane, remote, history>>

\* timeout_seconds are over: "the job keeps running server-side".
WaiterTimesOut ==
  /\ waiter.pc = "waiting"
  /\ status \notin Ended
  /\ waiter' = [NoWaiter EXCEPT !.pc = "timed_out"]
  /\ UNCHANGED <<tables, job, lane, remote, history>>

-----------------------------------------------------------------------------
(* The coordinator's process is restarted. *)

\* Mutant: the sweep forgets the jobs that were retrying.
MutantSweepMisses ==
  /\ crashes < MaxCrashes
  /\ crashes' = crashes + 1
  /\ phase # "none"
  /\ phase' = "none"
  /\ assignments' = <<>>
  /\ lane' = [s \in Servers |-> Idle]
  /\ status' = IF status \in {"queued", "running"} THEN "failed" ELSE status
  /\ subjobs' = [i \in DOMAIN subjobs |->
       IF subjobs[i].status \in {"submitting", "running"}
         THEN [subjobs[i] EXCEPT !.status = "failed"] ELSE subjobs[i]]
  /\ waiter' = NoWaiter
  /\ UNCHANGED <<attempt, remote, apify, failed, duplicates>>

\* Its coroutines are gone, and Database._initialize fails what was under way.
Sweep ==
  /\ crashes < MaxCrashes
  /\ crashes' = crashes + 1
  /\ phase # "none"
  /\ phase' = "none"
  /\ assignments' = <<>>
  /\ lane' = [s \in Servers |-> Idle]
  /\ status' = IF status \in {"queued", "running", "retrying"} THEN "failed" ELSE status
  /\ subjobs' = [i \in DOMAIN subjobs |->
       IF subjobs[i].status \in {"submitting", "running"}
         THEN [subjobs[i] EXCEPT !.status = "failed"] ELSE subjobs[i]]
  /\ waiter' = NoWaiter
  /\ UNCHANGED <<attempt, remote, apify, failed, duplicates>>

Restart == Sweep /\ UNCHANGED <<counts, results>>

\* A crash between the transactions of Fetch: the results are stored, the
\* subjob and the counts of the job are as the last poll left them.
RestartAfterInsert(s) ==
  /\ lane[s].pc = "fetching"
  /\ InsertResults(Fetched(s))
  /\ UNCHANGED counts
  /\ Sweep

\* A crash between those of ApifyAnswers: the job has failed with its results.
RestartAfterApify ==
  /\ phase = "apify"
  /\ \E items \in ApifyItems : items # <<>> /\ InsertResults(items)
  /\ Sweep
  /\ counts' \in {counts, Refreshed(subjobs', rows')}

-----------------------------------------------------------------------------
Lane(s) ==
  Submit(s) \/ Accepted(s) \/ Fetch(s) \/ BatchFails(s) \/ EndPacing(s)

Apify == ApifyAnswers \/ ApifyFails \/ ApifyRaises
Job == RunJob \/ EndRound \/ CallApify \/ Apify \/ WakeUp

Next ==
  \/ CreateJob
  \/ Job
  \/ \E s \in Servers : Lane(s) \/ Poll(s) \/ RestartAfterInsert(s)
  \/ \E s \in Servers, v \in Verdicts : \E p \in lane[s].batch : RemoteStores(s, p, v)
  \/ WaiterAnswers
  \/ WaiterTimesOut
  \/ Restart
  \/ RestartAfterApify

Spec == Init /\ [][Next]_vars

\* The event loop runs what can run, and every await has a timeout: the HTTP
\* clients', job_timeout_seconds for the polling, the sleeps' own delay.  The
\* servers need not answer, and polling may go on until that timeout.
FairSpec ==
  Spec /\ WF_vars(Job) /\ WF_vars(WaiterAnswers) /\ \A s \in Servers : WF_vars(Lane(s))

-----------------------------------------------------------------------------
(* Properties.                                                             *)

RowsOf(e) == {i \in DOMAIN rows : rows[i].email = e}

\* insert_results: "each email keeps exactly one row per job", through every
\* retry round, as long as no server lists an email twice.
OneRowPerEmail ==
  duplicates = 0 => \A i, j \in DOMAIN rows : rows[i].email = rows[j].email => i = j

\* _unknown_assignments: an unknown email goes to "a server other than the one
\* that produced its current result".
RetriedElsewhere ==
  phase = "waiting" =>
    \A p \in DOMAIN assignments : \A i \in RowsOf(assignments[p].email) :
      assignments[p].server # rows[i].backend

\* The retries "re-verify the job's unknown tail" on a "different IP": a completed
\* job that had time for them leaves no email unknown that only one server has
\* seen.  Over the rounds, each of which counts from the server of the result that
\* the round before has put in place; unless a batch failed, a server lists an
\* email twice or under a name the coordinator does not know, or Apify was asked.
Seen(e) == {subjobs[i].server : i \in {k \in DOMAIN subjobs : e \in subjobs[k].emails}}
UnknownsSeenTwice ==
  status = "completed" /\ failed = {} /\ duplicates = 0 /\ apify # "answered" =>
    (NumServers > 1 /\ Attempts > 0 /\ Named = Servers =>
       \A i \in Unknowns : \E s \in Seen(rows[i].email) : s # rows[i].backend)

\* An email with a result keeps one, and a verdict that is known is final: a
\* retry that fails, times out, answers late or is cut off by a restart leaves
\* the result it was to replace, unless a server lists an email twice.
ResultsStay ==
  [][duplicates = 0 =>
     \A i \in DOMAIN rows :
       IF rows[i].verdict = "known" THEN \E j \in DOMAIN rows' : rows'[j] = rows[i]
       ELSE rows[i].email \in EmailsIn(rows')]_vars

\* The progress of a job never goes back, unless a server lists an email twice.
ProgressMonotone == [][duplicates = 0 => counts'.processed >= counts.processed]_vars

\* A failed batch costs a completed job at most its own emails: each of the others
\* has a row, and those still unknown were retried in every round or left so by
\* Apify, whatever the other lanes and rounds went through.
GivenUp ==
  UNION {subjobs[i].emails : i \in {k \in DOMAIN subjobs : subjobs[k].status = "failed"}}
CompletedIsExhausted ==
  status = "completed" /\ duplicates = 0 =>
    /\ Emails \subseteq EmailsIn(rows) \union GivenUp
    /\ Unknowns # {} => attempt = Attempts \/ apify = "answered"

\* A subjob that says completed has its results stored, or its lane is about to
\* fetch them; if a restart in between separates the two tables, the job says that
\* it has failed.  With a duplicated row the server completes one row early.
CompletedBatchIsStored ==
  duplicates = 0 /\ (crashes = 0 \/ status # "failed") =>
    \A i \in DOMAIN subjobs : subjobs[i].status = "completed" =>
      \/ subjobs[i].emails \subseteq EmailsIn(rows)
      \/ \E s \in Servers : lane[s].sub = i /\ lane[s].pc = "fetching"

\* After a restart a job that was interrupted has failed and nothing of it is
\* left under way.
NothingDangles ==
  phase = "none" =>
    /\ status \in {"none", "completed", "failed"}
    /\ \A i \in DOMAIN subjobs : subjobs[i].status \in {"completed", "failed"}

\* What verify_and_wait returns with timed_out=false is the last word: nothing of
\* the job changes after it has ended, and the counts it returns are those of the
\* results it returns.
AnswerIsFinal ==
  waiter.pc = "answered" =>
    /\ waiter = Answer
    /\ \A v \in Verdicts : counts[v] = Cardinality(WithVerdict(rows, v))

\* Every job ends, even if no server ever answers, and who waits is answered.
JobEnds == status = "queued" ~> status \in Ended /\ waiter.pc # "waiting"
-----------------------------------------------------------------------------
(* The inductive invariant of CoordinatorProofs.                           *)

Busy == {"submitting", "polling", "fetching"}

\* The counts of the job are those of its results.
CountsAgree == \A v \in Verdicts : counts[v] = Cardinality(WithVerdict(rows, v))

\* The status of the job says where its coroutine is, and who waits for the job
\* since it was created can rely on the counts.
JobInv ==
  /\ phase = "none" <=> status \in {"none"} \union Ended
  /\ phase \in {"none", "created"} /\ status \notin Ended =>
       subjobs = <<>> /\ DOMAIN rows = {} /\ attempt = 0
  /\ phase = "apify" => attempt = 0
  /\ status = "none" \/ waiter.pc # "none" => CountsAgree
  /\ waiter.pc = "answered" => waiter = Answer /\ status \in Ended

\* The status that a subjob has while its lane is there.
StatusAt == [submitting |-> "submitting", polling |-> "running", fetching |-> "completed"]

\* A lane runs places of its own server, and its subjob is that of its batch.
LaneOK(s) ==
  /\ phase # "round" \/ lane[s].pc = "idle" => lane[s] = Idle
  /\ lane[s].batch \union lane[s].todo \subseteq PlacesOf(assignments, s)
  /\ lane[s].batch \intersect lane[s].todo = {}
  /\ lane[s].pc \notin Busy => lane[s].batch = {} /\ lane[s].sub = 0
  /\ lane[s].pc \in Busy =>
       /\ lane[s].sub \in DOMAIN subjobs
       /\ LET subjob == subjobs[lane[s].sub] IN
            /\ subjob.server = s
            /\ subjob.emails = {assignments[p].email : p \in lane[s].batch}
            /\ subjob.total = Cardinality(lane[s].batch)
            /\ subjob.status = StatusAt[lane[s].pc]
            /\ subjob.processed <= Len(remote[s])
LaneInv == \A s \in Servers : LaneOK(s)

\* What is under way is the subjob of a lane.
SubjobsInv ==
  \A i \in DOMAIN subjobs : subjobs[i].status \in {"submitting", "running"} =>
    \E s \in Servers : lane[s].sub = i /\ lane[s].pc \in {"submitting", "polling"}

\* A server lists what it was sent, and completes its job with the last of it.
RemoteOK(s) ==
  lane[s].pc \in Busy =>
    /\ \A k \in DOMAIN remote[s] : remote[s][k].place \in lane[s].batch
    /\ duplicates = 0 =>
         \A k, l \in DOMAIN remote[s] : remote[s][k].place = remote[s][l].place => k = l
    /\ lane[s].pc = "fetching" => RemoteCompleted(s)
RemoteInv == \A s \in Servers : RemoteOK(s)

\* The rows of an email come from one server.
BackendInv ==
  \A i, j \in DOMAIN rows : rows[i].email = rows[j].email => rows[i].backend = rows[j].backend

\* A retry round goes to the unknown emails, by their ids.
WaitingInv ==
  phase = "waiting" => attempt \in 1..Attempts /\ assignments = UnknownAssignments(attempt)

\* The places of the round that have not been stored yet.
ToStore == UNION {lane[s].batch \union lane[s].todo : s \in Servers}

\* No email is listed twice, and what is to be stored replaces no known verdict.
UniqueInv ==
  duplicates = 0 =>
    /\ OneRowPerEmail
    /\ \A p, q \in DOMAIN assignments : assignments[p].email = assignments[q].email => p = q
    /\ \A p \in ToStore : \A i \in RowsOf(assignments[p].email) : rows[i].verdict = "unknown"

\* An email has a row, is about to get one, or was given up with its batch.
CoverInv ==
  duplicates = 0 =>
    /\ phase = "round" =>
         \A e \in Emails : \/ e \in EmailsIn(rows) \union GivenUp
                          \/ \E p \in ToStore : assignments[p].email = e
    /\ phase \in {"apify", "waiting"} \/ status = "completed" =>
         Emails \subseteq EmailsIn(rows) \union GivenUp

\* A job completes after its last round, or when there is nothing left to retry.
ExhaustedInv ==
  status = "completed" /\ Unknowns # {} => attempt = Attempts \/ apify = "answered"

\* The server of a result has seen its email.  After the first retry round so has
\* another one, or is about to.
SeenByTwo(i) == \E s \in Seen(rows[i].email) : s # rows[i].backend
SeenInv ==
  /\ apify = "answered" => status = "completed"
  /\ attempt > 0 => \A p \in ToStore : assignments[p].email \in EmailsIn(rows)
  /\ /\ failed = {} /\ duplicates = 0 /\ status # "failed" /\ apify # "answered"
     /\ NumServers > 1 /\ Named = Servers
     =>
     /\ \A i \in DOMAIN rows : rows[i].backend \in Seen(rows[i].email)
     /\ attempt > 0 => \A i \in Unknowns :
          \/ SeenByTwo(i)
          \/ attempt = 1 /\ phase = "waiting"
          \/ attempt = 1 /\ \E p \in ToStore :
               assignments[p].email = rows[i].email /\ assignments[p].server # rows[i].backend

\* The progress that is shown is not ahead of the tables.
ProgressInv ==
  duplicates = 0 => counts.processed <= Refreshed(subjobs, rows).processed

IInv ==
  /\ TypeOK /\ JobInv /\ LaneInv /\ SubjobsInv /\ RemoteInv /\ BackendInv /\ WaitingInv
  /\ UniqueInv /\ CoverInv /\ CompletedBatchIsStored /\ ExhaustedInv /\ SeenInv /\ ProgressInv
=============================================================================
