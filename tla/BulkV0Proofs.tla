----------------------------- MODULE BulkV0Proofs -----------------------------
(***************************************************************************)
(* Proofs about the queue of BulkV0: type correctness, the bound on        *)
(* duplicated rows, that a task is given up only when faults have used up  *)
(* its attempts, and the safety part of JobContract, for any number of     *)
(* jobs, tasks, backends, attempts and adverse events.                     *)
(***************************************************************************)
EXTENDS BulkV0, FiniteSetTheorems, SequenceTheorems, TLAPS

USE JobsAssumption, HostsAssumption, RunnerAssumption, PortsAssumption, BudgetAssumption

-----------------------------------------------------------------------------
(* Type correctness. *)

LEMMA TypeInit == Init => TypeOK
  BY DEF Init, TypeOK, AdverseEvents, Attempts

\* The messages and the executions that a poll starts.
LEMMA TypePoll ==
  ASSUME TypeOK, MessageInv, NEW h \in Hosts, NEW ts \in SUBSET Tasks, Poll(h, ts)
  PROVE  TypeOK'
<1>1. \A t \in ts : attempts[t] \in Attempts
  BY DEF Poll, MessageInv, TypeOK, Attempts
<1>2. attempt_at' \in [Tasks -> {"absent", "due", "later", "null", "deleted"}]
  BY DEF Poll, AfterPoll, TypeOK
<1>3. attempts' \in [Tasks -> 0..MaxAttempts]
  BY <1>1 DEF Poll, TypeOK, Attempts
<1>4. stage' \in [Tasks -> [Attempts -> {"none", "checking", "inserting", "completing"}]]
  BY DEF Poll, TypeOK
<1>5. host' \in [Tasks -> [Attempts -> Hosts \union {NoHost}]]
  BY DEF Poll, TypeOK
<1>6. port' \in [Tasks -> [Attempts -> Nat]]
  BY DEF Poll, TypeOK
<1> QED
  BY <1>2, <1>3, <1>4, <1>5, <1>6 DEF Poll, TypeOK, table

LEMMA TypeEnd ==
  ASSUME TypeOK, NEW t \in Tasks, NEW a \in Attempts, End(t, a)
  PROVE  /\ stage' \in [Tasks -> [Attempts -> {"none", "checking", "inserting", "completing"}]]
         /\ host' \in [Tasks -> [Attempts -> Hosts \union {NoHost}]]
         /\ port' \in [Tasks -> [Attempts -> Nat]]
  BY DEF End, TypeOK

LEMMA TypeHappens ==
  ASSUME TypeOK, NEW f \in AdverseEvents, Happens(f)
  PROVE  used' \in [AdverseEvents -> Nat]
  BY DEF Happens, TypeOK

LEMMA TypePage ==
  ASSUME TypeOK, NEW j \in Jobs, SelectPage(j)
  PROVE  TypeOK'
<1> DEFINE offset == Len(reader[j].got)
           n == PageLength(j, offset)
<1>1. PICK page \in [1..n -> Visible(j)] :
        reader' = [reader EXCEPT ![j] =
          [stage |-> IF n < PageLimit THEN "done" ELSE "idle",
           got |-> @.got \o [i \in 1..n |-> ids[page[i]][1]]]]
  BY DEF SelectPage
<1>2. n \in Nat
  <2>1. IsFiniteSet(DOMAIN ids)
    BY FS_Interval DEF TypeOK
  <2>2. Visible(j) \in SUBSET DOMAIN ids
    BY DEF Visible
  <2>3. total_processed(j) \in Nat
    BY <2>1, <2>2, FS_Subset, FS_CardinalityType DEF total_processed
  <2>4. offset \in Nat
    BY DEF TypeOK
  <2> HIDE DEF offset
  <2> QED
    BY <2>3, <2>4 DEF PageLength
<1>3. [i \in 1..n |-> ids[page[i]][1]] \in Seq(Tasks)
  <2>1. \A i \in 1..n : ids[page[i]][1] \in Tasks
    BY <1>1 DEF Visible, TypeOK
  <2> QED
    BY <1>2, <2>1
<1> HIDE DEF n
<1> DEFINE Clients == [stage : {"idle", "counting", "reading", "done"}, got : Seq(Tasks)]
           new == [stage |-> IF n < PageLimit THEN "done" ELSE "idle",
                   got |-> reader[j].got \o [i \in 1..n |-> ids[page[i]][1]]]
<1>4. reader' \in [Jobs -> Clients]
  <2>1. reader \in [Jobs -> Clients]
    BY DEF TypeOK
  <2>2. new \in Clients
    <3>1. reader[j].got \in Seq(Tasks)
      BY <2>1
    <3>2. reader[j].got \o [i \in 1..n |-> ids[page[i]][1]] \in Seq(Tasks)
      BY <1>3, <3>1, ConcatProperties
    <3> QED
      BY <3>2
  <2>3. reader' = [reader EXCEPT ![j] = new]
    BY <1>1, <2>1
  <2> HIDE DEF Clients, new
  <2> QED
    BY <2>1, <2>2, <2>3
<1> QED
  BY <1>4 DEF SelectPage, TypeOK, queue, runner, table

LEMMA TypeNext ==
  ASSUME TypeOK, MessageInv, [Next]_vars
  PROVE  TypeOK'
<1> USE DEF queue, runner, table
<1>1. ASSUME NEW j \in Jobs, NEW n \in PortCounts, InsertJob(j, n)
      PROVE  TypeOK'
  BY <1>1 DEF InsertJob, TypeOK
<1>2. ASSUME NEW j \in Jobs, PostFails(j) \/ Accept(j)
      PROVE  TypeOK'
  <2>1. post' \in [Jobs -> {"new", "submitting", "accepted", "failed"}]
    BY <1>2 DEF PostFails, Accept, TypeOK
  <2> QED
    BY <1>2, <2>1 DEF PostFails, Accept, TypeOK
<1>3. ASSUME NEW t \in Tasks, SubmitJob(t) \/ Expire(t)
      PROVE  TypeOK'
  <2>1. CASE SubmitJob(t)
    BY <2>1 DEF SubmitJob, TypeOK
  <2>2. CASE Expire(t)
    BY <2>2 DEF Expire, TypeOK
  <2> QED
    BY <1>3, <2>1, <2>2
<1>4. ASSUME NEW t \in Tasks, Lapse(t)
      PROVE  TypeOK'
  <2>1. used' \in [AdverseEvents -> Nat]
    BY <1>4, TypeHappens DEF Lapse, AdverseEvents
  <2> QED
    BY <1>4, <2>1 DEF Lapse, TypeOK
<1>5. ASSUME NEW h \in Hosts, Crash(h)
      PROVE  TypeOK'
  <2>1. stage' \in [Tasks -> [Attempts -> {"none", "checking", "inserting", "completing"}]]
    BY <1>5 DEF Crash, TypeOK
  <2>2. host' \in [Tasks -> [Attempts -> Hosts \union {NoHost}]]
    BY <1>5 DEF Crash, TypeOK
  <2>3. port' \in [Tasks -> [Attempts -> Nat]]
    BY <1>5 DEF Crash, TypeOK
  <2>4. used' \in [AdverseEvents -> Nat]
    BY <1>5, TypeHappens DEF Crash, AdverseEvents
  <2> QED
    BY <1>5, <2>1, <2>2, <2>3, <2>4 DEF Crash, TypeOK
<1>6. ASSUME NEW h \in Hosts, NEW ts \in SUBSET Tasks, Poll(h, ts)
      PROVE  TypeOK'
  BY <1>6, TypePoll
<1>7. ASSUME NEW t \in Tasks, NEW a \in Attempts, NextPort(t, a)
      PROVE  TypeOK'
  <2>1. port' \in [Tasks -> [Attempts -> Nat]]
    BY <1>7 DEF NextPort, TypeOK
  <2> QED
    BY <1>7, <2>1 DEF NextPort, TypeOK
<1>8. ASSUME NEW t \in Tasks, NEW a \in Attempts, Insert(t, a)
      PROVE  TypeOK'
  BY <1>8 DEF Insert, TypeOK
<1>9. ASSUME NEW t \in Tasks, NEW a \in Attempts, CommitInsert(t, a)
      PROVE  TypeOK'
  BY <1>9 DEF CommitInsert, TypeOK
<1>10. ASSUME NEW t \in Tasks, NEW a \in Attempts, InsertFails(t, a)
       PROVE  TypeOK'
  <2>1. used' \in [AdverseEvents -> Nat]
    BY <1>10, TypeHappens DEF InsertFails, AdverseEvents, TypeOK
  <2> QED
    BY <1>10, <2>1, TypeEnd DEF InsertFails, TypeOK
<1>11. ASSUME NEW t \in Tasks, NEW a \in Attempts, Complete(t, a)
       PROVE  TypeOK'
  BY <1>11, TypeEnd DEF Complete, TypeOK
<1>12. ASSUME NEW t \in Tasks, NEW a \in Attempts, InsertAnswerLost(t, a) \/ CompleteFails(t, a)
       PROVE  TypeOK'
  <2>1. used' \in [AdverseEvents -> Nat]
    BY <1>12, TypeHappens DEF InsertAnswerLost, CompleteFails, AdverseEvents
  <2> QED
    BY <1>12, <2>1, TypeEnd DEF InsertAnswerLost, CompleteFails, TypeOK
<1>13. ASSUME NEW j \in Jobs, SelectTotal(j) \/ SelectCount(j)
       PROVE  TypeOK'
  <2> DEFINE Clients == [stage : {"idle", "counting", "reading", "done"}, got : Seq(Tasks)]
  <2>1. PICK s \in {"idle", "counting", "reading"} : Reads(j, s)
    BY <1>13 DEF SelectTotal, SelectCount
  <2>2. reader' \in [Jobs -> Clients]
    BY <2>1 DEF Reads, TypeOK
  <2> HIDE DEF Clients
  <2> QED
    BY <1>13, <2>2 DEF SelectTotal, SelectCount, TypeOK, Clients
<1>14. ASSUME NEW j \in Jobs, SelectPage(j)
       PROVE  TypeOK'
  BY <1>14, TypePage
<1>15. CASE SelectOld \/ DeleteJobs \/ PruneFails
  BY <1>15 DEF SelectOld, DeleteJobs, PruneFails, TypeOK
<1>16. CASE DeleteResults
  BY <1>16 DEF DeleteResults, TypeOK
<1>17. CASE UNCHANGED vars
  BY <1>17 DEF vars, TypeOK
<1> HIDE DEF queue, runner, table
<1> QED
  BY <1>1, <1>2, <1>3, <1>4, <1>5, <1>6, <1>7, <1>8, <1>9, <1>10, <1>11, <1>12,
     <1>13, <1>14, <1>15, <1>16, <1>17 DEF Next, Check, Settle

-----------------------------------------------------------------------------
(* What the steps do to one execution.                                     *)

LEMMA EndStage ==
  ASSUME TypeOK, NEW t \in Tasks, NEW a \in Attempts, End(t, a),
         NEW u \in Tasks, NEW b \in Attempts
  PROVE  stage'[u][b] = IF u = t /\ b = a THEN "none" ELSE stage[u][b]
  BY DEF End, TypeOK

LEMMA CrashStage ==
  ASSUME TypeOK, NEW h \in Hosts, Crash(h), NEW u \in Tasks, NEW b \in Attempts
  PROVE  stage'[u][b] = IF host[u][b] = h THEN "none" ELSE stage[u][b]
  BY DEF Crash

LEMMA PollStage ==
  ASSUME TypeOK, NEW h \in Hosts, NEW ts \in SUBSET Tasks, Poll(h, ts),
         NEW u \in Tasks, NEW b \in Attempts
  PROVE  stage'[u][b] = IF u \in ts /\ b = attempts[u] THEN "checking" ELSE stage[u][b]
  BY DEF Poll, TypeOK

LEMMA InsertRow ==
  ASSUME TypeOK, NEW t \in Tasks, NEW a \in Attempts, Insert(t, a),
         NEW u \in Tasks, NEW b \in Attempts
  PROVE  /\ stage'[u][b] = IF u = t /\ b = a THEN "inserting" ELSE stage[u][b]
         /\ row'[u][b] = IF u = t /\ b = a THEN "written" ELSE row[u][b]
  BY DEF Insert, TypeOK

LEMMA CommitRow ==
  ASSUME TypeOK, NEW t \in Tasks, NEW a \in Attempts, CommitInsert(t, a),
         NEW u \in Tasks, NEW b \in Attempts
  PROVE  /\ stage'[u][b] = IF u = t /\ b = a /\ stage[u][b] = "inserting"
                           THEN "completing" ELSE stage[u][b]
         /\ row'[u][b] = IF u = t /\ b = a THEN "visible" ELSE row[u][b]
         /\ row[t][a] = "written"
  BY DEF CommitInsert, TypeOK

LEMMA DeleteRow ==
  ASSUME TypeOK, DeleteResults, NEW u \in Tasks, NEW b \in Attempts
  PROVE  row'[u][b] = IF JobOf[u] \in prune.ids /\ row[u][b] = "visible"
                      THEN "deleted" ELSE row[u][b]
  BY DEF DeleteResults

-----------------------------------------------------------------------------
(* Executions and rows: ExecutionInv.                                      *)

LEMMA ExecutionFrame ==
  ASSUME ExecutionInv, UNCHANGED <<attempts, stage, row>>
  PROVE  ExecutionInv'
  BY DEF ExecutionInv

\* An execution that ends, for whatever reason.
LEMMA ExecutionEnds ==
  ASSUME TypeOK, ExecutionInv, UNCHANGED <<attempts, row>>,
         \A u \in Tasks, b \in Attempts : stage'[u][b] \in {"none", stage[u][b]}
  PROVE  ExecutionInv'
  BY DEF ExecutionInv

LEMMA ExecutionNext ==
  ASSUME TypeOK, MessageInv, ExecutionInv, [Next]_vars
  PROVE  ExecutionInv'
<1> USE DEF queue, runner, table
<1>1. ASSUME NEW j \in Jobs, (\E n \in PortCounts : InsertJob(j, n)) \/ PostFails(j) \/ Accept(j)
      PROVE  ExecutionInv'
  BY <1>1, ExecutionFrame DEF InsertJob, PostFails, Accept
<1>2. ASSUME NEW t \in Tasks, SubmitJob(t) \/ Expire(t) \/ Lapse(t)
      PROVE  ExecutionInv'
  BY <1>2, ExecutionFrame DEF SubmitJob, Expire, Lapse
<1>3. ASSUME NEW h \in Hosts, Crash(h)
      PROVE  ExecutionInv'
  BY <1>3, CrashStage, ExecutionEnds DEF Crash
<1>4. ASSUME NEW h \in Hosts, NEW ts \in SUBSET Tasks, Poll(h, ts)
      PROVE  ExecutionInv'
  <2>1. row' = row
    BY <1>4 DEF Poll
  <2>2. ASSUME NEW u \in Tasks
        PROVE  /\ attempts[u] \in Nat
               /\ attempts'[u] = IF u \in ts THEN attempts[u] - 1 ELSE attempts[u]
               /\ u \in ts => attempts[u] \in Attempts
    BY <1>4 DEF Poll, TypeOK, MessageInv, Attempts
  <2>3. ASSUME NEW u \in Tasks, NEW b \in Attempts, b <= attempts'[u]
        PROVE  b <= attempts[u] /\ ~ (u \in ts /\ b = attempts[u])
    BY <2>2, <2>3 DEF Attempts
  <2>4. ASSUME NEW u \in ts
        PROVE  row[u][attempts[u]] = "none"
    BY <2>2 DEF ExecutionInv
  <2> QED
    BY <1>4, <2>1, <2>3, <2>4, PollStage DEF ExecutionInv
<1>5. ASSUME NEW t \in Tasks, NEW a \in Attempts, NextPort(t, a)
      PROVE  ExecutionInv'
  BY <1>5, ExecutionFrame DEF NextPort
<1>6. ASSUME NEW t \in Tasks, NEW a \in Attempts, Insert(t, a)
      PROVE  ExecutionInv'
  <2>1. attempts' = attempts /\ stage[t][a] = "checking"
    BY <1>6 DEF Insert
  <2> QED
    BY <1>6, <2>1, InsertRow DEF ExecutionInv
<1>7. ASSUME NEW t \in Tasks, NEW a \in Attempts, CommitInsert(t, a)
      PROVE  ExecutionInv'
  <2>1. attempts' = attempts
    BY <1>7 DEF CommitInsert
  <2> QED
    BY <1>7, <2>1, CommitRow DEF ExecutionInv
<1>8. ASSUME NEW t \in Tasks, NEW a \in Attempts,
             \/ InsertFails(t, a) \/ InsertAnswerLost(t, a)
             \/ Complete(t, a) \/ CompleteFails(t, a)
      PROVE  ExecutionInv'
  <2>1. UNCHANGED <<attempts, row>> /\ End(t, a)
    BY <1>8 DEF InsertFails, InsertAnswerLost, Complete, CompleteFails
  <2> QED
    BY <2>1, EndStage, ExecutionEnds
<1>9. ASSUME NEW j \in Jobs, SelectTotal(j) \/ SelectCount(j) \/ SelectPage(j)
      PROVE  ExecutionInv'
  BY <1>9, ExecutionFrame DEF SelectTotal, SelectCount, SelectPage
<1>10. CASE SelectOld \/ DeleteJobs \/ PruneFails
  BY <1>10, ExecutionFrame DEF SelectOld, DeleteJobs, PruneFails
<1>11. CASE DeleteResults
  <2>1. UNCHANGED <<attempts, stage>>
    BY <1>11 DEF DeleteResults
  <2> QED
    BY <1>11, <2>1, DeleteRow DEF ExecutionInv
<1>12. CASE UNCHANGED vars
  BY <1>12, ExecutionFrame DEF vars
<1> HIDE DEF queue, runner, table
<1> QED
  BY <1>1, <1>2, <1>3, <1>4, <1>5, <1>6, <1>7, <1>8, <1>9, <1>10, <1>11, <1>12 DEF Next, Check, Settle

-----------------------------------------------------------------------------
(* Messages: MessageInv.                                                   *)

\* What MessageInv says of one task.
MessageOK(t) ==
  /\ attempt_at[t] = "absent" => attempts[t] = MaxAttempts /\ Live(t) = {} /\ Stored(t) = {}
  /\ attempt_at[t] # "absent" => post[JobOf[t]] # "new"
  /\ attempt_at[t] \in {"due", "later"} => attempts[t] > 0
  /\ attempt_at[t] = "null" => attempts[t] = 0
  /\ attempt_at[t] = "deleted" => Stored(t) # {} \/ ports[JobOf[t]] = 0

\* A step that leaves the message of t alone, starts no execution of it and takes
\* no row back.
LEMMA MessageKept ==
  ASSUME NEW t \in Tasks, MessageOK(t), UNCHANGED <<attempt_at[t], attempts[t]>>,
         post[JobOf[t]] # "new" => post'[JobOf[t]] # "new",
         attempt_at[t] = "deleted" => ports'[JobOf[t]] = ports[JobOf[t]],
         Stored(t) \subseteq Stored(t)',
         attempt_at[t] = "absent" => Live(t)' \subseteq Live(t) /\ Stored(t)' \subseteq Stored(t)
  PROVE  MessageOK(t)'
  BY DEF MessageOK

LEMMA MessageFrame ==
  ASSUME MessageInv, UNCHANGED <<post, ports, jobs, attempt_at, attempts, stage, row>>
  PROVE  MessageInv'
  BY DEF MessageInv, Live, Stored

\* A message that exists changes, with the rest unchanged but the executions.
LEMMA MessageChanges ==
  ASSUME NEW t \in Tasks, MessageOK(t), attempt_at[t] # "absent", attempt_at'[t] # "absent",
         UNCHANGED <<post, ports, row>>,
         attempt_at'[t] \in {"due", "later"} => attempts'[t] > 0,
         attempt_at'[t] = "null" => attempts'[t] = 0,
         attempt_at'[t] = "deleted" => Stored(t) # {} \/ ports[JobOf[t]] = 0
  PROVE  MessageOK(t)'
  BY DEF MessageOK, Stored

LEMMA MessageNext ==
  ASSUME TypeOK, MessageInv, ExecutionInv, [Next]_vars
  PROVE  MessageInv'
<1> USE DEF queue, runner, table
<1>a. \A t \in Tasks : MessageOK(t)
  BY DEF MessageInv, MessageOK
<1>b. ASSUME UNCHANGED <<post, jobs>>, \A t \in Tasks : MessageOK(t)'
      PROVE  MessageInv'
  BY <1>b DEF MessageInv, MessageOK
<1>c. JobOf \in [Tasks -> Jobs]
  OBVIOUS
<1>1. ASSUME NEW j \in Jobs, NEW n \in PortCounts, InsertJob(j, n)
      PROVE  MessageInv'
  <2>1. /\ post' = [post EXCEPT ![j] = "submitting"] /\ post[j] = "new"
        /\ ports' = [ports EXCEPT ![j] = n] /\ jobs' = jobs \union {j}
        /\ UNCHANGED <<queue, runner, table>>
    BY <1>1 DEF InsertJob
  <2>2. \A i \in Jobs : post'[i] = "new" => i \notin jobs'
    BY <2>1 DEF MessageInv, TypeOK
  <2>3. ASSUME NEW t \in Tasks
        PROVE  MessageOK(t)'
    <3>1. post[JobOf[t]] # "new" => post'[JobOf[t]] # "new" /\ JobOf[t] # j
      BY <2>1, <1>c DEF TypeOK
    <3>2. attempt_at[t] = "deleted" => ports'[JobOf[t]] = ports[JobOf[t]]
      BY <1>a, <1>c, <2>1, <3>1 DEF MessageOK, TypeOK
    <3> QED
      BY <1>a, <2>1, <3>1, <3>2, MessageKept DEF Live, Stored
  <2> QED
    BY <2>2, <2>3 DEF MessageInv, MessageOK
<1>2. ASSUME NEW j \in Jobs, PostFails(j) \/ Accept(j)
      PROVE  MessageInv'
  <2>1. /\ \E s \in {"accepted", "failed"} : post' = [post EXCEPT ![j] = s]
        /\ UNCHANGED <<ports, jobs, queue, runner, table>>
    BY <1>2 DEF PostFails, Accept
  <2>2. \A i \in Jobs : post'[i] = "new" => post[i] = "new"
    BY <2>1 DEF TypeOK
  <2>3. \A t \in Tasks : MessageOK(t)'
    BY <1>a, <1>c, <2>1, <2>2, MessageKept DEF Live, Stored
  <2> QED
    BY <2>1, <2>2, <2>3 DEF MessageInv, MessageOK
<1>3. ASSUME NEW t \in Tasks, SubmitJob(t)
      PROVE  MessageInv'
  <2>1. /\ post[JobOf[t]] = "submitting" /\ attempt_at[t] = "absent"
        /\ attempt_at' = [attempt_at EXCEPT ![t] = "due"]
        /\ UNCHANGED <<post, ports, jobs, attempts, stage, row>>
    BY <1>3 DEF SubmitJob
  <2>2. MaxAttempts > 0
    OBVIOUS
  <2>3. MessageOK(t)'
    BY <1>a, <2>1, <2>2 DEF MessageOK, TypeOK
  <2>4. \A u \in Tasks : u # t => attempt_at'[u] = attempt_at[u]
    BY <2>1 DEF TypeOK
  <2>5. \A u \in Tasks : u # t => MessageOK(u)'
    BY <1>a, <2>1, <2>4, MessageKept DEF Live, Stored
  <2> QED
    BY <1>b, <2>1, <2>3, <2>5
<1>4. ASSUME NEW t \in Tasks, Expire(t) \/ Lapse(t)
      PROVE  MessageInv'
  <2>1. /\ attempt_at[t] = "later" /\ attempt_at' = [attempt_at EXCEPT ![t] = "due"]
        /\ UNCHANGED <<post, ports, jobs, attempts, stage, row>>
    BY <1>4 DEF Expire, Lapse
  <2>2. attempts[t] > 0
    BY <1>a, <2>1 DEF MessageOK
  <2>3. MessageOK(t)'
    BY <1>a, <2>1, <2>2, MessageChanges DEF TypeOK
  <2>4. \A u \in Tasks : u # t => attempt_at'[u] = attempt_at[u]
    BY <2>1 DEF TypeOK
  <2>5. \A u \in Tasks : u # t => MessageOK(u)'
    BY <1>a, <2>1, <2>4, MessageKept DEF Live, Stored
  <2> QED
    BY <1>b, <2>1, <2>3, <2>5
<1>5. ASSUME NEW h \in Hosts, Crash(h)
      PROVE  MessageInv'
  <2>1. UNCHANGED <<post, ports, jobs, attempt_at, attempts, row>>
    BY <1>5 DEF Crash
  <2>2. \A u \in Tasks : Live(u)' \subseteq Live(u)
    BY <1>5, CrashStage DEF Live
  <2>3. \A u \in Tasks : MessageOK(u)'
    BY <1>a, <2>1, <2>2, MessageKept DEF Stored
  <2> QED
    BY <1>b, <2>1, <2>3
<1>6. ASSUME NEW h \in Hosts, NEW ts \in SUBSET Tasks, Poll(h, ts)
      PROVE  MessageInv'
  <2>1. /\ UNCHANGED <<post, ports, jobs, row>>
        /\ attempt_at' = [t \in Tasks |-> IF t \in ts THEN AfterPoll(t) ELSE attempt_at[t]]
        /\ attempts' = [t \in Tasks |-> IF t \in ts THEN attempts[t] - 1 ELSE attempts[t]]
    BY <1>6 DEF Poll
  <2>2. ASSUME NEW u \in Tasks, u \in ts
        PROVE  MessageOK(u)'
    <3>1. attempt_at[u] = "due"
      BY <1>6, <2>2 DEF Poll
    <3>2. attempts[u] \in Nat /\ attempts[u] > 0
      BY <1>a, <3>1 DEF MessageOK, TypeOK
    <3>3. attempt_at'[u] = AfterPoll(u) /\ attempts'[u] = attempts[u] - 1
      BY <2>1, <2>2
    <3>4. \/ attempt_at'[u] = "null" /\ attempts'[u] = 0
          \/ attempt_at'[u] = "later" /\ attempts'[u] > 0
      <4>1. CASE attempts[u] = 1
        BY <3>3, <4>1 DEF AfterPoll
      <4>2. CASE attempts[u] # 1
        BY <3>2, <3>3, <4>2 DEF AfterPoll
      <4> QED
        BY <4>1, <4>2
    <3> QED
      BY <1>a, <2>1, <3>1, <3>4, MessageChanges
  <2>3. ASSUME NEW u \in Tasks, u \notin ts
        PROVE  MessageOK(u)'
    <3>1. attempt_at'[u] = attempt_at[u] /\ attempts'[u] = attempts[u]
      BY <2>1, <2>3
    <3>2. Live(u)' = Live(u) /\ Stored(u)' = Stored(u)
      BY <1>6, <2>1, <2>3, PollStage DEF Live, Stored
    <3> QED
      BY <1>a, <2>1, <3>1, <3>2, MessageKept
  <2> QED
    BY <1>b, <2>1, <2>2, <2>3
<1>7. ASSUME NEW t \in Tasks, NEW a \in Attempts, NextPort(t, a)
      PROVE  MessageInv'
  BY <1>7, MessageFrame DEF NextPort
<1>8. ASSUME NEW t \in Tasks, NEW a \in Attempts, Insert(t, a)
      PROVE  MessageInv'
  <2>1. /\ UNCHANGED <<post, ports, jobs, attempt_at, attempts>> /\ stage[t][a] = "checking"
    BY <1>8 DEF Insert
  <2>2. attempt_at[t] # "absent"
    BY <1>a, <2>1 DEF MessageOK, Live
  <2>3. \A u \in Tasks : Stored(u) \subseteq Stored(u)'
    BY <1>8, InsertRow DEF Stored
  <2>4. \A u \in Tasks : u # t => Live(u)' \subseteq Live(u) /\ Stored(u)' \subseteq Stored(u)
    BY <1>8, InsertRow DEF Live, Stored
  <2>5. \A u \in Tasks : MessageOK(u)'
    BY <1>a, <2>1, <2>2, <2>3, <2>4, MessageKept
  <2> QED
    BY <1>b, <2>1, <2>5
<1>9. ASSUME NEW t \in Tasks, NEW a \in Attempts, CommitInsert(t, a)
      PROVE  MessageInv'
  <2>1. UNCHANGED <<post, ports, jobs, attempt_at, attempts>>
    BY <1>9 DEF CommitInsert
  <2>2. \A u \in Tasks : Stored(u)' = Stored(u)
    BY <1>9, CommitRow DEF Stored
  <2>3. \A u \in Tasks : Live(u)' = Live(u)
    BY <1>9, CommitRow DEF Live
  <2>4. \A u \in Tasks : MessageOK(u)'
    BY <1>a, <2>1, <2>2, <2>3, MessageKept
  <2> QED
    BY <1>b, <2>1, <2>4
<1>10. ASSUME NEW t \in Tasks, NEW a \in Attempts,
              InsertFails(t, a) \/ InsertAnswerLost(t, a) \/ CompleteFails(t, a)
       PROVE  MessageInv'
  <2>1. UNCHANGED <<post, ports, jobs, attempt_at, attempts, row>> /\ End(t, a)
    BY <1>10 DEF InsertFails, InsertAnswerLost, CompleteFails
  <2>2. \A u \in Tasks : Live(u)' \subseteq Live(u)
    BY <2>1, EndStage DEF Live
  <2>3. \A u \in Tasks : MessageOK(u)'
    BY <1>a, <2>1, <2>2, MessageKept DEF Stored
  <2> QED
    BY <1>b, <2>1, <2>3
<1>11. ASSUME NEW t \in Tasks, NEW a \in Attempts, Complete(t, a)
       PROVE  MessageInv'
  <2>1. /\ UNCHANGED <<post, ports, jobs, attempts, row>> /\ End(t, a) /\ Finished(t, a)
        /\ attempt_at' = [attempt_at EXCEPT ![t] = "deleted"]
    BY <1>11 DEF Complete
  <2>2. attempt_at[t] # "absent"
    BY <1>a, <2>1 DEF MessageOK, Finished, Live
  <2>3. Stored(t) # {} \/ ports[JobOf[t]] = 0
    BY <2>1 DEF Finished, ExecutionInv, Stored
  <2>4. attempt_at'[t] = "deleted"
    BY <2>1 DEF TypeOK
  <2>5. MessageOK(t)'
    BY <1>a, <2>1, <2>2, <2>3, <2>4, MessageChanges
  <2>6. \A u \in Tasks : u # t => attempt_at'[u] = attempt_at[u]
    BY <2>1 DEF TypeOK
  <2>7. \A u \in Tasks : Live(u)' \subseteq Live(u)
    BY <2>1, EndStage DEF Live
  <2>8. \A u \in Tasks : u # t => MessageOK(u)'
    BY <1>a, <2>1, <2>6, <2>7, MessageKept DEF Stored
  <2> QED
    BY <1>b, <2>1, <2>5, <2>8
<1>12. ASSUME NEW j \in Jobs, SelectTotal(j) \/ SelectCount(j) \/ SelectPage(j)
       PROVE  MessageInv'
  BY <1>12, MessageFrame DEF SelectTotal, SelectCount, SelectPage
<1>13. CASE SelectOld \/ PruneFails
  BY <1>13, MessageFrame DEF SelectOld, PruneFails
<1>14. CASE DeleteJobs
  <2>1. UNCHANGED <<post, ports, queue, runner, table>> /\ jobs' \subseteq jobs
    BY <1>14 DEF DeleteJobs
  <2> QED
    BY <2>1 DEF MessageInv, Live, Stored
<1>15. CASE DeleteResults
  <2>1. UNCHANGED <<post, ports, jobs, queue, runner>>
    BY <1>15 DEF DeleteResults
  <2>2. \A u \in Tasks : Stored(u)' = Stored(u)
    BY <1>15, DeleteRow DEF Stored
  <2>3. \A u \in Tasks : MessageOK(u)'
    BY <1>a, <2>1, <2>2, MessageKept DEF Live
  <2> QED
    BY <1>b, <2>1, <2>3
<1>16. CASE UNCHANGED vars
  BY <1>16, MessageFrame DEF vars
<1> HIDE DEF queue, runner, table
<1> QED
  BY <1>1, <1>2, <1>3, <1>4, <1>5, <1>6, <1>7, <1>8, <1>9, <1>10, <1>11, <1>12,
     <1>13, <1>14, <1>15, <1>16 DEF Next, Check, Settle

-----------------------------------------------------------------------------
(* The rows of a task: what a step adds to its potential, a crash, a lapse  *)
(* or a failed completion has paid for.                                    *)

LEMMA AttemptSets ==
  ASSUME NEW A \in SUBSET Attempts
  PROVE  IsFiniteSet(A) /\ Cardinality(A) \in Nat
<1>1. IsFiniteSet(Attempts)
  BY FS_Interval DEF Attempts
<1> QED
  BY <1>1, FS_Subset, FS_CardinalityType

LEMMA AttemptAdded ==
  ASSUME NEW A \in SUBSET Attempts, NEW B \in SUBSET Attempts, NEW a, B \subseteq A \union {a}
  PROVE  Cardinality(B) <= Cardinality(A) + 1
<1>1. IsFiniteSet(A) /\ Cardinality(A) \in Nat /\ Cardinality(B) \in Nat
  BY AttemptSets
<1>2. IsFiniteSet(A \union {a}) /\ Cardinality(A \union {a}) \in Nat
  BY <1>1, FS_AddElement, FS_CardinalityType
<1>3. Cardinality(A \union {a}) = IF a \in A THEN Cardinality(A) ELSE Cardinality(A) + 1
  BY <1>1, FS_AddElement
<1>4. Cardinality(A \union {a}) <= Cardinality(A) + 1
  BY <1>1, <1>3
<1>5. Cardinality(B) <= Cardinality(A \union {a})
  BY <1>2, FS_Subset
<1> QED
  BY <1>1, <1>2, <1>4, <1>5

LEMMA AttemptRemoved ==
  ASSUME NEW A \in SUBSET Attempts, NEW B \in SUBSET Attempts, NEW a \in A, B \subseteq A \ {a}
  PROVE  Cardinality(B) <= Cardinality(A) + (-1)
<1>1. IsFiniteSet(A) /\ Cardinality(A) \in Nat /\ Cardinality(B) \in Nat
  BY AttemptSets
<1>2. IsFiniteSet(A \ {a}) /\ Cardinality(A \ {a}) = Cardinality(A) - 1
  BY <1>1, FS_RemoveElement
<1>3. Cardinality(B) <= Cardinality(A \ {a})
  BY <1>2, FS_Subset
<1> QED
  BY <1>1, <1>2, <1>3

LEMMA AttemptSubset ==
  ASSUME NEW A \in SUBSET Attempts, NEW B \in SUBSET A
  PROVE  Cardinality(B) <= Cardinality(A) + 0
<1>1. IsFiniteSet(A) /\ Cardinality(A) \in Nat
  BY AttemptSets
<1> QED
  BY <1>1, FS_Subset

\* The parts of a potential are numbers, before and after a step.
LEMMA PotentialParts ==
  ASSUME NEW u \in Tasks
  PROVE  /\ Stored(u) \in SUBSET Attempts /\ Cardinality(Stored(u)) \in Nat
         /\ Checking(u) \in SUBSET Attempts /\ Cardinality(Checking(u)) \in Nat
         /\ Pending(u) \in {0, 1}
         /\ Stored(u)' \in SUBSET Attempts /\ Cardinality(Stored(u)') \in Nat
         /\ Checking(u)' \in SUBSET Attempts /\ Cardinality(Checking(u)') \in Nat
         /\ Pending(u)' \in {0, 1}
<1>1. Stored(u) \in SUBSET Attempts /\ Checking(u) \in SUBSET Attempts
  BY DEF Stored, Checking
<1>2. Stored(u)' \in SUBSET Attempts /\ Checking(u)' \in SUBSET Attempts
  BY DEF Stored, Checking
<1>3. Pending(u) \in {0, 1} /\ Pending(u)' \in {0, 1}
  BY DEF Pending
<1> QED
  BY <1>1, <1>2, <1>3, AttemptSets

LEMMA LossesType ==
  ASSUME TypeOK
  PROVE  Losses \in Nat
<1>1. /\ used["crash"] \in Nat /\ used["lapse"] \in Nat
      /\ used["answer"] \in Nat /\ used["complete"] \in Nat
  BY DEF TypeOK, AdverseEvents
<1> QED
  BY <1>1 DEF Losses

\* Only the counter of the fault that happens changes.
LEMMA LossesNext ==
  ASSUME TypeOK, NEW f \in AdverseEvents, Happens(f)
  PROVE  /\ Losses' >= Losses
         /\ f \in {"crash", "lapse", "answer", "complete"} => Losses' = Losses + 1
<1>1. /\ used["crash"] \in Nat /\ used["lapse"] \in Nat
      /\ used["answer"] \in Nat /\ used["complete"] \in Nat
  BY DEF TypeOK, AdverseEvents
<1>2. \A g \in AdverseEvents : used'[g] = IF g = f THEN used[g] + 1 ELSE used[g]
  BY DEF TypeOK, Happens
<1>3. /\ used'["crash"] = IF "crash" = f THEN used["crash"] + 1 ELSE used["crash"]
      /\ used'["lapse"] = IF "lapse" = f THEN used["lapse"] + 1 ELSE used["lapse"]
      /\ used'["answer"] = IF "answer" = f THEN used["answer"] + 1 ELSE used["answer"]
      /\ used'["complete"] = IF "complete" = f THEN used["complete"] + 1 ELSE used["complete"]
  BY <1>2 DEF AdverseEvents
<1>4. CASE f = "crash"
  BY <1>1, <1>3, <1>4 DEF Losses
<1>5. CASE f = "lapse"
  BY <1>1, <1>3, <1>5 DEF Losses
<1>6. CASE f = "answer"
  BY <1>1, <1>3, <1>6 DEF Losses
<1>7. CASE f = "complete"
  BY <1>1, <1>3, <1>7 DEF Losses
<1>8. CASE f \notin {"crash", "lapse", "answer", "complete"}
  BY <1>1, <1>3, <1>8 DEF Losses
<1> QED
  BY <1>4, <1>5, <1>6, <1>7, <1>8

LEMMA Sum ==
  ASSUME NEW s \in Nat, NEW c \in Nat, NEW p \in Nat, NEW k \in Nat,
         NEW s2 \in Nat, NEW c2 \in Nat, NEW p2 \in Nat, NEW k2 \in Nat,
         NEW x \in Int, NEW y \in Int, NEW z \in Int,
         s2 <= s + x, c2 <= c + y, p2 <= p + z, k2 >= k + x + y + z
  PROVE  (s2 + c2 + p2) + k <= (s + c + p) + k2
  OBVIOUS

\* A step that adds at most x rows, y executions and z messages, and x + y + z to
\* the losses.
LEMMA PotentialSum ==
  ASSUME TypeOK, TypeOK', NEW u \in Tasks, NEW x \in Int, NEW y \in Int, NEW z \in Int,
         Cardinality(Stored(u)') <= Cardinality(Stored(u)) + x,
         Cardinality(Checking(u)') <= Cardinality(Checking(u)) + y,
         Pending(u)' <= Pending(u) + z,
         Losses' >= Losses + x + y + z
  PROVE  Potential(u)' + Losses <= Potential(u) + Losses'
<1>1. Losses \in Nat /\ Losses' \in Nat
  <2>1. /\ used'["crash"] \in Nat /\ used'["lapse"] \in Nat
        /\ used'["answer"] \in Nat /\ used'["complete"] \in Nat
    BY DEF TypeOK, AdverseEvents
  <2> QED
    BY <2>1, LossesType DEF Losses
<1>2. Pending(u) \in Nat /\ Pending(u)' \in Nat
  BY PotentialParts
<1>3. Potential(u) = Cardinality(Stored(u)) + Cardinality(Checking(u)) + Pending(u)
  BY DEF Potential
<1>4. Potential(u)' = Cardinality(Stored(u)') + Cardinality(Checking(u)') + Pending(u)'
  BY DEF Potential
<1> QED
  BY <1>1, <1>2, <1>3, <1>4, PotentialParts, Sum, Zenon

\* A step that adds nothing to the potential of u.
LEMMA PotentialKept ==
  ASSUME TypeOK, TypeOK', NEW u \in Tasks, Losses' >= Losses,
         Stored(u)' \subseteq Stored(u), Checking(u)' \subseteq Checking(u),
         Pending(u)' <= Pending(u)
  PROVE  Potential(u)' + Losses <= Potential(u) + Losses'
<1>1. /\ Cardinality(Stored(u)') <= Cardinality(Stored(u)) + 0
      /\ Cardinality(Checking(u)') <= Cardinality(Checking(u)) + 0
  BY PotentialParts, AttemptSubset
<1>2. Losses' >= Losses + 0 + 0 + 0 /\ Pending(u)' <= Pending(u) + 0
  BY LossesType, PotentialParts
<1> QED
  BY <1>1, <1>2, PotentialSum

\* A loss pays for the message, which may be polled once more.
LEMMA PotentialPaid ==
  ASSUME TypeOK, TypeOK', NEW u \in Tasks, Losses' = Losses + 1,
         Stored(u)' \subseteq Stored(u), Checking(u)' \subseteq Checking(u)
  PROVE  Potential(u)' + Losses <= Potential(u) + Losses'
<1>1. /\ Cardinality(Stored(u)') <= Cardinality(Stored(u)) + 0
      /\ Cardinality(Checking(u)') <= Cardinality(Checking(u)) + 0
  BY PotentialParts, AttemptSubset
<1>2. Losses' >= Losses + 0 + 0 + 1 /\ Pending(u)' <= Pending(u) + 1
  BY LossesType, PotentialParts
<1> QED
  BY <1>1, <1>2, PotentialSum

LEMMA PotentialFrame ==
  ASSUME TypeOK, TypeOK', NEW u \in Tasks, Losses' >= Losses,
         UNCHANGED <<row, stage, attempt_at[u]>>
  PROVE  Potential(u)' + Losses <= Potential(u) + Losses'
<1>1. Stored(u)' = Stored(u) /\ Checking(u)' = Checking(u) /\ Pending(u)' = Pending(u)
  BY DEF Stored, Checking, Pending, Live
<1> QED
  BY <1>1, PotentialKept, PotentialParts

\* A step adds to the potential of a task no more than it adds to the losses.
LEMMA PotentialNext ==
  ASSUME TypeOK, TypeOK', ExecutionInv, [Next]_vars, NEW u \in Tasks
  PROVE  Potential(u)' + Losses <= Potential(u) + Losses'
<1> DEFINE Claim == Potential(u)' + Losses <= Potential(u) + Losses'
<1> SUFFICES Claim
  OBVIOUS
<1>a. used' = used => Losses' >= Losses
  BY LossesType DEF Losses
<1> USE DEF queue, runner, table
<1>1. ASSUME NEW j \in Jobs, (\E n \in PortCounts : InsertJob(j, n)) \/ PostFails(j) \/ Accept(j)
      PROVE  Claim
  BY <1>a, <1>1, PotentialFrame DEF InsertJob, PostFails, Accept
<1>2. ASSUME NEW t \in Tasks, SubmitJob(t) \/ Expire(t)
      PROVE  Claim
  <2>1. UNCHANGED <<row, stage, used>>
    BY <1>2 DEF SubmitJob, Expire
  <2>2. Stored(u)' = Stored(u) /\ Checking(u)' = Checking(u)
    BY <2>1 DEF Stored, Checking
  <2>3. Pending(u)' <= Pending(u)
    <3>1. CASE u = t
      <4>1. Pending(u) = 1
        BY <1>2, <3>1 DEF SubmitJob, Expire, Pending
      <4> QED
        BY <4>1, PotentialParts
    <3>2. CASE u # t
      <4>1. attempt_at'[u] = attempt_at[u]
        BY <1>2, <3>2 DEF SubmitJob, Expire, TypeOK
      <4>2. Pending(u)' = Pending(u)
        BY <2>1, <4>1 DEF Pending, Live
      <4> QED
        BY <4>2, PotentialParts
    <3> QED
      BY <3>1, <3>2
  <2> QED
    BY <1>a, <2>1, <2>2, <2>3, PotentialKept
<1>3. ASSUME NEW t \in Tasks, Lapse(t)
      PROVE  Claim
  <2>1. Losses' = Losses + 1
    BY <1>3, LossesNext DEF Lapse, AdverseEvents
  <2>2. Stored(u)' = Stored(u) /\ Checking(u)' = Checking(u)
    BY <1>3 DEF Lapse, Stored, Checking
  <2> QED
    BY <2>1, <2>2, PotentialPaid
<1>4. ASSUME NEW h \in Hosts, Crash(h)
      PROVE  Claim
  <2>1. Losses' = Losses + 1
    BY <1>4, LossesNext DEF Crash, AdverseEvents
  <2>2. Stored(u)' = Stored(u)
    BY <1>4 DEF Crash, Stored
  <2>3. Checking(u)' \subseteq Checking(u)
    BY <1>4, CrashStage DEF Checking
  <2> QED
    BY <2>1, <2>2, <2>3, PotentialPaid
<1>5. ASSUME NEW h \in Hosts, NEW ts \in SUBSET Tasks, Poll(h, ts)
      PROVE  Claim
  <2>1. Losses' >= Losses /\ Stored(u)' = Stored(u)
    BY <1>5, <1>a DEF Poll, Stored
  <2>2. CASE u \in ts
    <3>1. attempt_at[u] = "due" /\ attempt_at'[u] \in {"later", "null"}
      BY <1>5, <2>2 DEF Poll, AfterPoll
    <3>2. CASE attempts[u] \in Attempts
      <4>1. Checking(u)' \subseteq Checking(u) \union {attempts[u]}
        BY <1>5, PollStage DEF Checking
      <4>2. attempts[u] \in Live(u)'
        BY <1>5, <2>2, <3>2, PollStage DEF Live
      <4>3. Pending(u) = 1 /\ Pending(u)' = 0
        BY <3>1, <4>2 DEF Pending
      <4>4. Cardinality(Checking(u)') <= Cardinality(Checking(u)) + 1
        BY <4>1, PotentialParts, AttemptAdded
      <4>5. /\ Cardinality(Stored(u)') <= Cardinality(Stored(u)) + 0
            /\ Pending(u)' <= Pending(u) + (-1)
            /\ Losses' >= Losses + 0 + 1 + (-1)
        BY <2>1, <4>3, LossesType, PotentialParts
      <4> QED
        BY <4>4, <4>5, PotentialSum
    <3>3. CASE attempts[u] \notin Attempts
      <4>1. Checking(u)' \subseteq Checking(u)
        BY <1>5, <3>3, PollStage DEF Checking
      <4>2. Pending(u)' <= Pending(u)
        BY <3>1, PotentialParts DEF Pending
      <4> QED
        BY <2>1, <4>1, <4>2, PotentialKept
    <3> QED
      BY <3>2, <3>3
  <2>3. CASE u \notin ts
    <3>1. attempt_at'[u] = attempt_at[u]
      BY <1>5, <2>3 DEF Poll
    <3>2. Checking(u)' = Checking(u) /\ Live(u)' = Live(u)
      BY <1>5, <2>3, PollStage DEF Checking, Live
    <3>3. Pending(u)' = Pending(u)
      BY <3>1, <3>2 DEF Pending
    <3> QED
      BY <2>1, <3>2, <3>3, PotentialKept, PotentialParts
  <2> QED
    BY <2>2, <2>3
<1>6. ASSUME NEW t \in Tasks, NEW a \in Attempts, NextPort(t, a)
      PROVE  Claim
  BY <1>a, <1>6, PotentialFrame DEF NextPort
<1>7. ASSUME NEW t \in Tasks, NEW a \in Attempts, Insert(t, a)
      PROVE  Claim
  <2>1. Losses' >= Losses /\ attempt_at' = attempt_at /\ stage[t][a] = "checking"
    BY <1>7, <1>a DEF Insert
  <2>2. Live(u)' = Live(u)
    BY <1>7, <2>1, InsertRow DEF Live
  <2>3. Pending(u)' = Pending(u)
    BY <2>1, <2>2 DEF Pending
  <2>4. CASE u = t
    <3>1. Stored(u)' \subseteq Stored(u) \union {a}
      BY <1>7, <2>4, InsertRow DEF Stored
    <3>2. a \in Checking(u) /\ Checking(u)' \subseteq Checking(u) \ {a}
      BY <1>7, <2>1, <2>4, InsertRow DEF Checking
    <3>3. Cardinality(Stored(u)') <= Cardinality(Stored(u)) + 1
      BY <3>1, PotentialParts, AttemptAdded
    <3>4. Cardinality(Checking(u)') <= Cardinality(Checking(u)) + (-1)
      BY <3>2, PotentialParts, AttemptRemoved
    <3>5. Losses' >= Losses + 1 + (-1) + 0 /\ Pending(u)' <= Pending(u) + 0
      BY <2>1, <2>3, LossesType, PotentialParts
    <3> QED
      BY <3>3, <3>4, <3>5, PotentialSum
  <2>5. CASE u # t
    <3>1. Stored(u)' = Stored(u) /\ Checking(u)' = Checking(u)
      BY <1>7, <2>5, InsertRow DEF Stored, Checking
    <3> QED
      BY <2>1, <2>3, <3>1, PotentialKept, PotentialParts
  <2> QED
    BY <2>4, <2>5
<1>8. ASSUME NEW t \in Tasks, NEW a \in Attempts, CommitInsert(t, a)
      PROVE  Claim
  <2>1. Losses' >= Losses /\ attempt_at' = attempt_at
    BY <1>8, <1>a DEF CommitInsert
  <2>2. Live(u)' = Live(u) /\ Stored(u)' = Stored(u) /\ Checking(u)' = Checking(u)
    BY <1>8, CommitRow DEF Live, Stored, Checking
  <2>3. Pending(u)' = Pending(u)
    BY <2>1, <2>2 DEF Pending
  <2> QED
    BY <2>1, <2>2, <2>3, PotentialKept, PotentialParts
<1>9. ASSUME NEW t \in Tasks, NEW a \in Attempts, InsertFails(t, a)
      PROVE  Claim
  <2>1. stage[t][a] = "checking" /\ End(t, a) /\ UNCHANGED <<row, attempt_at>>
    BY <1>9 DEF InsertFails
  <2>2. Losses' >= Losses
    BY <1>9, <1>a, LossesNext DEF InsertFails, AdverseEvents
  <2>3. Stored(u)' = Stored(u)
    BY <2>1 DEF Stored
  <2>4. CASE u = t
    <3>1. a \in Checking(u) /\ Checking(u)' \subseteq Checking(u) \ {a}
      BY <2>1, <2>4, EndStage DEF Checking
    <3>2. Cardinality(Checking(u)') <= Cardinality(Checking(u)) + (-1)
      BY <3>1, PotentialParts, AttemptRemoved
    <3>3. /\ Cardinality(Stored(u)') <= Cardinality(Stored(u)) + 0
          /\ Pending(u)' <= Pending(u) + 1
          /\ Losses' >= Losses + 0 + (-1) + 1
      BY <2>2, <2>3, LossesType, PotentialParts
    <3> QED
      BY <3>2, <3>3, PotentialSum
  <2>5. CASE u # t
    <3>1. Checking(u)' = Checking(u) /\ Live(u)' = Live(u)
      BY <2>1, <2>5, EndStage DEF Checking, Live
    <3>2. Pending(u)' = Pending(u)
      BY <2>1, <3>1 DEF Pending
    <3> QED
      BY <2>2, <2>3, <3>1, <3>2, PotentialKept, PotentialParts
  <2> QED
    BY <2>4, <2>5
<1>10. ASSUME NEW t \in Tasks, NEW a \in Attempts, Complete(t, a)
       PROVE  Claim
  <2>1. /\ End(t, a) /\ row' = row /\ Losses' >= Losses
        /\ attempt_at' = [attempt_at EXCEPT ![t] = "deleted"]
    BY <1>10, <1>a DEF Complete
  <2>2. Stored(u)' = Stored(u)
    BY <2>1 DEF Stored
  <2>3. Checking(u)' \subseteq Checking(u)
    BY <2>1, EndStage DEF Checking
  <2>4. CASE u = t
    <3>1. attempt_at'[u] = "deleted"
      BY <2>1, <2>4 DEF TypeOK
    <3>2. Pending(u)' = 0
      BY <3>1 DEF Pending
    <3> QED
      BY <2>1, <2>2, <2>3, <3>2, PotentialKept, PotentialParts
  <2>5. CASE u # t
    <3>1. attempt_at'[u] = attempt_at[u]
      BY <2>1, <2>5 DEF TypeOK
    <3>2. Live(u)' = Live(u)
      BY <2>1, <2>5, EndStage DEF Live
    <3>3. Pending(u)' = Pending(u)
      BY <3>1, <3>2 DEF Pending
    <3> QED
      BY <2>1, <2>2, <2>3, <3>3, PotentialKept, PotentialParts
  <2> QED
    BY <2>4, <2>5
<1>11. ASSUME NEW t \in Tasks, NEW a \in Attempts, InsertAnswerLost(t, a) \/ CompleteFails(t, a)
       PROVE  Claim
  <2>1. Losses' = Losses + 1
    BY <1>11, LossesNext DEF InsertAnswerLost, CompleteFails, AdverseEvents
  <2>2. Stored(u)' = Stored(u)
    BY <1>11 DEF InsertAnswerLost, CompleteFails, Stored
  <2>3. Checking(u)' \subseteq Checking(u)
    BY <1>11, EndStage DEF InsertAnswerLost, CompleteFails, Checking
  <2> QED
    BY <2>1, <2>2, <2>3, PotentialPaid
<1>12. ASSUME NEW j \in Jobs, SelectTotal(j) \/ SelectCount(j) \/ SelectPage(j)
       PROVE  Claim
  BY <1>a, <1>12, PotentialFrame DEF SelectTotal, SelectCount, SelectPage
<1>13. CASE SelectOld \/ DeleteJobs \/ PruneFails
  BY <1>a, <1>13, PotentialFrame DEF SelectOld, DeleteJobs, PruneFails
<1>14. CASE DeleteResults
  <2>1. Losses' >= Losses /\ UNCHANGED <<attempt_at, stage>>
    BY <1>14, <1>a DEF DeleteResults
  <2>2. Stored(u)' = Stored(u)
    BY <1>14, DeleteRow DEF Stored
  <2>3. Checking(u)' = Checking(u) /\ Pending(u)' = Pending(u)
    BY <2>1 DEF Checking, Pending, Live
  <2> QED
    BY <2>1, <2>2, <2>3, PotentialKept, PotentialParts
<1>15. CASE UNCHANGED vars
  BY <1>a, <1>15, PotentialFrame DEF vars
<1> HIDE DEF Claim, queue, runner, table
<1> QED
  BY <1>1, <1>2, <1>3, <1>4, <1>5, <1>6, <1>7, <1>8, <1>9, <1>10, <1>11, <1>12,
     <1>13, <1>14, <1>15 DEF Next, Check, Settle

LEMMA RowsNext ==
  ASSUME TypeOK, TypeOK', ExecutionInv, RowsInv, [Next]_vars
  PROVE  RowsInv'
<1> SUFFICES ASSUME NEW u \in Tasks
             PROVE  Potential(u)' <= 1 + Losses'
  BY DEF RowsInv
<1>1. Potential(u)' + Losses <= Potential(u) + Losses'
  BY PotentialNext
<1>2. Potential(u) <= 1 + Losses
  BY DEF RowsInv
<1>3. Potential(u) \in Nat /\ Potential(u)' \in Nat
  BY PotentialParts DEF Potential
<1>4. Losses \in Nat /\ Losses' \in Nat
  <2>1. /\ used'["crash"] \in Nat /\ used'["lapse"] \in Nat
        /\ used'["answer"] \in Nat /\ used'["complete"] \in Nat
    BY DEF TypeOK, AdverseEvents
  <2> QED
    BY <2>1, LossesType DEF Losses
<1> QED
  BY <1>1, <1>2, <1>3, <1>4

-----------------------------------------------------------------------------
(* Attempts and the faults that used them up: SpentInv.                    *)

\* What SpentInv says of one task.
Unstored(t) == Stored(t) = {} /\ ports[JobOf[t]] > 0 /\ JobOf[t] \in jobs
SpentOK(t) == Unstored(t) => MaxAttempts <= attempts[t] + Failures + GoesOn(t)

LEMMA FailuresType ==
  ASSUME TypeOK
  PROVE  Failures \in Nat
<1>1. used["crash"] \in Nat /\ used["lapse"] \in Nat /\ used["insert"] \in Nat
  BY DEF TypeOK, AdverseEvents
<1> QED
  BY <1>1 DEF Failures

LEMMA FailuresNext ==
  ASSUME TypeOK, NEW f \in AdverseEvents, Happens(f)
  PROVE  /\ Failures' >= Failures
         /\ f \in {"crash", "lapse", "insert"} => Failures' = Failures + 1
<1>1. used["crash"] \in Nat /\ used["lapse"] \in Nat /\ used["insert"] \in Nat
  BY DEF TypeOK, AdverseEvents
<1>2. \A g \in AdverseEvents : used'[g] = IF g = f THEN used[g] + 1 ELSE used[g]
  BY DEF TypeOK, Happens
<1>3. /\ used'["crash"] = IF "crash" = f THEN used["crash"] + 1 ELSE used["crash"]
      /\ used'["lapse"] = IF "lapse" = f THEN used["lapse"] + 1 ELSE used["lapse"]
      /\ used'["insert"] = IF "insert" = f THEN used["insert"] + 1 ELSE used["insert"]
  BY <1>2 DEF AdverseEvents
<1>4. CASE f = "crash"
  BY <1>1, <1>3, <1>4 DEF Failures
<1>5. CASE f = "lapse"
  BY <1>1, <1>3, <1>5 DEF Failures
<1>6. CASE f = "insert"
  BY <1>1, <1>3, <1>6 DEF Failures
<1>7. CASE f \notin {"crash", "lapse", "insert"}
  BY <1>1, <1>3, <1>7 DEF Failures
<1> QED
  BY <1>4, <1>5, <1>6, <1>7

LEMMA SpentParts ==
  ASSUME TypeOK, TypeOK', NEW u \in Tasks
  PROVE  /\ attempts[u] \in Nat /\ attempts'[u] \in Nat
         /\ Failures \in Nat /\ Failures' \in Nat
         /\ GoesOn(u) \in {0, 1} /\ GoesOn(u)' \in {0, 1}
<1>1. attempts[u] \in Nat /\ attempts'[u] \in Nat
  BY DEF TypeOK
<1>2. Failures' \in Nat
  <2>1. used'["crash"] \in Nat /\ used'["lapse"] \in Nat /\ used'["insert"] \in Nat
    BY DEF TypeOK, AdverseEvents
  <2> QED
    BY <2>1 DEF Failures
<1> QED
  BY <1>1, <1>2, FailuresType DEF GoesOn

\* What a step takes from the attempts or ends, it adds to the failures.
LEMMA SpentSum ==
  ASSUME TypeOK, TypeOK', NEW u \in Tasks, SpentOK(u), Unstored(u)' => Unstored(u),
         \/ /\ attempts'[u] = attempts[u] /\ Failures' = Failures + 1
         \/ attempts'[u] = attempts[u] /\ Failures' >= Failures /\ GoesOn(u)' >= GoesOn(u)
         \/ /\ attempts'[u] = attempts[u] - 1 /\ Failures' >= Failures
            /\ GoesOn(u) = 0 /\ GoesOn(u)' = 1
  PROVE  SpentOK(u)'
<1> SUFFICES ASSUME Unstored(u)'
             PROVE  MaxAttempts <= attempts'[u] + Failures' + GoesOn(u)'
  BY DEF SpentOK
<1>1. MaxAttempts <= attempts[u] + Failures + GoesOn(u)
  BY DEF SpentOK
<1>2. MaxAttempts \in Nat
  OBVIOUS
<1> QED
  BY <1>1, <1>2, SpentParts

LEMMA SpentFrame ==
  ASSUME TypeOK, TypeOK', NEW u \in Tasks, SpentOK(u), Failures' >= Failures,
         UNCHANGED <<row, ports, attempts[u], attempt_at[u]>>, jobs' \subseteq jobs,
         Live(u)' = Live(u)
  PROVE  SpentOK(u)'
<1>1. Unstored(u)' => Unstored(u)
  BY DEF Unstored, Stored
<1>2. GoesOn(u)' = GoesOn(u)
  BY DEF GoesOn
<1> QED
  BY <1>1, <1>2, SpentSum, SpentParts

\* No attempt of a message that does not exist yet is used up.
LEMMA SpentUnused ==
  ASSUME TypeOK, TypeOK', NEW u \in Tasks, attempts'[u] = MaxAttempts
  PROVE  SpentOK(u)'
  BY SpentParts DEF SpentOK

LEMMA SpentTask ==
  ASSUME TypeOK, TypeOK', MessageInv, ExecutionInv, [Next]_vars, NEW u \in Tasks, SpentOK(u)
  PROVE  SpentOK(u)'
<1> USE DEF queue, runner, table
<1>a. used' = used => Failures' >= Failures
  BY FailuresType DEF Failures
<1>b. stage' = stage => Live(u)' = Live(u)
  BY DEF Live
<1>c. attempt_at[u] = "absent" => attempts[u] = MaxAttempts
  BY DEF MessageInv
<1>1. ASSUME NEW j \in Jobs, NEW n \in PortCounts, InsertJob(j, n)
      PROVE  SpentOK(u)'
  <2>1. post[j] = "new" /\ UNCHANGED <<queue, runner, table, used>>
    BY <1>1 DEF InsertJob
  <2>2. CASE JobOf[u] = j
    <3>1. attempt_at[u] = "absent"
      BY <2>1, <2>2 DEF MessageInv
    <3> QED
      BY <1>c, <2>1, <3>1, SpentUnused
  <2>3. CASE JobOf[u] # j
    <3>1. Unstored(u)' => Unstored(u)
      BY <1>1, <2>3 DEF InsertJob, Unstored, Stored, TypeOK
    <3>2. GoesOn(u)' = GoesOn(u)
      BY <2>1 DEF GoesOn, Live
    <3> QED
      BY <1>a, <2>1, <3>1, <3>2, SpentSum, SpentParts
  <2> QED
    BY <2>2, <2>3
<1>2. ASSUME NEW j \in Jobs, PostFails(j) \/ Accept(j)
      PROVE  SpentOK(u)'
  BY <1>a, <1>b, <1>2, SpentFrame DEF PostFails, Accept
<1>3. ASSUME NEW t \in Tasks, SubmitJob(t)
      PROVE  SpentOK(u)'
  <2>1. CASE u = t
    BY <1>c, <1>3, <2>1, SpentUnused DEF SubmitJob
  <2>2. CASE u # t
    BY <1>a, <1>b, <1>3, <2>2, SpentFrame DEF SubmitJob, TypeOK
  <2> QED
    BY <2>1, <2>2
<1>4. ASSUME NEW t \in Tasks, Expire(t)
      PROVE  SpentOK(u)'
  <2>1. CASE u = t
    <3>1. UNCHANGED <<attempts, row, ports, jobs, used>> /\ GoesOn(u) = 0
      BY <1>4, <2>1 DEF Expire, GoesOn
    <3>2. Unstored(u)' => Unstored(u)
      BY <3>1 DEF Unstored, Stored
    <3> QED
      BY <1>a, <3>1, <3>2, SpentSum, SpentParts
  <2>2. CASE u # t
    BY <1>a, <1>b, <1>4, <2>2, SpentFrame DEF Expire, TypeOK
  <2> QED
    BY <2>1, <2>2
<1>5. ASSUME NEW t \in Tasks, Lapse(t)
      PROVE  SpentOK(u)'
  <2>1. Failures' = Failures + 1
    BY <1>5, FailuresNext DEF Lapse, AdverseEvents
  <2>2. attempts' = attempts /\ (Unstored(u)' => Unstored(u))
    BY <1>5 DEF Lapse, Unstored, Stored
  <2> QED
    BY <2>1, <2>2, SpentSum
<1>6. ASSUME NEW h \in Hosts, Crash(h)
      PROVE  SpentOK(u)'
  <2>1. Failures' = Failures + 1
    BY <1>6, FailuresNext DEF Crash, AdverseEvents
  <2>2. attempts' = attempts /\ (Unstored(u)' => Unstored(u))
    BY <1>6 DEF Crash, Unstored, Stored
  <2> QED
    BY <2>1, <2>2, SpentSum
<1>7. ASSUME NEW h \in Hosts, NEW ts \in SUBSET Tasks, Poll(h, ts)
      PROVE  SpentOK(u)'
  <2>1. UNCHANGED <<row, ports, jobs, used>>
    BY <1>7 DEF Poll
  <2>2. CASE u \in ts
    <3>1. /\ attempt_at[u] = "due" /\ attempt_at'[u] \in {"later", "null"}
          /\ attempts'[u] = attempts[u] - 1
      BY <1>7, <2>2 DEF Poll, AfterPoll
    <3>2. attempts[u] \in Attempts
      BY <3>1 DEF MessageInv, TypeOK, Attempts
    <3>3. attempts[u] \in Live(u)'
      BY <1>7, <2>2, <3>2, PollStage DEF Live
    <3>4. GoesOn(u) = 0 /\ GoesOn(u)' = 1
      BY <3>1, <3>3 DEF GoesOn
    <3>5. Unstored(u)' => Unstored(u)
      BY <2>1 DEF Unstored, Stored
    <3> QED
      BY <1>a, <2>1, <3>1, <3>4, <3>5, SpentSum
  <2>3. CASE u \notin ts
    <3>1. attempt_at'[u] = attempt_at[u] /\ attempts'[u] = attempts[u]
      BY <1>7, <2>3 DEF Poll
    <3>2. Live(u)' = Live(u)
      BY <1>7, <2>3, PollStage DEF Live
    <3> QED
      BY <1>a, <2>1, <3>1, <3>2, SpentFrame
  <2> QED
    BY <2>2, <2>3
<1>8. ASSUME NEW t \in Tasks, NEW a \in Attempts, NextPort(t, a)
      PROVE  SpentOK(u)'
  BY <1>a, <1>b, <1>8, SpentFrame DEF NextPort
<1>9. ASSUME NEW t \in Tasks, NEW a \in Attempts, Insert(t, a)
      PROVE  SpentOK(u)'
  <2>1. CASE u = t
    <3>1. a \in Stored(u)'
      BY <1>9, <2>1, InsertRow DEF Stored
    <3> QED
      BY <3>1 DEF SpentOK, Unstored
  <2>2. CASE u # t
    <3>1. Stored(u)' = Stored(u) /\ Live(u)' = Live(u)
      BY <1>9, <2>2, InsertRow DEF Stored, Live
    <3>2. UNCHANGED <<ports, jobs, queue, used>>
      BY <1>9 DEF Insert
    <3>3. GoesOn(u)' = GoesOn(u) /\ (Unstored(u)' => Unstored(u))
      BY <3>1, <3>2 DEF GoesOn, Unstored
    <3> QED
      BY <1>a, <3>2, <3>3, SpentSum, SpentParts
  <2> QED
    BY <2>1, <2>2
<1>10. ASSUME NEW t \in Tasks, NEW a \in Attempts, CommitInsert(t, a)
       PROVE  SpentOK(u)'
  <2>1. Stored(u)' = Stored(u) /\ Live(u)' = Live(u)
    BY <1>10, CommitRow DEF Stored, Live
  <2>2. UNCHANGED <<ports, jobs, queue, used>>
    BY <1>10 DEF CommitInsert
  <2>3. GoesOn(u)' = GoesOn(u) /\ (Unstored(u)' => Unstored(u))
    BY <2>1, <2>2 DEF GoesOn, Unstored
  <2> QED
    BY <1>a, <2>2, <2>3, SpentSum, SpentParts
<1>11. ASSUME NEW t \in Tasks, NEW a \in Attempts, InsertFails(t, a)
       PROVE  SpentOK(u)'
  <2>1. End(t, a) /\ UNCHANGED <<row, ports, jobs, queue>>
    BY <1>11 DEF InsertFails
  <2>2. Unstored(u)' => Unstored(u)
    BY <2>1 DEF Unstored, Stored
  <2>3. CASE u = t
    <3>1. CASE JobOf[t] \in jobs
      <4>1. Failures' = Failures + 1
        BY <1>11, <3>1, FailuresNext DEF InsertFails, AdverseEvents
      <4> QED
        BY <2>1, <2>2, <4>1, SpentSum
    <3>2. CASE JobOf[t] \notin jobs
      BY <2>1, <2>3, <3>2 DEF SpentOK, Unstored
    <3> QED
      BY <3>1, <3>2
  <2>4. CASE u # t
    <3>1. Failures' >= Failures
      BY <1>11, <1>a, FailuresNext DEF InsertFails, AdverseEvents
    <3>2. Live(u)' = Live(u)
      BY <2>1, <2>4, EndStage DEF Live
    <3> QED
      BY <2>1, <3>1, <3>2, SpentFrame
  <2> QED
    BY <2>3, <2>4
<1>12. ASSUME NEW t \in Tasks, NEW a \in Attempts,
              InsertAnswerLost(t, a) \/ Complete(t, a) \/ CompleteFails(t, a)
       PROVE  SpentOK(u)'
  <2>1. /\ stage[t][a] = "inserting" \/ Finished(t, a)
        /\ End(t, a) /\ UNCHANGED <<row, ports, jobs, attempts>>
    BY <1>12 DEF InsertAnswerLost, Complete, CompleteFails
  <2>2. CASE u = t
    <3>1. row[t][a] # "none" \/ ports[JobOf[t]] = 0
      BY <2>1 DEF Finished, ExecutionInv
    <3>2. ~ Unstored(u)'
      BY <2>1, <2>2, <3>1 DEF Unstored, Stored
    <3> QED
      BY <3>2 DEF SpentOK
  <2>3. CASE u # t
    <3>1. attempt_at'[u] = attempt_at[u]
      BY <1>12, <2>3 DEF InsertAnswerLost, Complete, CompleteFails, TypeOK
    <3>2. Live(u)' = Live(u)
      BY <2>1, <2>3, EndStage DEF Live
    <3>3. Failures' >= Failures
      BY <1>12, <1>a, FailuresNext DEF InsertAnswerLost, Complete, CompleteFails, AdverseEvents
    <3> QED
      BY <2>1, <3>1, <3>2, <3>3, SpentFrame
  <2> QED
    BY <2>2, <2>3
<1>13. ASSUME NEW j \in Jobs, SelectTotal(j) \/ SelectCount(j) \/ SelectPage(j)
       PROVE  SpentOK(u)'
  BY <1>a, <1>b, <1>13, SpentFrame DEF SelectTotal, SelectCount, SelectPage
<1>14. CASE SelectOld \/ DeleteJobs \/ PruneFails
  BY <1>a, <1>b, <1>14, SpentFrame DEF SelectOld, DeleteJobs, PruneFails
<1>15. CASE DeleteResults
  <2>1. Stored(u)' = Stored(u) /\ UNCHANGED <<ports, jobs, queue, stage, used>>
    BY <1>15, DeleteRow DEF Stored, DeleteResults
  <2>2. GoesOn(u)' = GoesOn(u) /\ (Unstored(u)' => Unstored(u))
    BY <2>1 DEF GoesOn, Live, Unstored
  <2> QED
    BY <1>a, <2>1, <2>2, SpentSum, SpentParts
<1>16. CASE UNCHANGED vars
  BY <1>a, <1>b, <1>16, SpentFrame DEF vars
<1> HIDE DEF queue, runner, table
<1> QED
  BY <1>1, <1>2, <1>3, <1>4, <1>5, <1>6, <1>7, <1>8, <1>9, <1>10, <1>11, <1>12,
     <1>13, <1>14, <1>15, <1>16 DEF Next, Check, Settle

-----------------------------------------------------------------------------
(* The theorems.                                                           *)

\* The part of the inductive invariant that is about the queue.
QueueInv == TypeOK /\ MessageInv /\ ExecutionInv /\ RowsInv /\ SpentInv

LEMMA QueueInit == Init => QueueInv
<1> SUFFICES ASSUME Init
             PROVE  QueueInv
  OBVIOUS
<1>1. TypeOK
  BY TypeInit
<1>2. ASSUME NEW t \in Tasks
      PROVE  /\ Live(t) = {} /\ Stored(t) = {} /\ Checking(t) = {}
             /\ attempt_at[t] = "absent" /\ attempts[t] = MaxAttempts
  BY DEF Init, Live, Stored, Checking
<1>3. MessageInv
  BY <1>2 DEF Init, MessageInv
<1>4. ExecutionInv
  BY DEF Init, ExecutionInv
<1>5. RowsInv
  <2> SUFFICES ASSUME NEW t \in Tasks
               PROVE  Potential(t) <= 1 + Losses
    BY DEF RowsInv
  <2>1. Cardinality(Stored(t)) = 0 /\ Cardinality(Checking(t)) = 0 /\ Pending(t) = 1
    BY <1>2, FS_EmptySet DEF Pending
  <2>2. Potential(t) = 1
    BY <2>1 DEF Potential
  <2> QED
    BY <1>1, <2>2, LossesType
<1>6. SpentInv
  BY <1>1, <1>2, FailuresType DEF SpentInv, GoesOn
<1> QED
  BY <1>1, <1>3, <1>4, <1>5, <1>6 DEF QueueInv

LEMMA QueueNext == QueueInv /\ [Next]_vars => QueueInv'
<1> SUFFICES ASSUME QueueInv, [Next]_vars
             PROVE  QueueInv'
  OBVIOUS
<1>1. TypeOK /\ MessageInv /\ ExecutionInv /\ RowsInv /\ SpentInv
  BY DEF QueueInv
<1>2. TypeOK'
  BY <1>1, TypeNext
<1>3. MessageInv' /\ ExecutionInv'
  BY <1>1, MessageNext, ExecutionNext
<1>4. RowsInv'
  BY <1>1, <1>2, RowsNext
<1>5. SpentInv'
  <2>1. \A t \in Tasks : SpentOK(t)
    BY <1>1 DEF SpentInv, SpentOK, Unstored
  <2>2. \A t \in Tasks : SpentOK(t)'
    BY <1>1, <1>2, <2>1, SpentTask
  <2> QED
    BY <2>2 DEF SpentInv, SpentOK, Unstored
<1> QED
  BY <1>2, <1>3, <1>4, <1>5 DEF QueueInv

\* The queue of sqlxmq and the task keep the inductive invariant.
THEOREM QueueInvariant == Spec => []QueueInv
  BY QueueInit, QueueNext, PTL DEF Spec

\* Every variable keeps its type: posts, messages, executions, rows, clients and
\* prune_db.
THEOREM TypeCorrect == Spec => []TypeOK
<1>1. QueueInv => TypeOK
  BY DEF QueueInv
<1> QED
  BY <1>1, QueueInvariant, PTL

\* However many backends poll, an email has at most one row more than there were
\* crashes, lapsed leases, failed complete()s and INSERTs whose answer was lost: an
\* INSERT that stores nothing is never the cause of a second row.
THEOREM DuplicatesArePaidFor == Spec => []RowsBound
<1>1. QueueInv => RowsBound
  <2> SUFFICES ASSUME QueueInv, NEW t \in Tasks
               PROVE  Cardinality(Stored(t)) <=
                        1 + used["crash"] + used["lapse"] + used["answer"] + used["complete"]
    BY DEF RowsBound
  <2>1. Potential(t) <= 1 + Losses
    BY DEF QueueInv, RowsInv
  <2>2. Cardinality(Stored(t)) <= Potential(t)
    BY PotentialParts DEF Potential
  <2>3. /\ used["crash"] \in Nat /\ used["lapse"] \in Nat
        /\ used["answer"] \in Nat /\ used["complete"] \in Nat
    BY DEF QueueInv, TypeOK, AdverseEvents
  <2>4. Potential(t) \in Nat /\ Cardinality(Stored(t)) \in Nat
    BY PotentialParts DEF Potential
  <2> QED
    BY <2>1, <2>2, <2>3, <2>4 DEF Losses
<1> QED
  BY <1>1, QueueInvariant, PTL

\* Whatever the interleaving, the queue gives an email of a stored job up only
\* after as many crashes, lapses and failed INSERTs as a message has attempts.
THEOREM GivenUpIsExhausted == Spec => []LostIsExhausted
<1>1. QueueInv => LostIsExhausted
  <2> SUFFICES ASSUME QueueInv, NEW t \in Tasks, Lost(t), ports[JobOf[t]] > 0, JobOf[t] \in jobs
               PROVE  MaxAttempts <= used["crash"] + used["lapse"] + used["insert"]
    BY DEF LostIsExhausted
  <2>1. MaxAttempts <= attempts[t] + Failures + GoesOn(t)
    BY DEF QueueInv, SpentInv, Lost
  <2>2. GoesOn(t) = 0
    BY DEF GoesOn, Lost
  <2>3. attempts[t] = 0
    BY DEF QueueInv, MessageInv, Lost
  <2>4. used["crash"] \in Nat /\ used["lapse"] \in Nat /\ used["insert"] \in Nat
    BY DEF QueueInv, TypeOK, AdverseEvents
  <2> QED
    BY <2>1, <2>2, <2>3, <2>4 DEF Failures
<1> QED
  BY <1>1, QueueInvariant, PTL

-----------------------------------------------------------------------------
(* The contract of a bulk verification: every step submits or finishes one *)
(* task, loses some, or leaves the states of all tasks alone.              *)

StateOf(t) == TaskState[t]

\* Nothing of the message of t is left: the abstract state of a task without a row.
Over(t) == Live(t) = {} /\ attempt_at[t] \in {"null", "deleted"}

LEMMA StateCases ==
  ASSUME NEW t \in Tasks
  PROVE  StateOf(t) = IF attempt_at[t] = "absent" THEN "absent"
                      ELSE IF Stored(t) # {} THEN "done"
                      ELSE IF Over(t) THEN "lost" ELSE "pending"
  BY DEF StateOf, TaskState, Lost, Over

\* What a step that neither submits nor stores t may do to its state.
Settles(t) ==
  \/ StateOf(t)' = StateOf(t)
  \/ StateOf(t) = "pending" /\ StateOf(t)' = "lost"

LEMMA SettlesIf ==
  ASSUME NEW t \in Tasks, Stored(t)' = Stored(t),
         attempt_at'[t] = "absent" <=> attempt_at[t] = "absent",
         Over(t) => Over(t)'
  PROVE  Settles(t)
<1>1. StateOf(t)' = IF attempt_at'[t] = "absent" THEN "absent"
                    ELSE IF Stored(t)' # {} THEN "done"
                    ELSE IF Over(t)' THEN "lost" ELSE "pending"
  BY DEF StateOf, TaskState, Lost, Over
<1> QED
  BY <1>1, StateCases DEF Settles

LEMMA SettlesFrame ==
  ASSUME NEW t \in Tasks, UNCHANGED <<row, stage, attempt_at[t]>>
  PROVE  Settles(t)
  BY SettlesIf DEF Stored, Over, Live

\* The step that inserts a row of t.
Stores(t) == \E a \in Attempts : Insert(t, a)

LEMMA StateNext ==
  ASSUME TypeOK, MessageInv, [Next]_vars, NEW u \in Tasks, ~ SubmitJob(u), ~ Stores(u)
  PROVE  Settles(u)
<1> USE DEF queue, runner, table
<1>1. ASSUME NEW j \in Jobs, (\E n \in PortCounts : InsertJob(j, n)) \/ PostFails(j) \/ Accept(j)
      PROVE  Settles(u)
  BY <1>1, SettlesFrame DEF InsertJob, PostFails, Accept
<1>2. ASSUME NEW t \in Tasks, SubmitJob(t)
      PROVE  Settles(u)
  BY <1>2, SettlesFrame DEF SubmitJob, TypeOK
<1>3. ASSUME NEW t \in Tasks, Expire(t) \/ Lapse(t)
      PROVE  Settles(u)
  <2>1. /\ UNCHANGED <<row, stage>> /\ attempt_at[t] = "later"
        /\ attempt_at' = [attempt_at EXCEPT ![t] = "due"]
    BY <1>3 DEF Expire, Lapse
  <2>2. Stored(u)' = Stored(u) /\ Live(u)' = Live(u)
    BY <2>1 DEF Stored, Live
  <2> QED
    BY <2>1, <2>2, SettlesIf DEF Over, TypeOK
<1>4. ASSUME NEW h \in Hosts, Crash(h)
      PROVE  Settles(u)
  <2>1. UNCHANGED <<row, attempt_at>>
    BY <1>4 DEF Crash
  <2>2. Live(u)' \subseteq Live(u)
    BY <1>4, CrashStage DEF Live
  <2> QED
    BY <2>1, <2>2, SettlesIf DEF Stored, Over
<1>5. ASSUME NEW h \in Hosts, NEW ts \in SUBSET Tasks, Poll(h, ts)
      PROVE  Settles(u)
  <2>1. row' = row
    BY <1>5 DEF Poll
  <2>2. CASE u \in ts
    <3>1. attempt_at[u] = "due" /\ attempt_at'[u] \in {"later", "null"}
      BY <1>5, <2>2 DEF Poll, AfterPoll
    <3> QED
      BY <2>1, <3>1, SettlesIf DEF Stored, Over
  <2>3. CASE u \notin ts
    <3>1. attempt_at'[u] = attempt_at[u] /\ stage'[u] = stage[u]
      BY <1>5, <2>3 DEF Poll
    <3> QED
      BY <2>1, <3>1, SettlesIf DEF Stored, Over, Live
  <2> QED
    BY <2>2, <2>3
<1>6. ASSUME NEW t \in Tasks, NEW a \in Attempts, NextPort(t, a)
      PROVE  Settles(u)
  BY <1>6, SettlesFrame DEF NextPort
<1>7. ASSUME NEW t \in Tasks, NEW a \in Attempts, Insert(t, a)
      PROVE  Settles(u)
  <2>1. u # t /\ attempt_at' = attempt_at
    BY <1>7 DEF Insert, Stores
  <2>2. Stored(u)' = Stored(u) /\ Live(u)' = Live(u)
    BY <1>7, <2>1, InsertRow DEF Stored, Live
  <2> QED
    BY <2>1, <2>2, SettlesIf DEF Over
<1>8. ASSUME NEW t \in Tasks, NEW a \in Attempts, CommitInsert(t, a)
      PROVE  Settles(u)
  <2>1. attempt_at' = attempt_at
    BY <1>8 DEF CommitInsert
  <2>2. Stored(u)' = Stored(u) /\ Live(u)' = Live(u)
    BY <1>8, CommitRow DEF Stored, Live
  <2> QED
    BY <2>1, <2>2, SettlesIf DEF Over
<1>9. ASSUME NEW t \in Tasks, NEW a \in Attempts,
             \/ InsertFails(t, a) \/ InsertAnswerLost(t, a)
             \/ Complete(t, a) \/ CompleteFails(t, a)
      PROVE  Settles(u)
  <2>1. End(t, a) /\ row' = row /\ stage[t][a] # "none"
    BY <1>9 DEF InsertFails, InsertAnswerLost, Complete, CompleteFails, Finished
  <2>2. Live(u)' \subseteq Live(u)
    BY <2>1, EndStage DEF Live
  <2>3. attempt_at[t] # "absent"
    BY <2>1 DEF MessageInv, Live
  <2>4. attempt_at'[u] \in {attempt_at[u], "deleted"} /\ (u # t => attempt_at'[u] = attempt_at[u])
    BY <1>9 DEF InsertFails, InsertAnswerLost, Complete, CompleteFails, TypeOK
  <2> QED
    BY <2>1, <2>2, <2>3, <2>4, SettlesIf DEF Stored, Over
<1>10. ASSUME NEW j \in Jobs, SelectTotal(j) \/ SelectCount(j) \/ SelectPage(j)
       PROVE  Settles(u)
  BY <1>10, SettlesFrame DEF SelectTotal, SelectCount, SelectPage
<1>11. CASE SelectOld \/ DeleteJobs \/ PruneFails
  BY <1>11, SettlesFrame DEF SelectOld, DeleteJobs, PruneFails
<1>12. CASE DeleteResults
  <2>1. Stored(u)' = Stored(u) /\ UNCHANGED <<attempt_at, stage>>
    BY <1>12, DeleteRow DEF Stored, DeleteResults
  <2> QED
    BY <2>1, SettlesIf DEF Over, Live
<1>13. CASE UNCHANGED vars
  BY <1>13, SettlesFrame DEF vars
<1> HIDE DEF queue, runner, table
<1> QED
  BY <1>1, <1>2, <1>3, <1>4, <1>5, <1>6, <1>7, <1>8, <1>9, <1>10, <1>11, <1>12, <1>13
     DEF Next, Check, Settle

\* A message that is inserted makes its task pending.
LEMMA SubmitSubmits ==
  ASSUME TypeOK, MessageInv, NEW t \in Tasks, SubmitJob(t)
  PROVE  StateOf(t) = "absent" /\ StateOf(t)' = "pending"
<1>1. attempt_at[t] = "absent" /\ attempt_at'[t] = "due" /\ row' = row
  BY DEF SubmitJob, TypeOK, table
<1>2. Stored(t)' = {} /\ ~ Lost(t)'
  BY <1>1 DEF MessageInv, Stored, Lost
<1> QED
  BY <1>1, <1>2, StateCases DEF StateOf, TaskState

\* The first row of a task finishes it, another one changes nothing.
LEMMA InsertFinishes ==
  ASSUME TypeOK, MessageInv, NEW t \in Tasks, Stores(t)
  PROVE  StateOf(t) \in {"pending", "done"} /\ StateOf(t)' = "done"
<1> PICK a \in Attempts : Insert(t, a)
  BY DEF Stores
<1>1. a \in Live(t) /\ attempt_at' = attempt_at
  BY DEF Insert, Live, queue
<1>2. attempt_at[t] # "absent" /\ ~ Over(t)
  BY <1>1 DEF MessageInv, Over
<1>3. a \in Stored(t)'
  BY InsertRow DEF Stored
<1>4. StateOf(t)' = "done"
  BY <1>1, <1>2, <1>3 DEF StateOf, TaskState
<1> QED
  BY <1>2, <1>4, StateCases

\* A step submits or stores one task, and does neither to any other.
LEMMA OneTask ==
  ASSUME TypeOK, NEW t \in Tasks, SubmitJob(t) \/ Stores(t), NEW u \in Tasks, u # t
  PROVE  StateOf(u)' = StateOf(u)
<1>1. attempt_at'[u] = attempt_at[u] /\ Stored(u)' = Stored(u) /\ Live(u)' = Live(u)
  <2>1. CASE SubmitJob(t)
    BY <2>1 DEF SubmitJob, TypeOK, Stored, Live, runner, table
  <2>2. CASE Stores(t)
    <3>1. PICK a \in Attempts : Insert(t, a)
      BY <2>2 DEF Stores
    <3>2. attempt_at' = attempt_at
      BY <3>1 DEF Insert, queue
    <3> QED
      BY <3>1, <3>2, InsertRow DEF Stored, Live
  <2> QED
    BY <2>1, <2>2
<1> QED
  BY <1>1 DEF StateOf, TaskState, Lost

LEMMA ContractNext ==
  ASSUME TypeOK, MessageInv, [Next]_vars
  PROVE  [Contract!Next]_TaskState
<1>1. TaskState = [t \in Tasks |-> StateOf(t)] /\ TaskState' = [t \in Tasks |-> StateOf(t)']
  BY DEF StateOf, TaskState
<1>2. ASSUME NEW t \in Tasks, SubmitJob(t)
      PROVE  Contract!Submit(t)
  <2>1. StateOf(t) = "absent" /\ StateOf(t)' = "pending"
    BY <1>2, SubmitSubmits
  <2>2. \A u \in Tasks : u # t => StateOf(u)' = StateOf(u)
    BY <1>2, OneTask
  <2>3. TaskState' = [TaskState EXCEPT ![t] = "pending"]
    BY <1>1, <2>1, <2>2
  <2> QED
    BY <1>1, <2>1, <2>3 DEF Contract!Submit, Contract!Becomes
<1>3. ASSUME NEW t \in Tasks, Stores(t)
      PROVE  Contract!Finish(t) \/ TaskState' = TaskState
  <2>1. StateOf(t) \in {"pending", "done"} /\ StateOf(t)' = "done"
    BY <1>3, InsertFinishes
  <2>2. \A u \in Tasks : u # t => StateOf(u)' = StateOf(u)
    BY <1>3, OneTask
  <2>3. TaskState' = [TaskState EXCEPT ![t] = "done"]
    BY <1>1, <2>1, <2>2
  <2>4. CASE StateOf(t) = "pending"
    BY <1>1, <2>3, <2>4 DEF Contract!Finish, Contract!Becomes
  <2>5. CASE StateOf(t) = "done"
    BY <1>1, <2>1, <2>2, <2>5
  <2> QED
    BY <2>1, <2>4, <2>5
<1>4. CASE \A t \in Tasks : ~ SubmitJob(t) /\ ~ Stores(t)
  <2> DEFINE lost == {t \in Tasks : StateOf(t) = "pending" /\ StateOf(t)' = "lost"}
  <2>1. \A t \in Tasks : Settles(t)
    BY <1>4, StateNext
  <2>2. TaskState' = [t \in Tasks |-> IF t \in lost THEN "lost" ELSE TaskState[t]]
    BY <1>1, <2>1 DEF Settles
  <2>3. lost \in SUBSET {t \in Tasks : TaskState[t] = "pending"}
    BY <1>1
  <2> HIDE DEF lost
  <2> QED
    BY <2>2, <2>3 DEF Contract!Next, Contract!Lose
<1> QED
  BY <1>2, <1>3, <1>4 DEF Contract!Next

\* Every behaviour of the v0 queue is one of the contract, that of v1 as well:
\* once submitted, a task is pending until it has a row or is given up, once and
\* for all.
THEOREM RunnerKeepsContract == Spec => ImplementsContract
<1>1. Init => Contract!Init
  BY DEF Init, Contract!Init, TaskState
<1>2. QueueInv /\ [Next]_vars => [Contract!Next]_TaskState
  BY ContractNext DEF QueueInv
<1> QED
  BY <1>1, <1>2, QueueInvariant, PTL DEF Spec, ImplementsContract, Contract!Spec
=============================================================================
