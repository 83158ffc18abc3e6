----------------------------- MODULE BulkV0Results -----------------------------
(***************************************************************************)
(* Proofs about the results of BulkV0: a client that pages through those   *)
(* of a completed job misses no email, and prune_db deletes no result of a *)
(* job that goes on, for any number of jobs, tasks, clients and faults.    *)
(* Both rest on counting: without duplicates a job has as many visible     *)
(* rows as tasks exactly when each of its tasks has one.                   *)
(***************************************************************************)
EXTENDS BulkV0Proofs

USE JobsAssumption, HostsAssumption, RunnerAssumption, PortsAssumption, BudgetAssumption

-----------------------------------------------------------------------------
(* Counting the rows of a job.                                             *)

LEMMA VisibleParts ==
  ASSUME TypeOK, NEW j \in Jobs
  PROVE  /\ Visible(j) \in SUBSET Nat /\ IsFiniteSet(Visible(j)) /\ total_processed(j) \in Nat
         /\ IsFiniteSet(TasksOf(j)) /\ total_records(j) \in Nat
         /\ \A p \in Visible(j) :
              /\ ids[p] \in Tasks \X Attempts /\ ids[p][1] \in TasksOf(j)
              /\ row[ids[p][1]][ids[p][2]] = "visible"
<1>1. IsFiniteSet(DOMAIN ids) /\ DOMAIN ids \in SUBSET Nat
  <2>1. Len(ids) \in Nat /\ DOMAIN ids = 1..Len(ids)
    BY DEF TypeOK
  <2> QED
    BY <2>1, FS_Interval
<1>2. Visible(j) \in SUBSET DOMAIN ids
  BY DEF Visible
<1>3. IsFiniteSet(Visible(j)) /\ total_processed(j) \in Nat
  BY <1>1, <1>2, FS_Subset, FS_CardinalityType DEF total_processed
<1>4. IsFiniteSet(TasksOf(j)) /\ total_records(j) \in Nat
  <2>1. TasksOf(j) \in SUBSET Tasks
    BY DEF TasksOf
  <2> QED
    BY <2>1, FS_Subset, FS_CardinalityType DEF total_records
<1>5. ASSUME NEW p \in Visible(j)
      PROVE  /\ ids[p] \in Tasks \X Attempts /\ ids[p][1] \in TasksOf(j)
             /\ row[ids[p][1]][ids[p][2]] = "visible"
  BY DEF Visible, TasksOf, TypeOK
<1> QED
  BY <1>1, <1>2, <1>3, <1>4, <1>5

LEMMA IdsElement ==
  ASSUME TypeOK, NEW p \in DOMAIN ids
  PROVE  /\ ids[p] \in Tasks \X Attempts /\ ids[p][1] \in Tasks /\ ids[p][2] \in Attempts
         /\ ids[p] = <<ids[p][1], ids[p][2]>>
<1>1. ids[p] \in Tasks \X Attempts
  BY DEF TypeOK
<1> QED
  BY <1>1

\* Without duplicates a task has one row at most.
LEMMA OneRow ==
  ASSUME NEW j \in Jobs, ~ Duplicated(j), NEW t \in TasksOf(j),
         NEW a \in Attempts, NEW b \in Attempts, row[t][a] # "none", row[t][b] # "none"
  PROVE  a = b
<1> SUFFICES ASSUME a # b
             PROVE  FALSE
  OBVIOUS
<1>1. Stored(t) \in SUBSET Attempts /\ {a, b} \in SUBSET Stored(t)
  BY DEF Stored
<1>2. IsFiniteSet(Stored(t)) /\ Cardinality(Stored(t)) \in Nat
  BY <1>1, AttemptSets
<1>3. IsFiniteSet({a}) /\ Cardinality({a}) = 1
  BY FS_Singleton
<1>4. Cardinality({a} \union {b}) = 2
  <2>1. b \notin {a}
    OBVIOUS
  <2>2. Cardinality({a} \union {b}) = Cardinality({a}) + 1
    BY <1>3, <2>1, FS_AddElement
  <2> QED
    BY <1>3, <2>2
<1>5. Cardinality({a, b}) = 2
  <2>1. {a, b} = {a} \union {b}
    OBVIOUS
  <2> QED
    BY <1>4, <2>1
<1>6. 2 <= Cardinality(Stored(t))
  BY <1>1, <1>2, <1>5, FS_Subset
<1> QED
  BY <1>2, <1>6 DEF Duplicated

LEMMA RowsOfTasks ==
  ASSUME TypeOK, IdsInv, NEW j \in Jobs, ~ Duplicated(j)
  PROVE  [p \in Visible(j) |-> ids[p][1]] \in Injection(Visible(j), TasksOf(j))
<1> DEFINE f == [p \in Visible(j) |-> ids[p][1]]
<1>1. f \in [Visible(j) -> TasksOf(j)]
  BY VisibleParts
<1>2. ASSUME NEW p \in Visible(j), NEW q \in Visible(j), f[p] = f[q]
      PROVE  p = q
  <2> DEFINE t == ids[p][1]
             a == ids[p][2]
             b == ids[q][2]
  <2>1. /\ t \in TasksOf(j) /\ a \in Attempts /\ b \in Attempts
        /\ row[t][a] # "none" /\ row[t][b] # "none"
    BY <1>2, VisibleParts
  <2>2. ids[p] = <<t, a>> /\ ids[q] = <<t, b>>
    BY <1>2, VisibleParts
  <2>3. a = b
    <3> HIDE DEF t, a, b
    <3> QED
      BY <2>1, OneRow
  <2>4. ids[p] = ids[q]
    BY <2>2, <2>3
  <2>5. p \in DOMAIN ids /\ q \in DOMAIN ids
    BY DEF Visible
  <2> QED
    BY <2>4, <2>5 DEF IdsInv
<1> QED
  BY <1>1, <1>2 DEF Injection, IsInjective

\* No more rows than tasks, and as many only if each task has its row.
LEMMA RowsCount ==
  ASSUME TypeOK, IdsInv, NEW j \in Jobs, ~ Duplicated(j)
  PROVE  /\ total_processed(j) <= total_records(j)
         /\ total_processed(j) = total_records(j) =>
              \A t \in TasksOf(j) : \E p \in Visible(j) : ids[p][1] = t
<1> DEFINE f == [p \in Visible(j) |-> ids[p][1]]
<1>1. /\ Cardinality(Visible(j)) <= Cardinality(TasksOf(j))
      /\ Cardinality(Visible(j)) = Cardinality(TasksOf(j)) <=> f \in Surjection(Visible(j), TasksOf(j))
  BY RowsOfTasks, VisibleParts, FS_Injection
<1>2. ASSUME f \in Surjection(Visible(j), TasksOf(j)), NEW t \in TasksOf(j)
      PROVE  \E p \in Visible(j) : ids[p][1] = t
  BY <1>2 DEF Surjection
<1> QED
  BY <1>1, <1>2 DEF total_processed, total_records

LEMMA AllVisible ==
  ASSUME TypeOK, IdsInv, NEW j \in Jobs, ~ Duplicated(j), total_processed(j) = total_records(j)
  PROVE  AllRows(j, "visible")
<1> SUFFICES ASSUME NEW t \in TasksOf(j)
             PROVE  \E a \in Attempts : row[t][a] = "visible"
  BY DEF AllRows
<1>1. PICK p \in Visible(j) : ids[p][1] = t
  BY RowsCount
<1> QED
  BY <1>1, VisibleParts

\* ORDER BY id gives each row a place of its own.
LEMMA RankOrder ==
  ASSUME TypeOK, NEW j \in Jobs, NEW p \in Visible(j)
  PROVE  /\ Rank(j, p) \in 1..total_processed(j)
         /\ \A q \in Visible(j) : Rank(j, p) = Rank(j, q) => p = q
<1> DEFINE Upto(q) == {r \in Visible(j) : r <= q}
<1>1. Visible(j) \in SUBSET Nat /\ IsFiniteSet(Visible(j))
  BY VisibleParts
<1>2. ASSUME NEW q \in Visible(j)
      PROVE  /\ Upto(q) \in SUBSET Visible(j) /\ IsFiniteSet(Upto(q))
             /\ Cardinality(Upto(q)) \in Nat /\ Rank(j, q) = Cardinality(Upto(q))
             /\ Cardinality(Upto(q)) <= Cardinality(Visible(j))
  BY <1>1, FS_Subset, FS_CardinalityType DEF Rank
<1>3. Cardinality(Upto(p)) # 0
  <2>1. p \in Upto(p)
    BY <1>1
  <2> QED
    BY <1>2, <2>1, FS_EmptySet
<1>4. ASSUME NEW q \in Visible(j), NEW r \in Visible(j), q < r
      PROVE  Rank(j, q) # Rank(j, r)
  <2>1. Upto(q) \in SUBSET Upto(r)
    BY <1>1, <1>4
  <2>2. r \in Upto(r) /\ r \notin Upto(q)
    BY <1>1, <1>4
  <2> QED
    BY <1>2, <2>1, <2>2, FS_Subset
<1>5. \A q \in Visible(j) : Rank(j, p) = Rank(j, q) => p = q
  BY <1>1, <1>4
<1>6. total_processed(j) \in Nat
  BY VisibleParts
<1> HIDE DEF Upto
<1> QED
  BY <1>2, <1>3, <1>5, <1>6 DEF total_processed

-----------------------------------------------------------------------------
(* The steps that matter to results, and what they do to them.             *)

LEMMA StepKinds ==
  ASSUME [Next]_vars
  PROVE  \/ \E t \in Tasks, a \in Attempts : Insert(t, a)
         \/ \E t \in Tasks, a \in Attempts : CommitInsert(t, a)
         \/ DeleteResults
         \/ \E j \in Jobs : SelectTotal(j) \/ SelectCount(j) \/ SelectPage(j)
         \/ SelectOld \/ DeleteJobs \/ PruneFails
         \/ UNCHANGED <<row, ids, reader, prune, interrupted>>
            /\ (jobs' = jobs \/ \E j \in Jobs, n \in PortCounts : InsertJob(j, n))
<1> DEFINE Other == UNCHANGED <<row, ids, reader, prune, interrupted>>
                    /\ (jobs' = jobs \/ \E j \in Jobs, n \in PortCounts : InsertJob(j, n))
<1> USE DEF table
<1>1. ASSUME NEW j \in Jobs, (\E n \in PortCounts : InsertJob(j, n)) \/ PostFails(j) \/ Accept(j)
      PROVE  Other
  BY <1>1 DEF InsertJob, PostFails, Accept
<1>2. ASSUME NEW t \in Tasks, SubmitJob(t) \/ Expire(t) \/ Lapse(t)
      PROVE  Other
  BY <1>2 DEF SubmitJob, Expire, Lapse
<1>3. ASSUME NEW h \in Hosts, Crash(h) \/ \E ts \in SUBSET Tasks : Poll(h, ts)
      PROVE  Other
  BY <1>3 DEF Crash, Poll
<1>4. ASSUME NEW t \in Tasks, NEW a \in Attempts,
             \/ NextPort(t, a) \/ InsertFails(t, a) \/ InsertAnswerLost(t, a)
             \/ Complete(t, a) \/ CompleteFails(t, a)
      PROVE  Other
  BY <1>4 DEF NextPort, InsertFails, InsertAnswerLost, Complete, CompleteFails
<1>5. CASE UNCHANGED vars
  BY <1>5 DEF vars
<1> HIDE DEF Other, table
<1>6. QED
  BY <1>1, <1>2, <1>3, <1>4, <1>5 DEF Next, Check, Settle, Other

\* An INSERT takes a new id and is not visible yet.
LEMMA InsertIds ==
  ASSUME TypeOK, ExecutionInv, IdsInv, NEW t \in Tasks, NEW a \in Attempts, Insert(t, a)
  PROVE  /\ DOMAIN ids' = DOMAIN ids \union {Len(ids) + 1} /\ Len(ids) + 1 \notin DOMAIN ids
         /\ ids'[Len(ids) + 1] = <<t, a>>
         /\ \A p \in DOMAIN ids : ids'[p] = ids[p] /\ ids[p] # <<t, a>>
         /\ row[t][a] = "none"
<1>1. ids \in Seq(Tasks \X Attempts) /\ ids' = Append(ids, <<t, a>>) /\ <<t, a>> \in Tasks \X Attempts
  BY DEF TypeOK, Insert
<1>2. row[t][a] = "none"
  BY DEF Insert, ExecutionInv
<1>3. \A p \in DOMAIN ids : ids[p] # <<t, a>>
  BY <1>2 DEF IdsInv
<1>4. /\ Len(ids) \in Nat /\ DOMAIN ids = 1..Len(ids)
      /\ DOMAIN ids' = 1..(Len(ids) + 1)
      /\ ids'[Len(ids) + 1] = <<t, a>>
      /\ \A p \in 1..Len(ids) : ids'[p] = ids[p]
  BY <1>1
<1> QED
  BY <1>2, <1>3, <1>4

LEMMA IdsNext ==
  ASSUME TypeOK, ExecutionInv, IdsInv, [Next]_vars
  PROVE  IdsInv'
<1>1. ASSUME UNCHANGED table
      PROVE  IdsInv'
  BY <1>1 DEF IdsInv, table
<1>2. ASSUME NEW t \in Tasks, NEW a \in Attempts, Insert(t, a)
      PROVE  IdsInv'
  <2> DEFINE n == Len(ids) + 1
  <2>a. /\ DOMAIN ids' = DOMAIN ids \union {n} /\ n \notin DOMAIN ids /\ ids'[n] = <<t, a>>
        /\ \A p \in DOMAIN ids : ids'[p] = ids[p] /\ ids[p] # <<t, a>>
    BY <1>2, InsertIds
  <2> HIDE DEF n
  <2>1. ASSUME NEW p \in DOMAIN ids', NEW q \in DOMAIN ids', ids'[p] = ids'[q]
        PROVE  p = q
    <3>1. CASE p = n
      BY <2>a, <2>1, <3>1
    <3>2. CASE q = n
      BY <2>a, <2>1, <3>2
    <3>3. CASE p # n /\ q # n
      BY <2>a, <2>1, <3>3 DEF IdsInv
    <3> QED
      BY <3>1, <3>2, <3>3
  <2>2. ASSUME NEW u \in Tasks, NEW b \in Attempts
        PROVE  row'[u][b] # "none" <=> \E p \in DOMAIN ids' : ids'[p] = <<u, b>>
    <3>1. CASE u = t /\ b = a
      BY <1>2, <2>a, <3>1, InsertRow
    <3>2. CASE ~ (u = t /\ b = a)
      <4>1. row'[u][b] = row[u][b] /\ <<u, b>> # <<t, a>>
        BY <1>2, <3>2, InsertRow
      <4>2. row[u][b] # "none" <=> \E p \in DOMAIN ids : ids[p] = <<u, b>>
        BY DEF IdsInv
      <4> QED
        BY <2>a, <4>1, <4>2
    <3> QED
      BY <3>1, <3>2
  <2> QED
    BY <2>1, <2>2 DEF IdsInv
<1>3. ASSUME NEW t \in Tasks, NEW a \in Attempts, CommitInsert(t, a)
      PROVE  IdsInv'
  <2>1. ids' = ids
    BY <1>3 DEF CommitInsert
  <2> QED
    BY <1>3, <2>1, CommitRow DEF IdsInv
<1>4. CASE DeleteResults
  <2>1. ids' = ids
    BY <1>4 DEF DeleteResults
  <2> QED
    BY <1>4, <2>1, DeleteRow DEF IdsInv
<1>5. ASSUME NEW j \in Jobs, SelectTotal(j) \/ SelectCount(j) \/ SelectPage(j)
      PROVE  IdsInv'
  BY <1>1, <1>5 DEF SelectTotal, SelectCount, SelectPage
<1>6. CASE SelectOld \/ DeleteJobs \/ PruneFails
  BY <1>1, <1>6 DEF SelectOld, DeleteJobs, PruneFails
<1> QED
  BY <1>1, <1>2, <1>3, <1>4, <1>5, <1>6, StepKinds DEF table

\* Rows are only added, and stay deleted once they are.
LEMMA RowsGrow ==
  ASSUME TypeOK, ExecutionInv, IdsInv, [Next]_vars, NEW t \in Tasks, NEW a \in Attempts
  PROVE  /\ row[t][a] # "none" => row'[t][a] # "none"
         /\ row[t][a] = "deleted" => row'[t][a] = "deleted"
<1>1. ASSUME NEW u \in Tasks, NEW b \in Attempts, Insert(u, b)
      PROVE  row'[t][a] = row[t][a] \/ row[t][a] = "none"
  BY <1>1, InsertRow, InsertIds
<1>2. ASSUME NEW u \in Tasks, NEW b \in Attempts, CommitInsert(u, b)
      PROVE  row'[t][a] = row[t][a] \/ (row[t][a] = "written" /\ row'[t][a] = "visible")
  <2>1. CASE t = u /\ a = b
    BY <1>2, <2>1, CommitRow
  <2>2. CASE ~ (t = u /\ a = b)
    BY <1>2, <2>2, CommitRow
  <2> QED
    BY <2>1, <2>2
<1>3. CASE DeleteResults
  BY <1>3, DeleteRow
<1>4. CASE UNCHANGED table
  BY <1>4 DEF table
<1>5. ASSUME NEW j \in Jobs, SelectTotal(j) \/ SelectCount(j) \/ SelectPage(j)
      PROVE  UNCHANGED table
  BY <1>5 DEF SelectTotal, SelectCount, SelectPage
<1>6. ASSUME SelectOld \/ DeleteJobs \/ PruneFails
      PROVE  UNCHANGED table
  BY <1>6 DEF SelectOld, DeleteJobs, PruneFails
<1> QED
  BY <1>1, <1>2, <1>3, <1>4, <1>5, <1>6, StepKinds DEF table

LEMMA DuplicatesStay ==
  ASSUME TypeOK, ExecutionInv, IdsInv, [Next]_vars, NEW j \in Jobs
  PROVE  (Duplicated(j) => Duplicated(j)') /\ (Emptied(j) => Emptied(j)')
<1>1. ASSUME Duplicated(j)
      PROVE  Duplicated(j)'
  <2>1. PICK t \in TasksOf(j) : Cardinality(Stored(t)) > 1
    BY <1>1 DEF Duplicated
  <2>2. t \in Tasks
    BY DEF TasksOf
  <2>3. Stored(t) \in SUBSET Stored(t)' /\ Stored(t)' \in SUBSET Attempts
    BY <2>2, RowsGrow DEF Stored
  <2>4. Cardinality(Stored(t)') \in Nat /\ Cardinality(Stored(t)) \in Nat
        /\ Cardinality(Stored(t)) <= Cardinality(Stored(t)')
    BY <2>3, AttemptSets, FS_Subset
  <2>5. Cardinality(Stored(t)') > 1
    BY <2>1, <2>4
  <2>6. TasksOf(j)' = TasksOf(j)
    BY DEF TasksOf
  <2> QED
    BY <2>5, <2>6 DEF Duplicated
<1>2. ASSUME Emptied(j)
      PROVE  Emptied(j)'
  BY <1>2, RowsGrow DEF Emptied, TasksOf
<1> QED
  BY <1>1, <1>2

-----------------------------------------------------------------------------
(* Clients: ReaderInv.                                                     *)

\* What ReaderInv says of one job.
HasBegun(j) == reader[j].stage \in {"reading", "done"} \/ reader[j].got # <<>>
Intact(j) == ~ Emptied(j) /\ ~ Duplicated(j)
ReadsInOrder(j) ==
  LET got == reader[j].got IN
  /\ total_processed(j) = total_records(j)
  /\ \A i \in DOMAIN got : \E p \in Visible(j) : Rank(j, p) = i /\ ids[p][1] = got[i]
  /\ reader[j].stage = "done" => Len(got) = total_records(j)
ReaderOK(j) == Intact(j) /\ HasBegun(j) => ReadsInOrder(j)

\* A step that shows the client of j the same rows in the same places.
LEMMA ReaderKept ==
  ASSUME NEW j \in Jobs, ReaderOK(j), reader'[j] = reader[j], Intact(j)' => Intact(j),
         Intact(j)' /\ Intact(j) /\ ReadsInOrder(j) =>
           Visible(j)' = Visible(j) /\ \A p \in Visible(j) : ids'[p] = ids[p]
  PROVE  ReaderOK(j)'
<1> SUFFICES ASSUME Intact(j)', HasBegun(j)'
             PROVE  ReadsInOrder(j)'
  BY DEF ReaderOK
<1>1. ReadsInOrder(j) /\ Intact(j)
  BY DEF ReaderOK, HasBegun
<1>2. Visible(j)' = Visible(j) /\ \A p \in Visible(j) : ids'[p] = ids[p]
  BY <1>1
<1>3. \A p \in Visible(j) : Rank(j, p)' = Rank(j, p)
  BY <1>2 DEF Rank
<1>4. total_processed(j)' = total_processed(j) /\ total_records(j)' = total_records(j)
  BY <1>2 DEF total_processed, total_records, TasksOf
<1> QED
  BY <1>1, <1>2, <1>3, <1>4 DEF ReadsInOrder

LEMMA InsertVisible ==
  ASSUME TypeOK, ExecutionInv, IdsInv, NEW t \in Tasks, NEW a \in Attempts, Insert(t, a),
         NEW j \in Jobs
  PROVE  Visible(j)' = Visible(j) /\ \A p \in Visible(j) : ids'[p] = ids[p]
<1>1. ASSUME NEW p \in DOMAIN ids
      PROVE  p \in Visible(j)' <=> p \in Visible(j)
  <2>1. ids'[p] = ids[p] /\ ids[p] # <<t, a>> /\ ids[p] \in Tasks \X Attempts /\ p \in DOMAIN ids'
    BY InsertIds, IdsElement
  <2>2. row'[ids[p][1]][ids[p][2]] = row[ids[p][1]][ids[p][2]]
    <3>1. ids[p][1] \in Tasks /\ ids[p][2] \in Attempts /\ ~ (ids[p][1] = t /\ ids[p][2] = a)
      BY <2>1, IdsElement
    <3> QED
      BY <3>1, InsertRow
  <2> QED
    BY <2>1, <2>2 DEF Visible
<1>2. Len(ids) + 1 \notin Visible(j)'
  <2>1. row'[t][a] = "written" /\ ids'[Len(ids) + 1] = <<t, a>>
    BY InsertRow, InsertIds
  <2> QED
    BY <2>1 DEF Visible
<1>3. Visible(j)' \subseteq DOMAIN ids' /\ Visible(j) \subseteq DOMAIN ids
  BY DEF Visible
<1> QED
  BY <1>1, <1>2, <1>3, InsertIds

\* When all tasks of j are processed, no INSERT of it is under way but for a
\* second row.
LEMMA NoneWritten ==
  ASSUME TypeOK, IdsInv, NEW j \in Jobs, ~ Duplicated(j), total_processed(j) = total_records(j),
         NEW t \in TasksOf(j), NEW a \in Attempts
  PROVE  row[t][a] # "written"
<1> SUFFICES ASSUME row[t][a] = "written"
             PROVE  FALSE
  OBVIOUS
<1>1. PICK b \in Attempts : row[t][b] = "visible"
  BY AllVisible DEF AllRows
<1>2. a = b
  BY <1>1, OneRow
<1> QED
  BY <1>1, <1>2

LEMMA ReaderPage ==
  ASSUME TypeOK, IdsInv, NEW j \in Jobs, ReaderOK(j), SelectPage(j)
  PROVE  ReaderOK(j)'
<1> USE DEF table
<1> DEFINE got == reader[j].got
           offset == Len(got)
           n == PageLength(j, offset)
<1> SUFFICES ASSUME Intact(j)', HasBegun(j)'
             PROVE  ReadsInOrder(j)'
  BY DEF ReaderOK
<1>1. PICK page \in [1..n -> Visible(j)] :
        /\ \A i \in 1..n : Rank(j, page[i]) = offset + i
        /\ reader' = [reader EXCEPT ![j] =
             [stage |-> IF n < PageLimit THEN "done" ELSE "idle",
              got |-> @.got \o [i \in 1..n |-> ids[page[i]][1]]]]
  BY DEF SelectPage
<1> DEFINE rest == [i \in 1..n |-> ids[page[i]][1]]
<1>2. UNCHANGED <<row, ids>> /\ reader[j].stage = "reading"
  BY DEF SelectPage
<1>3. /\ Visible(j)' = Visible(j) /\ total_processed(j)' = total_processed(j)
      /\ total_records(j)' = total_records(j) /\ (Intact(j)' <=> Intact(j))
      /\ \A p \in Visible(j) : Rank(j, p)' = Rank(j, p)
  BY <1>2 DEF Visible, total_processed, total_records, TasksOf, Intact, Emptied, Duplicated,
              Stored, Rank
<1>4. Intact(j) /\ ReadsInOrder(j)
  BY <1>2, <1>3 DEF ReaderOK, HasBegun
<1>5. total_processed(j) \in Nat /\ offset \in Nat /\ got \in Seq(Tasks) /\ PageLimit \in Nat \ {0}
  BY VisibleParts DEF TypeOK
<1>6. offset <= total_processed(j)
  <2>1. CASE offset = 0
    BY <1>5, <2>1
  <2>2. CASE offset # 0
    <3>1. offset \in DOMAIN got
      BY <1>5, <2>2
    <3>2. PICK p \in Visible(j) : Rank(j, p) = offset
      BY <1>4, <3>1 DEF ReadsInOrder
    <3>3. offset \in 1..total_processed(j)
      BY <3>2, RankOrder
    <3> QED
      BY <1>5, <3>3
  <2> QED
    BY <2>1, <2>2
<1>7. /\ n \in Nat
      /\ n < PageLimit => n = total_processed(j) - offset
  <2> HIDE DEF offset
  <2> QED
    BY <1>5, <1>6 DEF PageLength
<1>8. rest \in Seq(Tasks) /\ Len(rest) = n
  <2>1. \A i \in 1..n : ids[page[i]][1] \in Tasks
    BY <1>1, VisibleParts DEF TasksOf
  <2> HIDE DEF n
  <2> QED
    BY <1>7, <2>1
<1>9. reader'[j] = [stage |-> IF n < PageLimit THEN "done" ELSE "idle", got |-> got \o rest]
  <2> HIDE DEF n
  <2>1. reader \in [Jobs -> [stage : {"idle", "counting", "reading", "done"}, got : Seq(Tasks)]]
    BY DEF TypeOK
  <2> QED
    BY <1>1, <2>1
<1> HIDE DEF n, rest
<1>10. /\ Len(got \o rest) = offset + n /\ DOMAIN (got \o rest) = 1..(offset + n)
       /\ \A i \in 1..(offset + n) :
            (got \o rest)[i] = IF i <= offset THEN got[i] ELSE rest[i - offset]
  <2> HIDE DEF got
  <2>1. /\ got \o rest \in Seq(Tasks) /\ Len(got \o rest) = Len(got) + Len(rest)
        /\ \A i \in 1..(Len(got) + Len(rest)) :
             (got \o rest)[i] = IF i <= Len(got) THEN got[i] ELSE rest[i - Len(got)]
    BY <1>5, <1>8, ConcatProperties
  <2>2. DOMAIN (got \o rest) = 1..Len(got \o rest)
    BY <2>1
  <2> QED
    BY <1>8, <2>1, <2>2
<1>11. ASSUME NEW i \in 1..(offset + n)
       PROVE  \E p \in Visible(j) : Rank(j, p) = i /\ ids[p][1] = (got \o rest)[i]
  <2>1. CASE i <= offset
    <3>1. i \in DOMAIN got
      BY <1>5, <1>7, <2>1
    <3>2. (got \o rest)[i] = got[i]
      BY <1>10, <2>1
    <3> QED
      BY <1>4, <3>1, <3>2 DEF ReadsInOrder
  <2>2. CASE ~ (i <= offset)
    <3>1. i - offset \in 1..n /\ offset + (i - offset) = i
      BY <1>5, <1>7, <2>2
    <3>2. (got \o rest)[i] = ids[page[i - offset]][1]
      BY <1>10, <2>2, <3>1 DEF rest
    <3>3. page[i - offset] \in Visible(j) /\ Rank(j, page[i - offset]) = i
      BY <1>1, <3>1
    <3> QED
      BY <3>2, <3>3
  <2> QED
    BY <2>1, <2>2
<1>12. reader'[j].got = got \o rest /\ (reader'[j].stage = "done" => n < PageLimit)
  BY <1>9
<1>13. n < PageLimit => offset + n = total_records(j)
  BY <1>4, <1>5, <1>7 DEF ReadsInOrder
<1> HIDE DEF offset, got
<1>14. \A i \in DOMAIN (got \o rest) : \E p \in Visible(j)' :
          Rank(j, p)' = i /\ ids'[p][1] = (got \o rest)[i]
  BY <1>2, <1>3, <1>10, <1>11
<1>15. (total_processed(j) = total_records(j))'
  BY <1>3, <1>4 DEF ReadsInOrder
<1> QED
  BY <1>3, <1>10, <1>12, <1>13, <1>14, <1>15 DEF ReadsInOrder

LEMMA ReaderNext ==
  ASSUME TypeOK, ExecutionInv, IdsInv, [Next]_vars, NEW j \in Jobs, ReaderOK(j)
  PROVE  ReaderOK(j)'
<1>a. Intact(j)' => Intact(j)
  BY DuplicatesStay DEF Intact
<1>1. ASSUME UNCHANGED <<row, ids>>, reader'[j] = reader[j]
      PROVE  ReaderOK(j)'
  <2>1. Visible(j)' = Visible(j)
    BY <1>1 DEF Visible
  <2> QED
    BY <1>a, <1>1, <2>1, ReaderKept
<1>2. ASSUME NEW t \in Tasks, NEW a \in Attempts, Insert(t, a)
      PROVE  ReaderOK(j)'
  <2>1. reader' = reader
    BY <1>2 DEF Insert
  <2> QED
    BY <1>a, <1>2, <2>1, InsertVisible, ReaderKept
<1>3. ASSUME NEW t \in Tasks, NEW a \in Attempts, CommitInsert(t, a)
      PROVE  ReaderOK(j)'
  <2>1. UNCHANGED <<reader, ids>> /\ row[t][a] = "written"
    BY <1>3 DEF CommitInsert
  <2>2. CASE JobOf[t] # j
    <3>1. ASSUME NEW p \in DOMAIN ids, JobOf[ids[p][1]] = j
          PROVE  row'[ids[p][1]][ids[p][2]] = row[ids[p][1]][ids[p][2]]
      <4>1. ids[p][1] \in Tasks /\ ids[p][2] \in Attempts /\ ids[p][1] # t
        BY <2>2, <3>1, IdsElement
      <4> QED
        BY <1>3, <4>1, CommitRow
    <3>2. Visible(j)' = Visible(j)
      BY <2>1, <3>1 DEF Visible
    <3> QED
      BY <1>a, <2>1, <3>2, ReaderKept
  <2>3. CASE JobOf[t] = j
    <3>1. ~ (Intact(j) /\ ReadsInOrder(j))
      BY <2>1, <2>3, NoneWritten DEF Intact, ReadsInOrder, TasksOf
    <3> QED
      BY <1>a, <2>1, <3>1, ReaderKept
  <2> QED
    BY <2>2, <2>3
<1>4. CASE DeleteResults
  <2>1. UNCHANGED <<reader, ids>>
    BY <1>4 DEF DeleteResults
  <2>2. ASSUME Intact(j)'
        PROVE  Visible(j)' = Visible(j)
    <3>1. ASSUME NEW p \in DOMAIN ids, JobOf[ids[p][1]] = j
          PROVE  row'[ids[p][1]][ids[p][2]] = "visible" <=> row[ids[p][1]][ids[p][2]] = "visible"
      <4>1. ids[p][1] \in TasksOf(j) /\ ids[p][1] \in Tasks /\ ids[p][2] \in Attempts
        BY <3>1, IdsElement DEF TasksOf
      <4>2. row'[ids[p][1]][ids[p][2]] # "deleted"
        BY <2>2, <4>1 DEF Intact, Emptied, TasksOf
      <4> QED
        BY <1>4, <4>1, <4>2, DeleteRow
    <3> QED
      BY <2>1, <3>1 DEF Visible
  <2> QED
    BY <1>a, <2>1, <2>2, ReaderKept
<1>5. ASSUME NEW k \in Jobs, SelectTotal(k) \/ SelectCount(k)
      PROVE  ReaderOK(j)'
  <2>1. UNCHANGED <<row, ids>>
    BY <1>5 DEF SelectTotal, SelectCount, table
  <2>2. CASE k # j
    <3>1. reader'[j] = reader[j]
      BY <1>5, <2>2 DEF SelectTotal, SelectCount, Reads, TypeOK
    <3> QED
      BY <1>1, <2>1, <3>1
  <2>3. CASE k = j
    <3>1. /\ Visible(j)' = Visible(j) /\ total_processed(j)' = total_processed(j)
          /\ total_records(j)' = total_records(j) /\ (Intact(j)' <=> Intact(j))
          /\ \A p \in Visible(j) : Rank(j, p)' = Rank(j, p)
      BY <2>1 DEF Visible, total_processed, total_records, TasksOf, Intact, Emptied, Duplicated,
                  Stored, Rank
    <3>2. /\ reader'[j].got = reader[j].got /\ reader'[j].stage # "done"
          /\ reader'[j].stage \in {"reading", "done"} => total_records(j) <= total_processed(j)
      <4>1. reader \in [Jobs -> [stage : {"idle", "counting", "reading", "done"}, got : Seq(Tasks)]]
        BY DEF TypeOK
      <4>2. CASE SelectTotal(j)
        BY <4>1, <4>2 DEF SelectTotal, Reads
      <4>3. CASE SelectCount(j)
        BY <4>1, <4>3, VisibleParts DEF SelectCount, Reads
      <4> QED
        BY <1>5, <2>3, <4>2, <4>3
    <3>3. SUFFICES ASSUME Intact(j), HasBegun(j)'
                   PROVE  ReadsInOrder(j)'
      BY <3>1 DEF ReaderOK
    <3>4. total_processed(j) = total_records(j)
      <4>1. CASE reader[j].got # <<>>
        BY <3>3, <4>1 DEF ReaderOK, HasBegun, ReadsInOrder
      <4>2. CASE reader[j].got = <<>>
        BY <3>2, <3>3, <4>2, RowsCount, VisibleParts DEF HasBegun, Intact
      <4> QED
        BY <4>1, <4>2
    <3>5. ASSUME NEW i \in DOMAIN reader[j].got
          PROVE  \E p \in Visible(j) : Rank(j, p) = i /\ ids[p][1] = reader[j].got[i]
      <4>1. reader[j].got # <<>>
        BY <3>5
      <4> QED
        BY <3>3, <4>1 DEF ReaderOK, HasBegun, ReadsInOrder
    <3> QED
      BY <2>1, <3>1, <3>2, <3>4, <3>5 DEF ReadsInOrder
  <2> QED
    BY <2>2, <2>3
<1>6. ASSUME NEW k \in Jobs, SelectPage(k)
      PROVE  ReaderOK(j)'
  <2>1. CASE k # j
    <3>1. reader'[j] = reader[j] /\ UNCHANGED <<row, ids>>
      BY <1>6, <2>1 DEF SelectPage, table, TypeOK
    <3> QED
      BY <1>1, <3>1
  <2>2. CASE k = j
    BY <1>6, <2>2, ReaderPage
  <2> QED
    BY <2>1, <2>2
<1>7. CASE SelectOld \/ DeleteJobs \/ PruneFails
  BY <1>1, <1>7 DEF SelectOld, DeleteJobs, PruneFails, table
<1> QED
  BY <1>1, <1>2, <1>3, <1>4, <1>5, <1>6, <1>7, StepKinds

-----------------------------------------------------------------------------
(* prune_db: PruneInv.                                                     *)

\* What PruneInv says of one job: what prune_db is about to do to it, and what it
\* has done.
Selected(j) ==
  j \in prune.ids /\ ~ Duplicated(j) =>
    /\ prune.stage = "selected" => AllRows(j, "visible")
    /\ prune.stage = "emptied" => AllRows(j, "deleted")
Excused(j) ==
  \/ j \notin jobs \/ j \in interrupted
  \/ prune.stage = "emptied" /\ j \in prune.ids
  \/ \E k \in Jobs : Duplicated(k)
EmptiedOK(j) ==
  Emptied(j) => (~ Duplicated(j) => \A t \in TasksOf(j) : Stored(t) # {}) /\ Excused(j)

LEMMA PruneParts == PruneInv <=> \A j \in Jobs : Selected(j) /\ EmptiedOK(j)
  BY DEF PruneInv, Selected, EmptiedOK, Excused

\* A step of another kind: rows in the states that matter stay in them.
LEMMA PruneKept ==
  ASSUME TypeOK, ExecutionInv, IdsInv, [Next]_vars, NEW j \in Jobs, Selected(j), EmptiedOK(j),
         UNCHANGED <<prune, interrupted>>, Emptied(j)' = Emptied(j), Emptied(j) /\ j \in jobs' => j \in jobs,
         \A t \in Tasks, a \in Attempts :
           row[t][a] \in {"visible", "deleted"} => row'[t][a] = row[t][a]
  PROVE  Selected(j)' /\ EmptiedOK(j)'
<1>1. \A k \in Jobs : Duplicated(k) => Duplicated(k)'
  BY DuplicatesStay
<1>2. \A t \in TasksOf(j) : t \in Tasks /\ (Stored(t) # {} => Stored(t)' # {})
  BY RowsGrow DEF Stored, TasksOf
<1>3. TasksOf(j)' = TasksOf(j)
  BY DEF TasksOf
<1>4. ASSUME NEW s \in {"visible", "deleted"}, AllRows(j, s)
      PROVE  AllRows(j, s)'
  BY <1>2, <1>3, <1>4 DEF AllRows
<1>5. Selected(j)'
  BY <1>1, <1>4 DEF Selected
<1>6. EmptiedOK(j)'
  BY <1>1, <1>2, <1>3 DEF EmptiedOK, Excused
<1> QED
  BY <1>5, <1>6

LEMMA PruneNext ==
  ASSUME TypeOK, MessageInv, ExecutionInv, IdsInv, PruneInv, [Next]_vars
  PROVE  PruneInv'
<1> SUFFICES ASSUME NEW j \in Jobs
             PROVE  Selected(j)' /\ EmptiedOK(j)'
  BY DEF PruneInv, Selected, EmptiedOK, Excused
<1>a. \A k \in Jobs : Selected(k) /\ EmptiedOK(k)
  BY PruneParts
<1>b. /\ \A k \in Jobs : Duplicated(k) => Duplicated(k)'
      /\ \A t \in TasksOf(j) : t \in Tasks /\ (Stored(t) # {} => Stored(t)' # {})
      /\ TasksOf(j)' = TasksOf(j)
  BY DuplicatesStay, RowsGrow DEF Stored, TasksOf
<1>c. prune.stage \in {"idle", "selected", "emptied"} /\ prune.ids \in SUBSET Jobs
  BY DEF TypeOK
<1>1. ASSUME UNCHANGED <<row, prune, interrupted>>, Emptied(j) /\ j \in jobs' => j \in jobs
      PROVE  Selected(j)' /\ EmptiedOK(j)'
  <2>1. Emptied(j)' = Emptied(j)
    BY <1>1 DEF Emptied, TasksOf
  <2> QED
    BY <1>1, <1>a, <2>1, PruneKept
<1>2. ASSUME NEW t \in Tasks, NEW a \in Attempts, Insert(t, a) \/ CommitInsert(t, a)
      PROVE  Selected(j)' /\ EmptiedOK(j)'
  <2>1. UNCHANGED <<prune, interrupted, jobs>>
    BY <1>2 DEF Insert, CommitInsert
  <2>2. /\ row[t][a] \in {"none", "written"} /\ row'[t][a] \in {"written", "visible"}
        /\ \A u \in Tasks, b \in Attempts : ~ (u = t /\ b = a) => row'[u][b] = row[u][b]
    <3>1. CASE Insert(t, a)
      BY <3>1, InsertRow, InsertIds
    <3>2. CASE CommitInsert(t, a)
      BY <3>2, CommitRow
    <3> QED
      BY <1>2, <3>1, <3>2
  <2>3. \A u \in Tasks, b \in Attempts :
          /\ row'[u][b] = "deleted" <=> row[u][b] = "deleted"
          /\ row[u][b] \in {"visible", "deleted"} => row'[u][b] = row[u][b]
    BY <2>2
  <2>4. Emptied(j)' = Emptied(j)
    BY <1>b, <2>3 DEF Emptied
  <2> QED
    BY <1>a, <2>1, <2>3, <2>4, PruneKept
<1>3. CASE DeleteResults
  <2>1. /\ prune.stage = "selected" /\ prune'.stage = "emptied" /\ prune'.ids = prune.ids
        /\ UNCHANGED <<jobs, interrupted>>
    BY <1>3 DEF DeleteResults, TypeOK
  <2>2. CASE j \in prune.ids
    <3>1. ASSUME ~ Duplicated(j)', NEW t \in TasksOf(j)
          PROVE  (\E a \in Attempts : row'[t][a] = "deleted") /\ Stored(t) # {}
      <4>1. ~ Duplicated(j) /\ t \in Tasks /\ JobOf[t] = j
        BY <1>b, <3>1 DEF TasksOf
      <4>2. PICK a \in Attempts : row[t][a] = "visible"
        BY <1>a, <2>1, <2>2, <4>1 DEF Selected, AllRows
      <4>3. row'[t][a] = "deleted"
        BY <1>3, <2>2, <4>1, <4>2, DeleteRow
      <4> QED
        BY <4>2, <4>3 DEF Stored
    <3>2. Selected(j)'
      BY <1>b, <2>1, <3>1 DEF Selected, AllRows
    <3>3. EmptiedOK(j)'
      BY <1>b, <2>1, <2>2, <3>1 DEF EmptiedOK, Excused
    <3> QED
      BY <3>2, <3>3
  <2>3. CASE j \notin prune.ids
    <3>1. \A t \in TasksOf(j), a \in Attempts : row'[t][a] = row[t][a]
      BY <1>3, <2>3, DeleteRow DEF TasksOf
    <3>2. Emptied(j)' = Emptied(j)
      BY <1>b, <3>1 DEF Emptied
    <3>3. Excused(j) => Excused(j)'
      BY <1>b, <2>1 DEF Excused
    <3> QED
      BY <1>a, <1>b, <2>1, <2>3, <3>2, <3>3 DEF Selected, EmptiedOK
  <2> QED
    BY <2>2, <2>3
<1>4. ASSUME NEW k \in Jobs, SelectTotal(k) \/ SelectCount(k) \/ SelectPage(k)
      PROVE  Selected(j)' /\ EmptiedOK(j)'
  BY <1>1, <1>4 DEF SelectTotal, SelectCount, SelectPage, table
<1>5. ASSUME UNCHANGED <<row, interrupted>>, Excused(j) => Excused(j)', Selected(j)'
      PROVE  Selected(j)' /\ EmptiedOK(j)'
  <2>1. Emptied(j)' = Emptied(j)
    BY <1>5 DEF Emptied, TasksOf
  <2> QED
    BY <1>5, <1>a, <1>b, <2>1 DEF EmptiedOK
<1>6. CASE SelectOld
  <2>1. /\ prune.stage = "idle" /\ prune'.stage = "selected" /\ UNCHANGED <<row, ids, interrupted, jobs>>
        /\ j \in prune'.ids => total_records(j) = total_processed(j)
    BY <1>6 DEF SelectOld, Prunable, table
  <2>2. Selected(j)'
    <3>1. j \in prune'.ids /\ ~ Duplicated(j)' => AllRows(j, "visible")
      BY <1>b, <2>1, AllVisible
    <3>2. AllRows(j, "visible")' = AllRows(j, "visible")
      BY <1>b, <2>1 DEF AllRows
    <3> QED
      BY <2>1, <3>1, <3>2 DEF Selected
  <2>3. Excused(j) => Excused(j)'
    BY <1>b, <2>1 DEF Excused
  <2> QED
    BY <1>5, <2>1, <2>2, <2>3
<1>7. CASE DeleteJobs
  <2>1. /\ prune.stage = "emptied" /\ prune'.ids = {} /\ UNCHANGED <<row, interrupted>>
        /\ jobs' \in SUBSET jobs
        /\ \/ jobs' = jobs \ prune.ids
           \/ \E t \in Tasks, a \in Attempts : JobOf[t] \in prune.ids /\ row[t][a] = "visible"
    BY <1>7 DEF DeleteJobs, table
  <2>2. ASSUME NEW t \in Tasks, NEW a \in Attempts, JobOf[t] \in prune.ids, row[t][a] = "visible"
        PROVE  Duplicated(JobOf[t])
    <3> DEFINE k == JobOf[t]
    <3> SUFFICES ASSUME ~ Duplicated(k)
                 PROVE  FALSE
      OBVIOUS
    <3>1. k \in Jobs /\ t \in TasksOf(k)
      BY <1>c, <2>2 DEF TasksOf
    <3>2. PICK b \in Attempts : row[t][b] = "deleted"
      BY <1>a, <2>1, <2>2, <3>1 DEF Selected, AllRows
    <3>3. a = b
      <4> HIDE DEF k
      <4> QED
        BY <2>2, <3>1, <3>2, OneRow
    <3> QED
      BY <2>2, <3>2, <3>3
  <2>3. Selected(j)'
    BY <2>1 DEF Selected
  <2>4. Excused(j) => Excused(j)'
    <3>1. jobs' = jobs \ prune.ids \/ \E k \in Jobs : Duplicated(k)
      BY <1>c, <2>1, <2>2
    <3> QED
      BY <1>b, <2>1, <3>1 DEF Excused
  <2> QED
    BY <1>5, <2>1, <2>3, <2>4
<1>8. CASE PruneFails
  <2>1. /\ prune'.ids = {} /\ UNCHANGED <<row, jobs>> /\ interrupted' = interrupted \union prune.ids
    BY <1>8 DEF PruneFails, table
  <2>2. Emptied(j)' = Emptied(j)
    BY <2>1 DEF Emptied, TasksOf
  <2>3. Selected(j)' /\ (Excused(j) => Excused(j)')
    BY <1>b, <2>1 DEF Selected, Excused
  <2> QED
    BY <1>a, <1>b, <2>2, <2>3 DEF EmptiedOK
<1>9. ASSUME UNCHANGED <<row, ids, reader, prune, interrupted>>, NEW k \in Jobs, NEW n \in PortCounts, InsertJob(k, n)
      PROVE  Selected(j)' /\ EmptiedOK(j)'
  <2>1. post[k] = "new" /\ jobs' = jobs \union {k}
    BY <1>9 DEF InsertJob
  <2>2. ASSUME Emptied(j)
        PROVE  j # k
    <3>1. PICK t \in TasksOf(j), a \in Attempts : row[t][a] = "deleted"
      BY <2>2 DEF Emptied
    <3>2. a \in Stored(t)
      BY <3>1 DEF Stored
    <3> QED
      BY <2>1, <3>2 DEF MessageInv, TasksOf
  <2> QED
    BY <1>1, <1>9, <2>1, <2>2
<1> QED
  BY <1>1, <1>2, <1>3, <1>4, <1>6, <1>7, <1>8, <1>9, StepKinds

-----------------------------------------------------------------------------
(* The theorems.                                                           *)

\* Clients and prune_db keep the inductive invariant.
THEOREM Invariant == Spec => []IInv
<1>1. Init => IdsInv /\ ReaderInv /\ PruneInv
  BY DEF Init, IdsInv, ReaderInv, PruneInv, Emptied, TasksOf, Attempts
<1>2. QueueInv /\ IdsInv /\ ReaderInv /\ PruneInv /\ [Next]_vars
        => (IdsInv /\ ReaderInv /\ PruneInv)'
  <2> SUFFICES ASSUME QueueInv, IdsInv, ReaderInv, PruneInv, [Next]_vars
               PROVE  (IdsInv /\ ReaderInv /\ PruneInv)'
    OBVIOUS
  <2>1. TypeOK /\ MessageInv /\ ExecutionInv
    BY DEF QueueInv
  <2>2. \A j \in Jobs : ReaderOK(j)
    BY DEF ReaderInv, ReaderOK, Intact, HasBegun, ReadsInOrder
  <2>3. \A j \in Jobs : ReaderOK(j)'
    BY <2>1, <2>2, ReaderNext
  <2>4. ReaderInv'
    BY <2>3 DEF ReaderInv, ReaderOK, Intact, HasBegun, ReadsInOrder
  <2> QED
    BY <2>1, <2>4, IdsNext, PruneNext
<1>3. QueueInv /\ IdsInv /\ ReaderInv /\ PruneInv => IInv
  BY DEF QueueInv, IInv
<1> QED
  BY <1>1, <1>2, <1>3, QueueInvariant, PTL DEF Spec

\* A client that pages through a completed job reads each of its emails, exactly
\* as many rows as the job has tasks, unless rows are duplicated or pruned.
THEOREM ClientsReadAll == Spec => []PagesComplete
<1>1. IInv => PagesComplete
  <2> SUFFICES ASSUME IInv, NEW j \in Jobs, reader[j].stage = "done", Intact(j)
               PROVE  /\ Len(reader[j].got) = total_records(j)
                      /\ \A t \in TasksOf(j) : \E i \in DOMAIN reader[j].got : reader[j].got[i] = t
    BY DEF PagesComplete, Intact
  <2>1. TypeOK /\ IdsInv /\ ~ Duplicated(j)
    BY DEF IInv, Intact
  <2>2. ReadsInOrder(j) /\ Len(reader[j].got) = total_records(j)
    BY DEF IInv, ReaderInv, Intact, ReadsInOrder
  <2>3. ASSUME NEW t \in TasksOf(j)
        PROVE  \E i \in DOMAIN reader[j].got : reader[j].got[i] = t
    <3>1. PICK p \in Visible(j) : ids[p][1] = t
      BY <2>1, <2>2, RowsCount DEF ReadsInOrder
    <3>2. Rank(j, p) \in 1..total_records(j)
      BY <2>1, <2>2, RankOrder DEF ReadsInOrder
    <3>3. Rank(j, p) \in DOMAIN reader[j].got
      <4>1. reader[j].got \in Seq(Tasks)
        BY <2>1 DEF TypeOK
      <4> QED
        BY <2>2, <3>2, <4>1
    <3>4. PICK q \in Visible(j) : Rank(j, q) = Rank(j, p) /\ ids[q][1] = reader[j].got[Rank(j, p)]
      BY <2>2, <3>3 DEF ReadsInOrder
    <3>5. q = p
      BY <2>1, <3>4, RankOrder
    <3> QED
      BY <3>1, <3>3, <3>4, <3>5
  <2> QED
    BY <2>2, <2>3
<1> QED
  BY <1>1, Invariant, PTL

\* prune_db deletes results of finished jobs only, and leaves no job without its
\* results except when it fails or when rows are duplicated.
THEOREM PrunesFinishedJobs == Spec => []PrunedIsFinished
<1>1. IInv => PrunedIsFinished
  <2> SUFFICES ASSUME PruneInv, TypeOK
               PROVE  PrunedIsFinished
    BY DEF IInv
  <2> QED
    BY DEF PruneInv, PrunedIsFinished
<1> QED
  BY <1>1, Invariant, PTL
=============================================================================
