-------------------------- MODULE BulkQueueContract --------------------------
(***************************************************************************)
(* Proofs about the results of BulkQueue: what each fault can cost, that a *)
(* bad outcome is stored only after a second check, that a job that is     *)
(* reported as completed has all its results, and that each task keeps the *)
(* safety part of JobContract.  They rest on the inductive invariant IInv  *)
(* of BulkQueueProofs, to which they add ResultInv.                        *)
(***************************************************************************)
EXTENDS BulkQueueProofs

USE JobsAssumption, BackendsAssumption, BudgetAssumption

-----------------------------------------------------------------------------
(* Tasks that have not been published: AbsentInv.                          *)

LEMMA AbsentNext ==
  ASSUME TypeOK, HolderInv, AbsentInv, [Next]_vars
  PROVE  AbsentInv'
<1> USE DEF http, broker, work
<1>1. ASSUME UNCHANGED <<queue, rows, stage>>
      PROVE  AbsentInv'
  BY <1>1 DEF AbsentInv
<1>2. ASSUME NEW j \in Jobs, NEW b \in Backends, InsertJob(j, b)
      PROVE  AbsentInv'
  BY <1>1, <1>2 DEF InsertJob
<1>3. ASSUME NEW j \in Jobs, PublishFails(j) \/ Accept(j)
      PROVE  AbsentInv'
  BY <1>1, <1>3 DEF PublishFails, Accept
<1>4. ASSUME NEW t \in Tasks, Publish(t) \/ Enqueue(t) \/ HandleAck(t)
      PROVE  AbsentInv'
  BY <1>4 DEF Publish, Enqueue, HandleAck, AbsentInv, TypeOK
<1>5. ASSUME NEW b \in Backends, NEW t \in Tasks, Deliver(b, t) \/ ThrottleTask(b, t)
      PROVE  AbsentInv'
  <2>1. UNCHANGED <<rows, stage>>
    BY <1>5 DEF Deliver, ThrottleTask
  <2>2. \A u \in Tasks : queue'[u] = "absent" => queue[u] = "absent"
    BY <1>5 DEF Deliver, ThrottleTask, Requeue, TypeOK
  <2> QED
    BY <2>1, <2>2 DEF AbsentInv
<1>6. ASSUME NEW b \in Backends, NEW t \in Tasks, StartTask(b, t)
      PROVE  AbsentInv'
  BY <1>6 DEF StartTask, Buffered, AbsentInv, TypeOK
<1>7. ASSUME NEW b \in Backends, NEW t \in Tasks, NEW o \in Outcomes, Verify(b, t, o)
      PROVE  AbsentInv'
  BY <1>7 DEF Verify, AbsentInv, TypeOK
<1>8. ASSUME NEW b \in Backends, NEW t \in Tasks, RequeueTask(b, t)
      PROVE  AbsentInv'
  BY <1>8 DEF RequeueTask, Requeue, Finish, AbsentInv, TypeOK
<1>9. ASSUME NEW b \in Backends, NEW t \in Tasks, AckTask(b, t) \/ AckUnheard(b, t)
      PROVE  AbsentInv'
  <2>1. /\ rows' = rows /\ stage[b][t] = "checked"
        /\ stage' = [stage EXCEPT ![b][t] = "acked"]
    BY <1>9 DEF AckTask, AckUnheard
  <2>2. queue[t] # "absent"
    BY <2>1 DEF AbsentInv
  <2>3. \A u \in Tasks : queue'[u] = "absent" => queue[u] = "absent"
    BY <1>9 DEF AckTask, AckUnheard, TypeOK
  <2> QED
    BY <2>1, <2>2, <2>3 DEF AbsentInv, TypeOK
<1>10. ASSUME NEW b \in Backends, NEW t \in Tasks,
              SettleFails(b, t) \/ Store(b, t) \/ StoreFails(b, t)
       PROVE  AbsentInv'
  <2>1. /\ queue' = queue /\ stage[b][t] # "none"
        /\ stage' = [stage EXCEPT ![b][t] = "none"]
        /\ \A u \in Tasks : u # t => rows'[u] = rows[u]
    BY <1>10 DEF SettleFails, Store, StoreFails, Finish, TypeOK
  <2>2. queue[t] # "absent"
    BY <2>1 DEF AbsentInv
  <2> QED
    BY <2>1, <2>2 DEF AbsentInv, TypeOK
<1>11. ASSUME NEW b \in Backends, WakeUp(b) \/ Restart(b)
       PROVE  AbsentInv'
  BY <1>1, <1>11 DEF WakeUp, Restart
<1>12. ASSUME NEW b \in Backends, Disconnect(b) \/ Crash(b)
       PROVE  AbsentInv'
  <2>1. rows' = rows
    BY <1>12 DEF Disconnect, Crash
  <2>2. \A c \in Backends, u \in Tasks : stage[c][u] = "none" => stage'[c][u] = "none"
    <3>1. CASE Disconnect(b)
      BY <3>1 DEF Disconnect
    <3>2. CASE Crash(b)
      BY <3>2 DEF Crash, TypeOK
    <3> QED
      BY <1>12, <3>1, <3>2
  <2>3. \A u \in Tasks : queue'[u] = "absent" => queue[u] = "absent"
    <3>1. LoseConnection(b)
      BY <1>12 DEF Disconnect, Crash
    <3> QED
      BY <3>1 DEF LoseConnection, TypeOK
  <2> QED
    BY <2>1, <2>2, <2>3 DEF AbsentInv
<1>13. CASE RestartBroker
  BY <1>13 DEF RestartBroker, AbsentInv, TypeOK
<1>14. CASE UNCHANGED vars
  BY <1>1, <1>14 DEF vars
<1> HIDE DEF http, broker, work
<1> QED
  BY <1>2, <1>3, <1>4, <1>5, <1>6, <1>7, <1>8, <1>9, <1>10, <1>11, <1>12, <1>13,
     <1>14 DEF Next, Handle

-----------------------------------------------------------------------------
(* What a step does to the counters of adverse events.                     *)

\* No counter is reset.
LEMMA UsedGrows ==
  ASSUME TypeOK, [Next]_vars, NEW f \in AdverseEvents, used'[f] = 0
  PROVE  used[f] = 0
<1>1. ASSUME NEW g \in AdverseEvents, Happens(g)
      PROVE  used[f] = 0
  BY <1>1, used'[f] = 0 DEF Happens, TypeOK
<1>2. CASE UNCHANGED used
  BY <1>2
<1>3. ASSUME NEW j \in Jobs,
             (\E b \in Backends : InsertJob(j, b)) \/ PublishFails(j) \/ Accept(j)
      PROVE  UNCHANGED used
  BY <1>3 DEF InsertJob, PublishFails, Accept
<1>4. ASSUME NEW t \in Tasks, Publish(t) \/ Enqueue(t) \/ HandleAck(t)
      PROVE  UNCHANGED used
  BY <1>4 DEF Publish, Enqueue, HandleAck
<1>5. ASSUME NEW b \in Backends, NEW t \in Tasks, Deliver(b, t) \/ Handle(b, t)
      PROVE  UNCHANGED used
  BY <1>5 DEF Deliver, Handle, StartTask, Verify, RequeueTask, AckTask, SettleFails,
              AckUnheard, Store
<1>6. ASSUME NEW b \in Backends, NEW t \in Tasks, ThrottleTask(b, t) \/ StoreFails(b, t)
      PROVE  used[f] = 0
  BY <1>1, <1>6 DEF ThrottleTask, StoreFails, AdverseEvents
<1>7. ASSUME NEW b \in Backends, WakeUp(b) \/ Restart(b)
      PROVE  UNCHANGED used
  BY <1>7 DEF WakeUp, Restart
<1>8. ASSUME NEW b \in Backends, Disconnect(b) \/ Crash(b)
      PROVE  used[f] = 0
  BY <1>1, <1>8 DEF Disconnect, Crash, AdverseEvents
<1>9. CASE RestartBroker
  BY <1>1, <1>9 DEF RestartBroker, AdverseEvents
<1>10. CASE UNCHANGED vars
  BY <1>10 DEF vars
<1> QED
  BY <1>2, <1>3, <1>4, <1>5, <1>6, <1>7, <1>8, <1>9, <1>10 DEF Next

\* An event that happens has been counted.
LEMMA HappensCounts ==
  ASSUME TypeOK, NEW f \in AdverseEvents, Happens(f)
  PROVE  used'[f] # 0
  BY DEF Happens, TypeOK

LEMMA StoredRow ==
  ASSUME TypeOK, NEW b \in Backends, NEW t \in Tasks, Store(b, t)
  PROVE  rows'[t] # <<>>
<1>1. rows[t] \in Seq(Outcomes) /\ outcome[b][t] \in Outcomes
  BY DEF TypeOK
<1>2. rows'[t] = Append(rows[t], outcome[b][t])
  BY DEF Store, TypeOK
<1> QED
  BY <1>1, <1>2

-----------------------------------------------------------------------------
(* What is acknowledged and not stored: AcknowledgedInv.                   *)

\* What is kept of a task whose ack is in flight.
Kept(t) == queue[t] = "acking" =>
             rows[t] # <<>> \/ stage[holder[t]][t] = "acked" \/ used["storage"] > 0

LEMMA AcknowledgedNext ==
  ASSUME TypeOK, TypeOK', HolderInv, AcknowledgedInv, [Next]_vars
  PROVE  AcknowledgedInv'
<1> SUFFICES ASSUME NEW u \in Tasks
             PROVE  Kept(u)'
  BY DEF AcknowledgedInv, Kept
<1>1. Kept(u) /\ (queue[u] = "acking" => holder[u] \in Backends)
  BY DEF AcknowledgedInv, Kept, HolderInv, TypeOK
<1>2. used["storage"] > 0 => used'["storage"] > 0
  BY UsedGrows DEF TypeOK, AdverseEvents
<1> USE DEF http, broker, work
\* The message and its row stay as they are, and so does the execution that has
\* acknowledged it.
<1>3. ASSUME queue'[u] = "acking" => queue[u] = "acking" /\ holder'[u] = holder[u],
             rows'[u] = rows[u],
             \A b \in Backends : stage[b][u] = "acked" => stage'[b][u] = "acked"
      PROVE  Kept(u)'
  BY <1>1, <1>2, <1>3 DEF Kept
<1>4. ASSUME NEW j \in Jobs, NEW b \in Backends, InsertJob(j, b)
      PROVE  Kept(u)'
  BY <1>3, <1>4 DEF InsertJob
<1>5. ASSUME NEW j \in Jobs, PublishFails(j) \/ Accept(j)
      PROVE  Kept(u)'
  BY <1>3, <1>5 DEF PublishFails, Accept
<1>6. ASSUME NEW t \in Tasks, Publish(t) \/ Enqueue(t) \/ HandleAck(t)
      PROVE  Kept(u)'
  BY <1>3, <1>6 DEF Publish, Enqueue, HandleAck, TypeOK
<1>7. ASSUME NEW b \in Backends, NEW t \in Tasks, Deliver(b, t) \/ ThrottleTask(b, t)
      PROVE  Kept(u)'
  BY <1>3, <1>7 DEF Deliver, ThrottleTask, Requeue, TypeOK
<1>8. ASSUME NEW b \in Backends, NEW t \in Tasks, StartTask(b, t)
      PROVE  Kept(u)'
  BY <1>3, <1>8 DEF StartTask, Buffered, TypeOK
<1>9. ASSUME NEW b \in Backends, NEW t \in Tasks, NEW o \in Outcomes, Verify(b, t, o)
      PROVE  Kept(u)'
  BY <1>3, <1>9 DEF Verify, TypeOK
<1>10. ASSUME NEW b \in Backends, NEW t \in Tasks, RequeueTask(b, t)
       PROVE  Kept(u)'
  BY <1>3, <1>10 DEF RequeueTask, Requeue, Finish, TypeOK
<1>11. ASSUME NEW b \in Backends, NEW t \in Tasks, AckTask(b, t)
       PROVE  Kept(u)'
  <2>1. CASE u = t
    BY <1>11, <2>1 DEF AckTask, Kept, TypeOK
  <2>2. CASE u # t
    BY <1>3, <1>11, <2>2 DEF AckTask, TypeOK
  <2> QED
    BY <2>1, <2>2
<1>12. ASSUME NEW b \in Backends, NEW t \in Tasks, AckUnheard(b, t)
       PROVE  Kept(u)'
  BY <1>3, <1>12 DEF AckUnheard, TypeOK
<1>13. ASSUME NEW b \in Backends, NEW t \in Tasks, SettleFails(b, t)
       PROVE  Kept(u)'
  BY <1>3, <1>13 DEF SettleFails, Finish, TypeOK
<1>14. ASSUME NEW b \in Backends, NEW t \in Tasks, Store(b, t)
       PROVE  Kept(u)'
  <2>1. CASE u = t
    BY <1>14, <2>1, StoredRow DEF Kept
  <2>2. CASE u # t
    BY <1>3, <1>14, <2>2 DEF Store, Finish, TypeOK
  <2> QED
    BY <2>1, <2>2
<1>15. ASSUME NEW b \in Backends, WakeUp(b) \/ Restart(b)
       PROVE  Kept(u)'
  BY <1>3, <1>15 DEF WakeUp, Restart
<1>16. ASSUME NEW b \in Backends, Disconnect(b)
       PROVE  Kept(u)'
  BY <1>3, <1>16 DEF Disconnect, LoseConnection, TypeOK
<1>17. ASSUME NEW b \in Backends, Crash(b)
       PROVE  Kept(u)'
  <2>1. CASE queue'[u] = "acking"
    <3>1. queue[u] = "acking" /\ holder[u] # b /\ holder'[u] = holder[u] /\ rows' = rows
      BY <1>17, <2>1 DEF Crash, LoseConnection, Held, TypeOK
    <3>2. stage'[holder[u]][u] = stage[holder[u]][u]
      BY <1>1, <1>17, <3>1 DEF Crash, TypeOK
    <3> QED
      BY <1>1, <1>2, <3>1, <3>2 DEF Kept
  <2> QED
    BY <2>1 DEF Kept
<1>18. ASSUME NEW b \in Backends, NEW t \in Tasks, StoreFails(b, t)
       PROVE  Kept(u)'
  <2>1. used'["storage"] # 0
    BY <1>18, HappensCounts DEF StoreFails, AdverseEvents
  <2>2. used'["storage"] > 0
    BY <2>1 DEF TypeOK, AdverseEvents
  <2> QED
    BY <2>2 DEF Kept
<1>19. CASE RestartBroker
  BY <1>19 DEF RestartBroker, Kept, TypeOK
<1>20. CASE UNCHANGED vars
  BY <1>3, <1>20 DEF vars
<1> HIDE DEF http, broker, work
<1> QED
  BY <1>4, <1>5, <1>6, <1>7, <1>8, <1>9, <1>10, <1>11, <1>12, <1>13, <1>14, <1>15,
     <1>16, <1>17, <1>18, <1>19, <1>20 DEF Next, Handle

\* A step that leaves the message of a task and the execution that has acknowledged
\* it alone does not lose the task.
LEMMA StillThere ==
  ASSUME NEW u \in Tasks, ~ Lost(u), queue'[u] = "gone" => queue[u] = "gone", rows'[u] = rows[u],
         \A b \in Backends : stage[b][u] = "acked" => stage'[b][u] = "acked"
  PROVE  ~ Lost(u)'
  BY DEF Lost

LEMMA LossNext ==
  ASSUME TypeOK, HolderInv, AcknowledgedInv, [Next]_vars, NEW u \in Tasks, Lost(u)', ~ Lost(u)
  PROVE  \/ Occurs("broker")
         \/ queue[u] = "sent" /\ (Occurs("disconnect") \/ Occurs("crash"))
         \/ queue[u] = "gone" /\ (Occurs("crash") \/ Occurs("storage"))
         \/ queue[u] = "acking" /\ used["storage"] > 0
<1> DEFINE Cause == \/ Occurs("broker")
                    \/ queue[u] = "sent" /\ (Occurs("disconnect") \/ Occurs("crash"))
                    \/ queue[u] = "gone" /\ (Occurs("crash") \/ Occurs("storage"))
                    \/ queue[u] = "acking" /\ used["storage"] > 0
<1> USE DEF http, broker, work
<1>1. ASSUME NEW f \in AdverseEvents, Happens(f)
      PROVE  Occurs(f)
  BY <1>1 DEF Happens, Occurs, TypeOK
<1>2. ASSUME NEW j \in Jobs,
             (\E b \in Backends : InsertJob(j, b)) \/ PublishFails(j) \/ Accept(j)
      PROVE  FALSE
  BY <1>2, StillThere DEF InsertJob, PublishFails, Accept
<1>3. ASSUME NEW t \in Tasks, Publish(t) \/ Enqueue(t)
      PROVE  FALSE
  BY <1>3, StillThere DEF Publish, Enqueue, TypeOK
<1>4. ASSUME NEW t \in Tasks, HandleAck(t)
      PROVE  Cause
  <2>1. CASE u = t
    <3>1. queue[u] = "acking" /\ rows[u] = <<>> /\ stage' = stage /\ holder[u] \in Backends
      BY <1>4, <2>1 DEF HandleAck, Lost, HolderInv, TypeOK
    <3>2. stage[holder[u]][u] # "acked"
      BY <3>1 DEF Lost
    <3> QED
      BY <3>1, <3>2 DEF AcknowledgedInv
  <2>2. CASE u # t
    BY <1>4, <2>2, StillThere DEF HandleAck, TypeOK
  <2> QED
    BY <2>1, <2>2
<1>5. ASSUME NEW b \in Backends, NEW t \in Tasks, Deliver(b, t) \/ ThrottleTask(b, t)
      PROVE  FALSE
  <2>1. UNCHANGED <<rows, stage>>
    BY <1>5 DEF Deliver, ThrottleTask
  <2>2. queue'[u] = "gone" => queue[u] = "gone"
    BY <1>5 DEF Deliver, ThrottleTask, Requeue, TypeOK
  <2> QED
    BY <2>1, <2>2, StillThere
<1>6. ASSUME NEW b \in Backends, NEW t \in Tasks,
             StartTask(b, t) \/ AckTask(b, t) \/ AckUnheard(b, t)
      PROVE  FALSE
  <2>1. \A c \in Backends : stage[c][u] = "acked" => stage'[c][u] = "acked"
    <3>1. CASE StartTask(b, t)
      BY <3>1 DEF StartTask, Buffered, TypeOK
    <3>2. CASE AckTask(b, t) \/ AckUnheard(b, t)
      <4>1. stage' = [stage EXCEPT ![b][t] = "acked"]
        BY <3>2 DEF AckTask, AckUnheard
      <4> QED
        BY <4>1 DEF TypeOK
    <3> QED
      BY <1>6, <3>1, <3>2
  <2>2. rows' = rows /\ (queue'[u] = "gone" => queue[u] = "gone")
    BY <1>6 DEF StartTask, AckTask, AckUnheard, TypeOK
  <2> QED
    BY <2>1, <2>2, StillThere
<1>7. ASSUME NEW b \in Backends, NEW t \in Tasks, NEW o \in Outcomes, Verify(b, t, o)
      PROVE  FALSE
  BY <1>7, StillThere DEF Verify, TypeOK
<1>8. ASSUME NEW b \in Backends, NEW t \in Tasks, RequeueTask(b, t) \/ SettleFails(b, t)
      PROVE  FALSE
  <2>1. stage[b][t] = "checked" /\ Finish(b, t)
    BY <1>8 DEF RequeueTask, SettleFails
  <2>2. \A c \in Backends : stage[c][u] = "acked" => stage'[c][u] = "acked"
    BY <2>1 DEF Finish, TypeOK
  <2>3. rows' = rows /\ (queue'[u] = "gone" => queue[u] = "gone")
    BY <1>8 DEF RequeueTask, Requeue, SettleFails
  <2> QED
    BY <2>2, <2>3, StillThere
<1>9. ASSUME NEW b \in Backends, NEW t \in Tasks, Store(b, t)
      PROVE  FALSE
  <2>1. CASE u = t
    BY <1>9, <2>1, StoredRow DEF Lost
  <2>2. CASE u # t
    <3>1. queue' = queue /\ rows'[u] = rows[u]
      BY <1>9, <2>2 DEF Store, TypeOK
    <3>2. \A c \in Backends : stage'[c][u] = stage[c][u]
      BY <1>9, <2>2 DEF Store, Finish, TypeOK
    <3> QED
      BY <3>1, <3>2, StillThere
  <2> QED
    BY <2>1, <2>2
<1>10. ASSUME NEW b \in Backends, NEW t \in Tasks, StoreFails(b, t)
       PROVE  Cause
  <2>1. Occurs("storage") /\ queue' = queue
    BY <1>1, <1>10 DEF StoreFails, AdverseEvents
  <2> QED
    BY <2>1 DEF Lost
<1>11. ASSUME NEW b \in Backends, WakeUp(b) \/ Restart(b)
       PROVE  FALSE
  BY <1>11, StillThere DEF WakeUp, Restart
<1>12. ASSUME NEW b \in Backends, Disconnect(b)
       PROVE  Cause
  <2>1. Occurs("disconnect")
    BY <1>1, <1>12 DEF Disconnect, AdverseEvents
  <2>2. queue'[u] = "gone" => queue[u] \in {"sent", "gone"}
    BY <1>12 DEF Disconnect, LoseConnection, TypeOK
  <2>3. queue[u] # "gone"
    BY <1>12, StillThere DEF Disconnect
  <2> QED
    BY <2>1, <2>2, <2>3 DEF Lost
<1>13. ASSUME NEW b \in Backends, Crash(b)
       PROVE  Cause
  <2>1. Occurs("crash")
    BY <1>1, <1>13 DEF Crash, AdverseEvents
  <2>2. queue'[u] = "gone" => queue[u] \in {"sent", "gone"}
    BY <1>13 DEF Crash, LoseConnection, TypeOK
  <2> QED
    BY <2>1, <2>2 DEF Lost
<1>14. CASE RestartBroker
  BY <1>1, <1>14 DEF RestartBroker, AdverseEvents
<1>15. CASE UNCHANGED vars
  BY <1>15, StillThere DEF vars
<1> HIDE DEF http, broker, work
<1> QED
  BY <1>2, <1>3, <1>4, <1>5, <1>6, <1>7, <1>8, <1>9, <1>10, <1>11, <1>12, <1>13,
     <1>14, <1>15 DEF Next, Handle

-----------------------------------------------------------------------------
(* Bad outcomes are stored after a second check: FlagInv, RetryInv.        *)

LEMMA FlagFrame ==
  ASSUME FlagInv, UNCHANGED <<redelivered, stage, flagged, outcome>>
  PROVE  FlagInv'
  BY DEF FlagInv

\* The execution of t on b has ended, the others and the flags go on.
LEMMA FlagFinish ==
  ASSUME TypeOK, FlagInv, NEW b \in Backends, NEW t \in Tasks, Finish(b, t),
         \A u \in Tasks : redelivered[u] => redelivered'[u]
  PROVE  FlagInv'
  BY DEF Finish, FlagInv, TypeOK

LEMMA FlagNext ==
  ASSUME TypeOK, FlagInv, [Next]_vars
  PROVE  FlagInv'
<1> USE DEF http, broker, work
<1>1. ASSUME NEW j \in Jobs, NEW b \in Backends, InsertJob(j, b)
      PROVE  FlagInv'
  BY <1>1, FlagFrame DEF InsertJob
<1>2. ASSUME NEW j \in Jobs, PublishFails(j) \/ Accept(j)
      PROVE  FlagInv'
  BY <1>2, FlagFrame DEF PublishFails, Accept
<1>3. ASSUME NEW t \in Tasks, Publish(t) \/ Enqueue(t) \/ HandleAck(t)
      PROVE  FlagInv'
  BY <1>3, FlagFrame DEF Publish, Enqueue, HandleAck
<1>4. ASSUME NEW b \in Backends, NEW t \in Tasks, Deliver(b, t)
      PROVE  FlagInv'
  BY <1>4, FlagFrame DEF Deliver
<1>5. ASSUME NEW b \in Backends, NEW t \in Tasks, ThrottleTask(b, t)
      PROVE  FlagInv'
  <2>1. UNCHANGED work /\ \A u \in Tasks : redelivered[u] => redelivered'[u]
    BY <1>5 DEF ThrottleTask, Requeue
  <2> QED
    BY <2>1 DEF FlagInv
<1>6. ASSUME NEW b \in Backends, NEW t \in Tasks, StartTask(b, t)
      PROVE  FlagInv'
  <2>1. /\ UNCHANGED <<redelivered, outcome>>
        /\ stage' = [stage EXCEPT ![b][t] = "running"]
        /\ flagged' = [flagged EXCEPT ![b][t] = redelivered[t]]
    BY <1>6 DEF StartTask
  <2>2. ASSUME NEW c \in Backends, NEW u \in Tasks, ~ (c = b /\ u = t)
        PROVE  stage'[c][u] = stage[c][u] /\ flagged'[c][u] = flagged[c][u]
    BY <2>1, <2>2 DEF TypeOK
  <2>3. stage'[b][t] = "running" /\ flagged'[b][t] = redelivered[t]
    BY <2>1 DEF TypeOK
  <2>4. ASSUME NEW c \in Backends, NEW u \in Tasks
        PROVE  /\ flagged'[c][u] => redelivered[u]
               /\ stage'[c][u] = "acked" /\ outcome[c][u] \in {"unknown", "error"}
                    => flagged'[c][u]
    <3>1. CASE c = b /\ u = t
      BY <2>3, <3>1, Zenon
    <3>2. CASE ~ (c = b /\ u = t)
      BY <2>2, <3>2, Zenon DEF FlagInv
    <3> QED
      BY <3>1, <3>2
  <2> QED
    BY <2>1, <2>4 DEF FlagInv
<1>7. ASSUME NEW b \in Backends, NEW t \in Tasks, NEW o \in Outcomes, Verify(b, t, o)
      PROVE  FlagInv'
  BY <1>7 DEF Verify, FlagInv, TypeOK
<1>8. ASSUME NEW b \in Backends, NEW t \in Tasks, RequeueTask(b, t)
      PROVE  FlagInv'
  BY <1>8, FlagFinish DEF RequeueTask, Requeue
<1>9. ASSUME NEW b \in Backends, NEW t \in Tasks, AckTask(b, t) \/ AckUnheard(b, t)
      PROVE  FlagInv'
  <2>1. /\ UNCHANGED <<redelivered, flagged, outcome>>
        /\ outcome[b][t] \in {"unknown", "error"} => flagged[b][t]
        /\ stage' = [stage EXCEPT ![b][t] = "acked"]
    BY <1>9 DEF AckTask, AckUnheard, WantsRequeue
  <2> QED
    BY <2>1 DEF FlagInv, TypeOK
<1>10. ASSUME NEW b \in Backends, NEW t \in Tasks,
              SettleFails(b, t) \/ Store(b, t) \/ StoreFails(b, t)
       PROVE  FlagInv'
  BY <1>10, FlagFinish DEF SettleFails, Store, StoreFails
<1>11. ASSUME NEW b \in Backends, WakeUp(b) \/ Restart(b)
       PROVE  FlagInv'
  BY <1>11, FlagFrame DEF WakeUp, Restart
<1>12. ASSUME NEW b \in Backends, Disconnect(b)
       PROVE  FlagInv'
  BY <1>12 DEF Disconnect, LoseConnection, FlagInv
<1>13. ASSUME NEW b \in Backends, Crash(b)
       PROVE  FlagInv'
  BY <1>13 DEF Crash, LoseConnection, FlagInv, TypeOK
<1>14. CASE RestartBroker
  BY <1>14, FlagFrame DEF RestartBroker
<1>15. CASE UNCHANGED vars
  BY <1>15, FlagFrame DEF vars
<1> HIDE DEF http, broker, work
<1> QED
  BY <1>1, <1>2, <1>3, <1>4, <1>5, <1>6, <1>7, <1>8, <1>9, <1>10, <1>11, <1>12,
     <1>13, <1>14, <1>15 DEF Next, Handle

\* The flag of t and its bad outcomes are accounted for.
Retried(t) ==
  /\ redelivered[t] => requeued[t] = 1
  /\ \A i \in DOMAIN rows[t] : rows[t][i] \in {"unknown", "error"} => requeued[t] = 1

LEMMA RetryNext ==
  ASSUME TypeOK, RequeueInv, FlagInv, RetryInv, [Next]_vars, TypeOK', RequeueInv'
  PROVE  RetryInv'
<1> SUFFICES ASSUME \A f \in Disturbances : used'[f] = 0, NEW u \in Tasks
             PROVE  Retried(u)'
  BY DEF RetryInv, Retried
<1>1. Retried(u)
  <2>1. \A f \in Disturbances : used[f] = 0
    BY UsedGrows DEF Disturbances, AdverseEvents
  <2> QED
    BY <2>1 DEF RetryInv, Retried
<1>2. ASSUME NEW f \in Disturbances
      PROVE  ~ Happens(f)
  BY HappensCounts DEF Disturbances, AdverseEvents
<1> USE DEF http, broker, work
<1>3. ASSUME UNCHANGED <<redelivered, rows, requeued>>
      PROVE  Retried(u)'
  BY <1>1, <1>3 DEF Retried
<1>4. ASSUME NEW j \in Jobs, NEW b \in Backends, InsertJob(j, b)
      PROVE  Retried(u)'
  BY <1>3, <1>4 DEF InsertJob
<1>5. ASSUME NEW j \in Jobs, PublishFails(j) \/ Accept(j)
      PROVE  Retried(u)'
  BY <1>3, <1>5 DEF PublishFails, Accept
<1>6. ASSUME NEW t \in Tasks, Publish(t) \/ Enqueue(t) \/ HandleAck(t)
      PROVE  Retried(u)'
  BY <1>3, <1>6 DEF Publish, Enqueue, HandleAck
<1>7. ASSUME NEW b \in Backends, NEW t \in Tasks,
             \/ Deliver(b, t) \/ StartTask(b, t) \/ AckTask(b, t) \/ SettleFails(b, t)
             \/ AckUnheard(b, t) \/ StoreFails(b, t) \/ \E o \in Outcomes : Verify(b, t, o)
      PROVE  Retried(u)'
  BY <1>3, <1>7 DEF Deliver, StartTask, AckTask, SettleFails, AckUnheard, StoreFails, Verify
<1>8. ASSUME NEW b \in Backends, NEW t \in Tasks, RequeueTask(b, t)
      PROVE  Retried(u)'
  <2>1. /\ rows' = rows
        /\ redelivered' = [v \in Tasks |-> redelivered[v] \/ v \in {t}]
        /\ requeued' = [requeued EXCEPT ![t] = @ + 1]
    BY <1>8 DEF RequeueTask, Requeue
  <2>2. CASE u = t
    <3>1. requeued[t] \in Nat /\ requeued'[t] <= 1
      BY DEF TypeOK, RequeueInv
    <3>2. requeued'[t] = 1
      BY <2>1, <3>1 DEF TypeOK
    <3> QED
      BY <2>1, <2>2, <3>2 DEF Retried
  <2>3. CASE u # t
    <3>1. requeued'[u] = requeued[u] /\ (redelivered'[u] <=> redelivered[u])
      BY <2>1, <2>3 DEF TypeOK
    <3> QED
      BY <1>1, <2>1, <3>1 DEF Retried
  <2> QED
    BY <2>2, <2>3
<1>9. ASSUME NEW b \in Backends, NEW t \in Tasks, Store(b, t)
      PROVE  Retried(u)'
  <2>1. /\ UNCHANGED <<redelivered, requeued>>
        /\ rows' = [rows EXCEPT ![t] = Append(@, outcome[b][t])]
        /\ stage[b][t] = "acked"
    BY <1>9 DEF Store
  <2>2. CASE u = t
    <3>1. outcome[b][t] \in {"unknown", "error"} => requeued[t] = 1
      BY <1>1, <2>1, <2>2 DEF FlagInv, Retried
    <3>2. rows[t] \in Seq(Outcomes) /\ outcome[b][t] \in Outcomes
      BY DEF TypeOK
    <3>3. rows'[t] = Append(rows[t], outcome[b][t])
      BY <2>1 DEF TypeOK
    <3>4. ASSUME NEW i \in DOMAIN rows'[t], rows'[t][i] \in {"unknown", "error"}
          PROVE  requeued[t] = 1
      <4>1. CASE i \in DOMAIN rows[t]
        BY <1>1, <2>2, <3>2, <3>3, <3>4, <4>1 DEF Retried
      <4>2. CASE i \notin DOMAIN rows[t]
        BY <3>1, <3>2, <3>3, <3>4, <4>2
      <4> QED
        BY <4>1, <4>2
    <3> QED
      BY <1>1, <2>1, <2>2, <3>4 DEF Retried
  <2>3. CASE u # t
    BY <1>1, <2>1, <2>3 DEF Retried, TypeOK
  <2> QED
    BY <2>2, <2>3
<1>10. ASSUME NEW b \in Backends, WakeUp(b) \/ Restart(b)
       PROVE  Retried(u)'
  BY <1>3, <1>10 DEF WakeUp, Restart
<1>11. ASSUME \/ \E b \in Backends : Disconnect(b) \/ Crash(b)
              \/ \E b \in Backends, t \in Tasks : ThrottleTask(b, t)
              \/ RestartBroker
       PROVE  FALSE
  BY <1>2, <1>11 DEF Disconnect, Crash, ThrottleTask, RestartBroker, Disturbances
<1>12. CASE UNCHANGED vars
  BY <1>3, <1>12 DEF vars
<1> HIDE DEF http, broker, work
<1> QED
  BY <1>4, <1>5, <1>6, <1>7, <1>8, <1>9, <1>10, <1>11, <1>12 DEF Next, Handle

-----------------------------------------------------------------------------
(* The inductive invariant and what it implies.                            *)

LEMMA ResultInit == Init => ResultInv
<1> SUFFICES ASSUME Init
             PROVE  ResultInv
  OBVIOUS
<1>1. AbsentInv /\ AcknowledgedInv
  BY DEF Init, AbsentInv, AcknowledgedInv
<1>2. FlagInv /\ RetryInv
  BY DEF Init, FlagInv, RetryInv
<1> QED
  BY <1>1, <1>2 DEF ResultInv

LEMMA ResultNext == IInv /\ IInv' /\ ResultInv /\ [Next]_vars => ResultInv'
<1> SUFFICES ASSUME IInv, IInv', ResultInv, [Next]_vars
             PROVE  ResultInv'
  OBVIOUS
<1>1. TypeOK /\ HolderInv /\ RequeueInv /\ TypeOK' /\ RequeueInv'
  BY DEF IInv
<1>2. AbsentInv' /\ AcknowledgedInv' /\ FlagInv' /\ RetryInv'
  BY <1>1, AbsentNext, AcknowledgedNext, FlagNext, RetryNext DEF ResultInv
<1> QED
  BY <1>2 DEF ResultInv

\* What is known of published, acknowledged and stored tasks holds in every state.
THEOREM Results == Spec => []ResultInv
  BY Invariant, ResultInit, ResultNext, PTL DEF Spec

\* What each fault can cost: a task that the queue or a worker has survives crashes,
\* lost connections and failed INSERTs, although it is acknowledged before its row
\* is stored.
THEOREM FaultsLoseLittle == Spec => OnlyFaultsLose
<1>1. IInv /\ ResultInv /\ [Next]_vars =>
        [\A t \in Tasks : Lost(t)' /\ ~ Lost(t) =>
           \/ Occurs("broker")
           \/ queue[t] = "sent" /\ (Occurs("disconnect") \/ Occurs("crash"))
           \/ queue[t] = "gone" /\ (Occurs("crash") \/ Occurs("storage"))
           \/ queue[t] = "acking" /\ used["storage"] > 0]_vars
  BY LossNext DEF IInv, ResultInv
<1> QED
  BY <1>1, Invariant, Results, PTL DEF Spec, OnlyFaultsLose

LEMMA ZeroSum ==
  ASSUME NEW a \in Nat, NEW b \in Nat, NEW c \in Nat, NEW d \in Nat, a + b + c + d = 0
  PROVE  a = 0 /\ b = 0 /\ c = 0 /\ d = 0
  OBVIOUS

\* As long as only outcomes put tasks back, an unknown result or an error is stored
\* only by a second check: UnknownIsRetried.
THEOREM BadOutcomesAreRetried == Spec => []UnknownIsRetried
<1>1. IInv /\ ResultInv => UnknownIsRetried
  <2> SUFFICES ASSUME TypeOK, RetryInv,
                      used["throttle"] + used["crash"] + used["disconnect"] + used["broker"] = 0
               PROVE  \A f \in Disturbances : used[f] = 0
    BY DEF IInv, ResultInv, RetryInv, UnknownIsRetried
  <2>1. /\ used["throttle"] \in Nat /\ used["crash"] \in Nat
        /\ used["disconnect"] \in Nat /\ used["broker"] \in Nat
    BY DEF TypeOK, AdverseEvents
  <2>2. /\ used["throttle"] = 0 /\ used["crash"] = 0
        /\ used["disconnect"] = 0 /\ used["broker"] = 0
    BY <2>1, ZeroSum, Zenon
  <2> QED
    BY <2>2 DEF Disturbances
<1> QED
  BY <1>1, Invariant, Results, PTL

\* With at most one row for each task, as many rows as tasks leave no task out.
LEMMA EveryTaskCounted ==
  ASSUME NEW j \in Jobs, \A t \in Tasks : rows[t] \in Seq(Outcomes) /\ Len(rows[t]) <= 1,
         Completed(j), NEW u \in TasksOf(j)
  PROVE  rows[u] # <<>>
<1> SUFFICES ASSUME rows[u] = <<>>
             PROVE  FALSE
  OBVIOUS
<1> DEFINE Others == TasksOf(j) \ {u}
<1>1. IsFiniteSet(TasksOf(j)) /\ Cardinality(TasksOf(j)) \in Nat
  BY TaskSetsFinite DEF TasksOf
<1>2. IsFiniteSet(Others) /\ Cardinality(Others) = Cardinality(TasksOf(j)) - 1
  BY <1>1, FS_RemoveElement
<1>3. RowsOf(j) \subseteq Others \X {1}
  <2>1. ASSUME NEW r \in RowsOf(j)
        PROVE  r \in Others \X {1}
    <3>1. PICK t \in TasksOf(j) : r \in {t} \X DOMAIN rows[t]
      BY DEF RowsOf
    <3>2. t \in Tasks /\ DOMAIN rows[t] = 1..Len(rows[t]) /\ Len(rows[t]) \in Nat
      BY <3>1 DEF TasksOf
    <3>3. PICK i \in 1..Len(rows[t]) : r = <<t, i>>
      BY <3>1, <3>2
    <3>4. i = 1 /\ rows[t] # <<>>
      <4>1. Len(rows[t]) <= 1
        BY <3>2
      <4> QED
        BY <3>2, <3>3, <4>1
    <3>5. t \in Others
      BY <3>1, <3>4
    <3> QED
      BY <3>3, <3>4, <3>5
  <2> QED
    BY <2>1
<1>4. IsFiniteSet(Others \X {1}) /\ Cardinality(Others \X {1}) = Cardinality(Others)
  <2>1. IsFiniteSet({1}) /\ Cardinality({1}) = 1
    BY FS_Singleton
  <2>2. /\ IsFiniteSet(Others \X {1})
        /\ Cardinality(Others \X {1}) = Cardinality(Others) * Cardinality({1})
    BY <1>2, <2>1, FS_Product
  <2>3. Cardinality(Others) \in Int
    BY <1>1, <1>2
  <2> HIDE DEF Others
  <2> QED
    BY <2>1, <2>2, <2>3
<1>5. Cardinality(RowsOf(j)) <= Cardinality(Others \X {1}) /\ Cardinality(RowsOf(j)) \in Nat
  BY <1>3, <1>4, FS_Subset, FS_CardinalityType
<1>6. Cardinality(RowsOf(j)) >= Cardinality(TasksOf(j))
  BY DEF Completed
<1> HIDE DEF Others
<1> QED
  BY <1>1, <1>2, <1>4, <1>5, <1>6

\* As long as rows cannot be duplicated, a job that get_progress reports as completed
\* has a result for every one of its emails: CompletedMeansAll.
THEOREM CompletedJobsAreWhole == Spec => []CompletedMeansAll
<1>1. TypeOK /\ RowsBound => CompletedMeansAll
  <2> SUFFICES ASSUME TypeOK, RowsBound, used["crash"] + used["disconnect"] = 0
               PROVE  \A t \in Tasks : rows[t] \in Seq(Outcomes) /\ Len(rows[t]) <= 1
    BY EveryTaskCounted DEF CompletedMeansAll
  <2>1. used["crash"] = 0 /\ used["disconnect"] = 0
    BY DEF TypeOK, AdverseEvents
  <2> QED
    BY <2>1 DEF TypeOK, RowsBound
<1> QED
  BY <1>1, TypeCorrect, RowsAreBounded, PTL

-----------------------------------------------------------------------------
(* The contract of a bulk verification: every step submits or finishes one *)
(* task, loses some, or leaves the states of all tasks alone.              *)

StateOf(t) == TaskState[t]

\* Nothing of t is left: the abstract state of a task without a row.
Abandoned(t) == queue[t] = "gone" /\ \A b \in Backends : stage[b][t] = "none"

LEMMA StateCases ==
  ASSUME NEW t \in Tasks
  PROVE  StateOf(t) = IF queue[t] = "absent" THEN "absent"
                      ELSE IF rows[t] # <<>> THEN "done"
                      ELSE IF Abandoned(t) THEN "lost" ELSE "pending"
<1>1. Lost(t) /\ (\A b \in Backends : stage[b][t] = "none")
        <=> rows[t] = <<>> /\ Abandoned(t)
  BY DEF Lost, Abandoned
<1> QED
  BY <1>1 DEF StateOf, TaskState

\* What a step that neither publishes nor stores t may do to its state.
Settles(t) ==
  \/ StateOf(t)' = StateOf(t)
  \/ StateOf(t) = "pending" /\ StateOf(t)' = "lost"

LEMMA SettlesIf ==
  ASSUME NEW t \in Tasks, rows'[t] = rows[t],
         queue'[t] = "absent" <=> queue[t] = "absent",
         rows[t] = <<>> /\ Abandoned(t) => Abandoned(t)'
  PROVE  Settles(t)
<1>1. StateOf(t)' = IF queue'[t] = "absent" THEN "absent"
                    ELSE IF rows'[t] # <<>> THEN "done"
                    ELSE IF Abandoned(t)' THEN "lost" ELSE "pending"
  <2>1. Lost(t)' /\ (\A b \in Backends : stage'[b][t] = "none")
          <=> rows'[t] = <<>> /\ Abandoned(t)'
    BY DEF Lost, Abandoned
  <2> QED
    BY <2>1 DEF StateOf, TaskState
<1> QED
  BY <1>1, StateCases DEF Settles

\* The step that stores a result of t, on some backend.
Stores(t) == \E b \in Backends : Store(b, t)

LEMMA StateNext ==
  ASSUME TypeOK, HolderInv, [Next]_vars, NEW u \in Tasks, ~ Publish(u), ~ Stores(u)
  PROVE  Settles(u)
<1> USE DEF http, broker, work
<1>1. ASSUME UNCHANGED <<queue, rows, stage>>
      PROVE  Settles(u)
  BY <1>1, SettlesIf DEF Abandoned
<1>2. ASSUME NEW j \in Jobs, NEW b \in Backends, InsertJob(j, b)
      PROVE  Settles(u)
  BY <1>1, <1>2 DEF InsertJob
<1>3. ASSUME NEW j \in Jobs, PublishFails(j) \/ Accept(j)
      PROVE  Settles(u)
  BY <1>1, <1>3 DEF PublishFails, Accept
<1>4. ASSUME NEW t \in Tasks, Publish(t)
      PROVE  Settles(u)
  BY <1>4, SettlesIf DEF Publish, Abandoned, TypeOK
<1>5. ASSUME NEW t \in Tasks, Enqueue(t) \/ HandleAck(t)
      PROVE  Settles(u)
  BY <1>5, SettlesIf DEF Enqueue, HandleAck, Abandoned, TypeOK
<1>6. ASSUME NEW b \in Backends, NEW t \in Tasks, Deliver(b, t)
      PROVE  Settles(u)
  BY <1>6, SettlesIf DEF Deliver, Abandoned, TypeOK
<1>7. ASSUME NEW b \in Backends, NEW t \in Tasks, ThrottleTask(b, t)
      PROVE  Settles(u)
  BY <1>7, SettlesIf DEF ThrottleTask, Buffered, Requeue, Abandoned, TypeOK
<1>8. ASSUME NEW b \in Backends, NEW t \in Tasks, StartTask(b, t)
      PROVE  Settles(u)
  BY <1>8, SettlesIf DEF StartTask, Buffered, Abandoned, TypeOK
<1>9. ASSUME NEW b \in Backends, NEW t \in Tasks, NEW o \in Outcomes, Verify(b, t, o)
      PROVE  Settles(u)
  BY <1>9, SettlesIf DEF Verify, Abandoned, TypeOK
<1>10. ASSUME NEW b \in Backends, NEW t \in Tasks, RequeueTask(b, t)
       PROVE  Settles(u)
  BY <1>10, SettlesIf DEF RequeueTask, Requeue, Finish, HolderInv, Abandoned, TypeOK
<1>11. ASSUME NEW b \in Backends, NEW t \in Tasks, AckTask(b, t)
       PROVE  Settles(u)
  BY <1>11, SettlesIf DEF AckTask, HolderInv, Abandoned, TypeOK
<1>12. ASSUME NEW b \in Backends, NEW t \in Tasks, AckUnheard(b, t)
       PROVE  Settles(u)
  BY <1>12, SettlesIf DEF AckUnheard, Abandoned, TypeOK
<1>13. ASSUME NEW b \in Backends, NEW t \in Tasks,
              SettleFails(b, t) \/ StoreFails(b, t) \/ Store(b, t)
       PROVE  Settles(u)
  <2>1. queue' = queue /\ stage' = [stage EXCEPT ![b][t] = "none"]
    BY <1>13 DEF SettleFails, StoreFails, Store, Finish
  <2>2. rows'[u] = rows[u]
    BY <1>13 DEF SettleFails, StoreFails, Store, Stores, TypeOK
  <2>3. Abandoned(u) => Abandoned(u)'
    BY <2>1 DEF Abandoned, TypeOK
  <2> QED
    BY <2>1, <2>2, <2>3, SettlesIf
<1>14. ASSUME NEW b \in Backends, WakeUp(b) \/ Restart(b)
       PROVE  Settles(u)
  BY <1>1, <1>14 DEF WakeUp, Restart
<1>15. ASSUME NEW b \in Backends, Disconnect(b) \/ Crash(b)
       PROVE  Settles(u)
  <2>1. LoseConnection(b) /\ rows' = rows
    BY <1>15 DEF Disconnect, Crash
  <2>2. \A c \in Backends : stage[c][u] = "none" => stage'[c][u] = "none"
    <3>1. CASE Disconnect(b)
      BY <3>1 DEF Disconnect
    <3>2. CASE Crash(b)
      BY <3>2 DEF Crash, TypeOK
    <3> QED
      BY <1>15, <3>1, <3>2
  <2>3. queue[u] = "gone" => u \notin Held(b)
    BY DEF HolderInv, Held
  <2>4. /\ queue'[u] = "absent" <=> queue[u] = "absent"
        /\ queue[u] = "gone" => queue'[u] = "gone"
    BY <2>1, <2>3 DEF LoseConnection, HolderInv, Held
  <2> QED
    BY <2>1, <2>2, <2>4, SettlesIf DEF Abandoned
<1>16. CASE RestartBroker
  <2>1. /\ UNCHANGED <<rows, stage>>
        /\ queue'[u] = IF queue[u] = "absent" THEN "absent" ELSE "gone"
    BY <1>16 DEF RestartBroker
  <2> QED
    BY <2>1, SettlesIf DEF Abandoned
<1>17. CASE UNCHANGED vars
  BY <1>1, <1>17 DEF vars
<1> HIDE DEF http, broker, work
<1> QED
  BY <1>2, <1>3, <1>4, <1>5, <1>6, <1>7, <1>8, <1>9, <1>10, <1>11, <1>12, <1>13,
     <1>14, <1>15, <1>16, <1>17 DEF Next, Handle

\* A publication submits its task.
LEMMA PublishSubmits ==
  ASSUME TypeOK, AbsentInv, NEW t \in Tasks, Publish(t)
  PROVE  StateOf(t) = "absent" /\ StateOf(t)' = "pending"
<1>1. queue[t] = "absent" /\ queue'[t] = "sent" /\ UNCHANGED rows
  BY DEF Publish, TypeOK
<1>2. rows'[t] = <<>>
  BY <1>1 DEF AbsentInv
<1>3. ~ Lost(t)'
  BY <1>1 DEF Lost
<1> QED
  BY <1>1, <1>2, <1>3, StateCases DEF StateOf, TaskState

\* The first row of a task finishes it, another one changes nothing.
LEMMA StoreFinishes ==
  ASSUME TypeOK, AbsentInv, NEW t \in Tasks, Stores(t)
  PROVE  StateOf(t) \in {"pending", "done"} /\ StateOf(t)' = "done"
<1> PICK b \in Backends : Store(b, t)
  BY DEF Stores
<1>1. stage[b][t] = "acked" /\ queue'[t] = queue[t] /\ queue[t] # "absent"
  BY DEF Store, broker, AbsentInv
<1>2. rows'[t] # <<>>
  <2>1. rows[t] \in Seq(Outcomes) /\ outcome[b][t] \in Outcomes
    BY DEF TypeOK
  <2>2. rows'[t] = Append(rows[t], outcome[b][t])
    BY DEF Store, TypeOK
  <2> QED
    BY <2>1, <2>2
<1>3. ~ Abandoned(t)
  BY <1>1 DEF Abandoned
<1>4. StateOf(t) \in {"pending", "done"}
  BY <1>1, <1>3, StateCases
<1>5. StateOf(t)' = "done"
  BY <1>1, <1>2 DEF StateOf, TaskState
<1> QED
  BY <1>4, <1>5

\* A step publishes or stores one task, and does neither to any other.
LEMMA OneTask ==
  ASSUME TypeOK, AbsentInv, NEW t \in Tasks, Publish(t) \/ Stores(t),
         NEW u \in Tasks, u # t
  PROVE  StateOf(u)' = StateOf(u)
<1>1. CASE Publish(t)
  <2>1. queue'[u] = queue[u] /\ UNCHANGED <<rows, stage>>
    BY <1>1 DEF Publish, work, TypeOK
  <2> QED
    BY <2>1 DEF StateOf, TaskState, Lost
<1>2. CASE Stores(t)
  <2>1. PICK b \in Backends : Store(b, t)
    BY <1>2 DEF Stores
  <2>2. queue' = queue /\ rows'[u] = rows[u]
    BY <2>1 DEF Store, broker, TypeOK
  <2>3. \A c \in Backends : stage'[c][u] = stage[c][u]
    BY <2>1 DEF Store, Finish, TypeOK
  <2> QED
    BY <2>2, <2>3 DEF StateOf, TaskState, Lost
<1> QED
  BY <1>1, <1>2

LEMMA ContractNext ==
  ASSUME TypeOK, HolderInv, AbsentInv, [Next]_vars
  PROVE  [Contract!Next]_TaskState
<1>1. TaskState = [t \in Tasks |-> StateOf(t)] /\ TaskState' = [t \in Tasks |-> StateOf(t)']
  BY DEF StateOf, TaskState
<1>2. ASSUME NEW t \in Tasks, Publish(t)
      PROVE  Contract!Submit(t)
  <2>1. StateOf(t) = "absent" /\ StateOf(t)' = "pending"
    BY <1>2, PublishSubmits
  <2>2. \A u \in Tasks : u # t => StateOf(u)' = StateOf(u)
    BY <1>2, OneTask
  <2>3. TaskState' = [TaskState EXCEPT ![t] = "pending"]
    BY <1>1, <2>1, <2>2
  <2> QED
    BY <1>1, <2>1, <2>3 DEF Contract!Submit, Contract!Becomes
<1>3. ASSUME NEW t \in Tasks, Stores(t)
      PROVE  Contract!Finish(t) \/ TaskState' = TaskState
  <2>1. StateOf(t) \in {"pending", "done"} /\ StateOf(t)' = "done"
    BY <1>3, StoreFinishes
  <2>2. \A u \in Tasks : u # t => StateOf(u)' = StateOf(u)
    BY <1>3, OneTask
  <2>3. TaskState' = [TaskState EXCEPT ![t] = "done"]
    BY <1>1, <2>1, <2>2
  <2>4. CASE StateOf(t) = "pending"
    BY <1>1, <2>3, <2>4 DEF Contract!Finish, Contract!Becomes
  <2>5. CASE StateOf(t) = "done"
    BY <1>1, <2>1, <2>2, <2>5
  <2> QED
    BY <2>1, <2>4, <2>5
<1>4. CASE \A t \in Tasks : ~ Publish(t) /\ ~ Stores(t)
  <2> DEFINE lost == {t \in Tasks : StateOf(t) = "pending" /\ StateOf(t)' = "lost"}
  <2>1. \A t \in Tasks : Settles(t)
    BY <1>4, StateNext
  <2>2. TaskState' = [t \in Tasks |-> IF t \in lost THEN "lost" ELSE TaskState[t]]
    BY <1>1, <2>1 DEF Settles
  <2>3. lost \in SUBSET {t \in Tasks : TaskState[t] = "pending"}
    BY <1>1
  <2> HIDE DEF lost
  <2> QED
    BY <2>2, <2>3 DEF Contract!Next, Contract!Lose
<1> QED
  BY <1>2, <1>3, <1>4 DEF Contract!Next

\* Every behaviour of the queue is one of the contract: once published, a task is
\* pending until it has a row or is lost, once and for all, whatever crashes,
\* disconnects or restarts: the safety part of ImplementsContract.
THEOREM QueueKeepsContract == Spec => Contract!Spec
<1>1. Init => Contract!Init
  BY DEF Init, Contract!Init, TaskState
<1>2. IInv /\ ResultInv /\ [Next]_vars => [Contract!Next]_TaskState
  BY ContractNext DEF IInv, ResultInv
<1> QED
  BY <1>1, <1>2, Invariant, Results, PTL DEF Spec, Contract!Spec
=============================================================================
