--------------------------- MODULE BulkQueueProofs ---------------------------
(***************************************************************************)
(* Proofs about BulkQueue: type correctness, at most one requeue by an     *)
(* outcome, the limit on concurrent verifications and the bound on         *)
(* duplicated rows, for any number of jobs, tasks, backends and adverse    *)
(* events.                                                                 *)
(***************************************************************************)
EXTENDS BulkQueue, FiniteSetTheorems, TLAPS

USE JobsAssumption, BackendsAssumption, BudgetAssumption

-----------------------------------------------------------------------------
(* Type correctness. *)

LEMMA TypeInit == Init => TypeOK
  BY DEF Init, TypeOK, AdverseEvents, Outcomes

LEMMA TypeNext ==
  ASSUME TypeOK, [Next]_vars
  PROVE  TypeOK'
<1> USE DEF TypeOK, http, broker, work, AdverseEvents, Outcomes
<1>1. ASSUME NEW j \in Jobs, NEW b \in Backends, InsertJob(j, b)
      PROVE  TypeOK'
  BY <1>1 DEF InsertJob
<1>2. ASSUME NEW j \in Jobs, PublishFails(j) \/ Accept(j)
      PROVE  TypeOK'
  BY <1>2 DEF PublishFails, Accept
<1>3. ASSUME NEW t \in Tasks, Publish(t) \/ Enqueue(t) \/ HandleAck(t)
      PROVE  TypeOK'
  BY <1>3 DEF Publish, Enqueue, HandleAck
<1>4. ASSUME NEW b \in Backends, NEW t \in Tasks, Deliver(b, t)
      PROVE  TypeOK'
  BY <1>4 DEF Deliver
<1>5. ASSUME NEW b \in Backends, NEW t \in Tasks, ThrottleTask(b, t)
      PROVE  TypeOK'
  BY <1>5 DEF ThrottleTask, Requeue, Happens
<1>6. ASSUME NEW b \in Backends, NEW t \in Tasks, StartTask(b, t)
      PROVE  TypeOK'
  BY <1>6 DEF StartTask
<1>7. ASSUME NEW b \in Backends, NEW t \in Tasks, NEW o \in Outcomes, Verify(b, t, o)
      PROVE  TypeOK'
  BY <1>7 DEF Verify
<1>8. ASSUME NEW b \in Backends, NEW t \in Tasks, RequeueTask(b, t)
      PROVE  TypeOK'
  BY <1>8 DEF RequeueTask, Requeue, Finish
<1>9. ASSUME NEW b \in Backends, NEW t \in Tasks, AckTask(b, t)
      PROVE  TypeOK'
  BY <1>9 DEF AckTask
<1>10. ASSUME NEW b \in Backends, NEW t \in Tasks, SettleFails(b, t) \/ AckUnheard(b, t)
       PROVE  TypeOK'
  <2>1. CASE SettleFails(b, t)
    BY <2>1 DEF SettleFails, Finish
  <2>2. CASE AckUnheard(b, t)
    BY <2>2 DEF AckUnheard
  <2> QED
    BY <1>10, <2>1, <2>2
<1>11. ASSUME NEW b \in Backends, NEW t \in Tasks, Store(b, t)
       PROVE  TypeOK'
  BY <1>11 DEF Store, Finish
<1>12. ASSUME NEW b \in Backends, NEW t \in Tasks, StoreFails(b, t)
       PROVE  TypeOK'
  BY <1>12 DEF StoreFails, Finish, Happens
<1>13. ASSUME NEW b \in Backends, WakeUp(b) \/ Restart(b)
       PROVE  TypeOK'
  BY <1>13 DEF WakeUp, Restart
<1>14. ASSUME NEW b \in Backends, Disconnect(b)
       PROVE  TypeOK'
  BY <1>14 DEF Disconnect, LoseConnection, Happens
<1>15. ASSUME NEW b \in Backends, Crash(b)
       PROVE  TypeOK'
  BY <1>15 DEF Crash, LoseConnection, Happens
<1>16. CASE RestartBroker
  <2>1. holder' \in [Tasks -> Backends \union {NoBackend}]
    BY <1>16 DEF RestartBroker
  <2>2. loop' \in [Backends -> {"consuming", "sleeping", "ended", "down"}]
    BY <1>16 DEF RestartBroker
  <2>3. used' \in [AdverseEvents -> Nat]
    BY <1>16 DEF RestartBroker, Happens
  <2>4. queue' \in [Tasks -> {"absent", "sent", "ready", "unacked", "acking", "gone"}]
    BY <1>16 DEF RestartBroker
  <2> QED
    BY <1>16, <2>1, <2>2, <2>3, <2>4 DEF RestartBroker
<1>17. CASE UNCHANGED vars
  BY <1>17 DEF vars
<1> HIDE DEF TypeOK, http, broker, work, AdverseEvents, Outcomes
<1> QED
  BY <1>1, <1>2, <1>3, <1>4, <1>5, <1>6, <1>7, <1>8, <1>9, <1>10, <1>11, <1>12,
     <1>13, <1>14, <1>15, <1>16, <1>17 DEF Next, Handle

\* Every state of the bulk queue is well typed: TypeOK of BulkQueue.
THEOREM TypeCorrect == Spec => []TypeOK
  BY TypeInit, TypeNext, PTL DEF Spec

-----------------------------------------------------------------------------
(* The broker's view and the executions: HolderInv, LinkInv, RequeueInv.   *)

\* Most steps leave the broker's view and the channels alone.
LEMMA HolderFrame ==
  ASSUME HolderInv, UNCHANGED <<queue, holder, loop>>
  PROVE  HolderInv'
  BY DEF HolderInv, Connected

LEMMA HolderNext ==
  ASSUME TypeOK, HolderInv, [Next]_vars
  PROVE  HolderInv'
<1> USE DEF http, broker, work
<1>1. ASSUME NEW j \in Jobs, NEW b \in Backends, InsertJob(j, b)
      PROVE  HolderInv'
  BY <1>1, HolderFrame DEF InsertJob
<1>2. ASSUME NEW j \in Jobs, PublishFails(j) \/ Accept(j)
      PROVE  HolderInv'
  BY <1>2, HolderFrame DEF PublishFails, Accept
<1>3. ASSUME NEW t \in Tasks, Publish(t) \/ Enqueue(t) \/ HandleAck(t)
      PROVE  HolderInv'
  BY <1>3 DEF Publish, Enqueue, HandleAck, HolderInv, Connected, TypeOK
<1>4. ASSUME NEW b \in Backends, NEW t \in Tasks, Deliver(b, t)
      PROVE  HolderInv'
  BY <1>4 DEF Deliver, HolderInv, Connected, TypeOK
<1>5. ASSUME NEW b \in Backends, NEW t \in Tasks, ThrottleTask(b, t)
      PROVE  HolderInv'
  BY <1>5 DEF ThrottleTask, Requeue, Buffered, HolderInv, Connected, TypeOK
<1>6. ASSUME NEW b \in Backends, NEW t \in Tasks, StartTask(b, t) \/ SettleFails(b, t)
                \/ AckUnheard(b, t) \/ Store(b, t) \/ StoreFails(b, t)
      PROVE  HolderInv'
  BY <1>6, HolderFrame DEF StartTask, SettleFails, AckUnheard, Store, StoreFails
<1>7. ASSUME NEW b \in Backends, NEW t \in Tasks, NEW o \in Outcomes, Verify(b, t, o)
      PROVE  HolderInv'
  BY <1>7, HolderFrame DEF Verify
<1>8. ASSUME NEW b \in Backends, NEW t \in Tasks, RequeueTask(b, t)
      PROVE  HolderInv'
  BY <1>8 DEF RequeueTask, Requeue, HolderInv, Connected, TypeOK
<1>9. ASSUME NEW b \in Backends, NEW t \in Tasks, AckTask(b, t)
      PROVE  HolderInv'
  BY <1>9 DEF AckTask, HolderInv, Connected, TypeOK
<1>10. ASSUME NEW b \in Backends, WakeUp(b) \/ Restart(b)
       PROVE  HolderInv'
  <2>1. UNCHANGED <<queue, holder>>
    BY <1>10 DEF WakeUp, Restart
  <2>2. \A c \in Backends : Connected(c) => Connected(c)'
    BY <1>10 DEF WakeUp, Restart, Connected, TypeOK
  <2> QED
    BY <2>1, <2>2 DEF HolderInv, Connected, TypeOK
<1>11. ASSUME NEW b \in Backends, Disconnect(b) \/ Crash(b)
       PROVE  HolderInv'
  <2>1. CASE Disconnect(b)
    BY <2>1 DEF Disconnect, LoseConnection, Held, HolderInv, Connected, TypeOK
  <2>2. CASE Crash(b)
    BY <2>2 DEF Crash, LoseConnection, Held, HolderInv, Connected, TypeOK
  <2> QED
    BY <1>11, <2>1, <2>2
<1>12. CASE RestartBroker
  BY <1>12 DEF RestartBroker, HolderInv, TypeOK
<1>13. CASE UNCHANGED vars
  BY <1>13, HolderFrame DEF vars
<1> HIDE DEF http, broker, work
<1> QED
  BY <1>1, <1>2, <1>3, <1>4, <1>5, <1>6, <1>7, <1>8, <1>9, <1>10, <1>11, <1>12,
     <1>13 DEF Next, Handle

LEMMA LinkFrame ==
  ASSUME LinkInv, UNCHANGED <<queue, holder, loop, stage>>
  PROVE  LinkInv'
  BY DEF LinkInv, Connected, Unsettled

LEMMA LinkNext ==
  ASSUME TypeOK, HolderInv, LinkInv, [Next]_vars
  PROVE  LinkInv'
<1> USE DEF http, broker, work
<1>1. ASSUME NEW j \in Jobs, NEW b \in Backends, InsertJob(j, b)
      PROVE  LinkInv'
  BY <1>1, LinkFrame DEF InsertJob
<1>2. ASSUME NEW j \in Jobs, PublishFails(j) \/ Accept(j)
      PROVE  LinkInv'
  BY <1>2, LinkFrame DEF PublishFails, Accept
<1>3. ASSUME NEW t \in Tasks, Publish(t) \/ Enqueue(t) \/ HandleAck(t)
      PROVE  LinkInv'
  BY <1>3 DEF Publish, Enqueue, HandleAck, LinkInv, Connected, Unsettled, TypeOK
<1>4. ASSUME NEW b \in Backends, NEW t \in Tasks, Deliver(b, t)
      PROVE  LinkInv'
  BY <1>4 DEF Deliver, LinkInv, Connected, Unsettled, TypeOK
<1>5. ASSUME NEW b \in Backends, NEW t \in Tasks, ThrottleTask(b, t)
      PROVE  LinkInv'
  BY <1>5 DEF ThrottleTask, Requeue, Buffered, LinkInv, Connected, Unsettled, TypeOK
<1>6. ASSUME NEW b \in Backends, NEW t \in Tasks, StartTask(b, t)
      PROVE  LinkInv'
  BY <1>6 DEF StartTask, Buffered, LinkInv, Connected, Unsettled, TypeOK
<1>7. ASSUME NEW b \in Backends, NEW t \in Tasks, NEW o \in Outcomes, Verify(b, t, o)
      PROVE  LinkInv'
  BY <1>7 DEF Verify, LinkInv, Connected, Unsettled, TypeOK
<1>8. ASSUME NEW b \in Backends, NEW t \in Tasks, RequeueTask(b, t)
      PROVE  LinkInv'
  BY <1>8 DEF RequeueTask, Requeue, Finish, LinkInv, Connected, Unsettled, TypeOK
<1>9. ASSUME NEW b \in Backends, NEW t \in Tasks, AckTask(b, t) \/ AckUnheard(b, t)
      PROVE  LinkInv'
  <2>1. CASE AckTask(b, t)
    BY <2>1 DEF AckTask, LinkInv, Connected, Unsettled, TypeOK
  <2>2. CASE AckUnheard(b, t)
    BY <2>2 DEF AckUnheard, LinkInv, Connected, Unsettled, TypeOK
  <2> QED
    BY <1>9, <2>1, <2>2
<1>10. ASSUME NEW b \in Backends, NEW t \in Tasks,
              SettleFails(b, t) \/ Store(b, t) \/ StoreFails(b, t)
       PROVE  LinkInv'
  <2>1. UNCHANGED <<queue, holder, loop>> /\ stage' = [stage EXCEPT ![b][t] = "none"]
    BY <1>10 DEF SettleFails, Store, StoreFails, Finish
  <2> QED
    BY <2>1 DEF LinkInv, Connected, Unsettled, TypeOK
<1>11. ASSUME NEW b \in Backends, WakeUp(b) \/ Restart(b)
       PROVE  LinkInv'
  BY <1>11 DEF WakeUp, Restart, LinkInv, Connected, Unsettled, TypeOK
<1>12. ASSUME NEW b \in Backends, Disconnect(b)
       PROVE  LinkInv'
  BY <1>12 DEF Disconnect, LoseConnection, Held, LinkInv, Connected, Unsettled, TypeOK
<1>13. ASSUME NEW b \in Backends, Crash(b)
       PROVE  LinkInv'
  BY <1>13 DEF Crash, LoseConnection, Held, LinkInv, Connected, Unsettled, TypeOK
<1>14. CASE RestartBroker
  BY <1>14 DEF RestartBroker, LinkInv, Connected, TypeOK
<1>15. CASE UNCHANGED vars
  BY <1>15, LinkFrame DEF vars
<1> HIDE DEF http, broker, work
<1> QED
  BY <1>1, <1>2, <1>3, <1>4, <1>5, <1>6, <1>7, <1>8, <1>9, <1>10, <1>11, <1>12,
     <1>13, <1>14, <1>15 DEF Next, Handle

LEMMA RequeueFrame ==
  ASSUME RequeueInv, UNCHANGED <<redelivered, holder, stage, flagged, requeued>>
  PROVE  RequeueInv'
  BY DEF RequeueInv, Unsettled

LEMMA RequeueNext ==
  ASSUME TypeOK, HolderInv, LinkInv, RequeueInv, [Next]_vars
  PROVE  RequeueInv'
<1> USE DEF http, broker, work
<1>1. ASSUME NEW j \in Jobs, NEW b \in Backends, InsertJob(j, b)
      PROVE  RequeueInv'
  BY <1>1, RequeueFrame DEF InsertJob
<1>2. ASSUME NEW j \in Jobs, PublishFails(j) \/ Accept(j)
      PROVE  RequeueInv'
  BY <1>2, RequeueFrame DEF PublishFails, Accept
<1>3. ASSUME NEW t \in Tasks, Publish(t) \/ Enqueue(t)
      PROVE  RequeueInv'
  BY <1>3, RequeueFrame DEF Publish, Enqueue
<1>4. ASSUME NEW t \in Tasks, HandleAck(t)
      PROVE  RequeueInv'
  BY <1>4 DEF HandleAck, RequeueInv, Unsettled, TypeOK
<1>5. ASSUME NEW b \in Backends, NEW t \in Tasks, Deliver(b, t)
      PROVE  RequeueInv'
  <2>1. ~ Unsettled(b, t)
    BY <1>5 DEF Deliver, LinkInv
  <2> QED
    BY <1>5, <2>1 DEF Deliver, RequeueInv, Unsettled, TypeOK
<1>6. ASSUME NEW b \in Backends, NEW t \in Tasks, ThrottleTask(b, t)
      PROVE  RequeueInv'
  BY <1>6 DEF ThrottleTask, Requeue, RequeueInv, Unsettled, TypeOK
<1>7. ASSUME NEW b \in Backends, NEW t \in Tasks, StartTask(b, t)
      PROVE  RequeueInv'
  BY <1>7 DEF StartTask, RequeueInv, Unsettled, TypeOK
<1>8. ASSUME NEW b \in Backends, NEW t \in Tasks, NEW o \in Outcomes, Verify(b, t, o)
      PROVE  RequeueInv'
  BY <1>8 DEF Verify, RequeueInv, Unsettled, TypeOK
<1>9. ASSUME NEW b \in Backends, NEW t \in Tasks, RequeueTask(b, t)
      PROVE  RequeueInv'
  <2>1. stage[b][t] = "checked" /\ holder[t] = b /\ ~ flagged[b][t]
    BY <1>9 DEF RequeueTask, WantsRequeue
  <2>2. flagged[b][t] <=> redelivered[t]
    BY <2>1 DEF RequeueInv, Unsettled
  <2>3. requeued[t] # 1 /\ requeued[t] <= 1
    BY <2>1, <2>2 DEF RequeueInv
  <2>4. requeued[t] = 0
    BY <2>3 DEF TypeOK
  <2>5. /\ redelivered' = [u \in Tasks |-> redelivered[u] \/ u \in {t}]
        /\ holder' = [u \in Tasks |-> IF u \in {t} THEN NoBackend ELSE holder[u]]
        /\ stage' = [stage EXCEPT ![b][t] = "none"]
        /\ flagged' = [flagged EXCEPT ![b][t] = FALSE]
        /\ requeued' = [requeued EXCEPT ![t] = @ + 1]
    BY <1>9 DEF RequeueTask, Requeue, Finish
  <2>6. ASSUME NEW u \in Tasks
        PROVE  (requeued'[u] = 1 => redelivered'[u]) /\ requeued'[u] <= 1
    <3>1. CASE u = t
      <4>1. redelivered'[u]
        BY <2>5, <3>1, Zenon
      <4>2. requeued'[u] = 1
        BY <2>4, <2>5, <3>1 DEF TypeOK
      <4> QED
        BY <4>1, <4>2
    <3>2. CASE u # t
      BY <2>5, <3>2 DEF RequeueInv, TypeOK
    <3> QED
      BY <3>1, <3>2
  <2>7. ASSUME NEW u \in Tasks, NEW d \in Backends, Unsettled(d, u)', holder'[u] = d
        PROVE  flagged'[d][u] <=> redelivered'[u]
    <3>1. u # t
      BY <2>5, <2>7
    <3>2. Unsettled(d, u) /\ holder[u] = d /\ (flagged'[d][u] <=> flagged[d][u])
      BY <2>5, <2>7, <3>1 DEF Unsettled, TypeOK
    <3>3. redelivered'[u] <=> redelivered[u]
      BY <2>5, <3>1
    <3> QED
      BY <3>2, <3>3 DEF RequeueInv
  <2> QED
    BY <2>6, <2>7 DEF RequeueInv
<1>10. ASSUME NEW b \in Backends, NEW t \in Tasks, AckTask(b, t) \/ AckUnheard(b, t)
       PROVE  RequeueInv'
  <2>1. /\ UNCHANGED <<redelivered, holder, flagged, requeued>>
        /\ stage' = [stage EXCEPT ![b][t] = "acked"]
    BY <1>10 DEF AckTask, AckUnheard
  <2> QED
    BY <2>1 DEF RequeueInv, Unsettled, TypeOK
<1>11. ASSUME NEW b \in Backends, NEW t \in Tasks,
              SettleFails(b, t) \/ Store(b, t) \/ StoreFails(b, t)
       PROVE  RequeueInv'
  <2>1. /\ UNCHANGED <<redelivered, holder, requeued>>
        /\ stage' = [stage EXCEPT ![b][t] = "none"]
        /\ flagged' = [flagged EXCEPT ![b][t] = FALSE]
    BY <1>11 DEF SettleFails, Store, StoreFails, Finish
  <2>2. ASSUME NEW u \in Tasks, NEW d \in Backends, Unsettled(d, u)'
        PROVE  Unsettled(d, u) /\ (flagged'[d][u] <=> flagged[d][u])
    BY <2>1, <2>2 DEF Unsettled, TypeOK
  <2>3. ASSUME NEW u \in Tasks
        PROVE  (requeued'[u] = 1 => redelivered'[u]) /\ requeued'[u] <= 1
    BY <2>1 DEF RequeueInv
  <2>4. ASSUME NEW u \in Tasks, NEW d \in Backends, Unsettled(d, u)', holder'[u] = d
        PROVE  flagged'[d][u] <=> redelivered'[u]
    <3>1. Unsettled(d, u) /\ holder[u] = d /\ (flagged'[d][u] <=> flagged[d][u])
      BY <2>1, <2>2, <2>4
    <3>2. redelivered'[u] <=> redelivered[u]
      BY <2>1
    <3> QED
      BY <3>1, <3>2 DEF RequeueInv
  <2> QED
    BY <2>3, <2>4 DEF RequeueInv
<1>12. ASSUME NEW b \in Backends, WakeUp(b) \/ Restart(b)
       PROVE  RequeueInv'
  BY <1>12, RequeueFrame DEF WakeUp, Restart
<1>13. ASSUME NEW b \in Backends, Disconnect(b)
       PROVE  RequeueInv'
  BY <1>13 DEF Disconnect, LoseConnection, Held, RequeueInv, Unsettled, TypeOK
<1>14. ASSUME NEW b \in Backends, Crash(b)
       PROVE  RequeueInv'
  <2>1. /\ redelivered' = [u \in Tasks |-> redelivered[u] \/ u \in Held(b)]
        /\ holder' = [u \in Tasks |-> IF u \in Held(b) THEN NoBackend ELSE holder[u]]
        /\ stage' = [stage EXCEPT ![b] = [u \in Tasks |-> "none"]]
        /\ flagged' = [flagged EXCEPT ![b] = [u \in Tasks |-> FALSE]]
        /\ UNCHANGED requeued
    BY <1>14 DEF Crash, LoseConnection
  <2>2. ASSUME NEW u \in Tasks
        PROVE  (requeued'[u] = 1 => redelivered'[u]) /\ requeued'[u] <= 1
    BY <2>1 DEF RequeueInv
  <2>3. ASSUME NEW u \in Tasks, NEW d \in Backends, Unsettled(d, u)', holder'[u] = d
        PROVE  flagged'[d][u] <=> redelivered'[u]
    <3>1. d # b /\ Unsettled(d, u) /\ (flagged'[d][u] <=> flagged[d][u])
      BY <2>1, <2>3 DEF Unsettled, TypeOK
    <3>2. holder[u] = d /\ u \notin Held(b)
      BY <2>1, <2>3, <3>1 DEF Held
    <3>3. redelivered'[u] <=> redelivered[u]
      BY <2>1, <3>2 DEF TypeOK
    <3> QED
      BY <3>1, <3>2, <3>3 DEF RequeueInv
  <2> QED
    BY <2>2, <2>3 DEF RequeueInv
<1>15. CASE RestartBroker
  BY <1>15 DEF RestartBroker, RequeueInv, Unsettled, TypeOK
<1>16. CASE UNCHANGED vars
  BY <1>16, RequeueFrame DEF vars
<1> HIDE DEF http, broker, work
<1> QED
  BY <1>1, <1>2, <1>3, <1>4, <1>5, <1>6, <1>7, <1>8, <1>9, <1>10, <1>11, <1>12,
     <1>13, <1>14, <1>15, <1>16 DEF Next, Handle

-----------------------------------------------------------------------------
(* The limit on concurrent verifications: LimitInv.                        *)

LEMMA TaskSetsFinite ==
  ASSUME NEW S \in SUBSET Tasks
  PROVE  IsFiniteSet(S) /\ Cardinality(S) \in Nat
  BY FS_Subset, FS_CardinalityType

\* A channel comes to hold a message by a delivery only, and only a channel that
\* is open starts executions.
LEMMA Moves ==
  ASSUME TypeOK, [Next]_vars, NEW c \in Backends, NEW u \in Tasks
  PROVE  /\ holder'[u] = c => holder[u] = c \/ Deliver(c, u)
         /\ Unsettled(c, u)' => Unsettled(c, u) \/ Connected(c)'
<1> DEFINE Claim == /\ holder'[u] = c => holder[u] = c \/ Deliver(c, u)
                    /\ Unsettled(c, u)' => Unsettled(c, u) \/ Connected(c)'
<1> SUFFICES Claim
  OBVIOUS
<1> USE DEF http, broker, work
<1>1. CASE UNCHANGED <<holder, stage>>
  BY <1>1 DEF Unsettled
<1>2. ASSUME NEW t \in Tasks, HandleAck(t)
      PROVE  Claim
  BY <1>2 DEF HandleAck, Unsettled, TypeOK
<1>3. ASSUME NEW b \in Backends, NEW t \in Tasks, Deliver(b, t)
      PROVE  Claim
  <2>1. holder' = [holder EXCEPT ![t] = b] /\ stage' = stage
    BY <1>3 DEF Deliver
  <2>2. CASE u = t /\ c = b
    BY <1>3, <2>1, <2>2 DEF Unsettled
  <2>3. CASE ~ (u = t /\ c = b)
    BY <2>1, <2>3 DEF Unsettled, TypeOK
  <2> QED
    BY <2>2, <2>3
<1>4. ASSUME NEW b \in Backends, NEW t \in Tasks, ThrottleTask(b, t)
      PROVE  Claim
  BY <1>4 DEF ThrottleTask, Requeue, Unsettled, TypeOK
<1>5. ASSUME NEW b \in Backends, NEW t \in Tasks, StartTask(b, t)
      PROVE  Claim
  BY <1>5 DEF StartTask, Unsettled, Connected, TypeOK
<1>6. ASSUME NEW b \in Backends, NEW t \in Tasks, NEW o \in Outcomes, Verify(b, t, o)
      PROVE  Claim
  BY <1>6 DEF Verify, Unsettled, TypeOK
<1>7. ASSUME NEW b \in Backends, NEW t \in Tasks, RequeueTask(b, t)
      PROVE  Claim
  BY <1>7 DEF RequeueTask, Requeue, Finish, Unsettled, TypeOK
<1>8. ASSUME NEW b \in Backends, NEW t \in Tasks, AckTask(b, t) \/ AckUnheard(b, t)
      PROVE  Claim
  <2>1. holder' = holder /\ stage' = [stage EXCEPT ![b][t] = "acked"]
    BY <1>8 DEF AckTask, AckUnheard
  <2> QED
    BY <2>1 DEF Unsettled, TypeOK
<1>9. ASSUME NEW b \in Backends, NEW t \in Tasks,
             SettleFails(b, t) \/ Store(b, t) \/ StoreFails(b, t)
      PROVE  Claim
  <2>1. holder' = holder /\ stage' = [stage EXCEPT ![b][t] = "none"]
    BY <1>9 DEF SettleFails, Store, StoreFails, Finish
  <2> QED
    BY <2>1 DEF Unsettled, TypeOK
<1>10. ASSUME NEW b \in Backends, Disconnect(b)
       PROVE  Claim
  BY <1>10 DEF Disconnect, LoseConnection, Unsettled, TypeOK
<1>11. ASSUME NEW b \in Backends, Crash(b)
       PROVE  Claim
  BY <1>11 DEF Crash, LoseConnection, Unsettled, TypeOK
<1>12. CASE RestartBroker
  BY <1>12 DEF RestartBroker, Unsettled, TypeOK
<1>13. ASSUME NEW j \in Jobs, NEW b \in Backends, InsertJob(j, b)
       PROVE  Claim
  BY <1>13, <1>1 DEF InsertJob
<1>14. ASSUME NEW j \in Jobs, PublishFails(j) \/ Accept(j)
       PROVE  Claim
  BY <1>14, <1>1 DEF PublishFails, Accept
<1>15. ASSUME NEW t \in Tasks, Publish(t) \/ Enqueue(t)
       PROVE  Claim
  BY <1>15, <1>1 DEF Publish, Enqueue
<1>16. ASSUME NEW b \in Backends, WakeUp(b) \/ Restart(b)
       PROVE  Claim
  BY <1>16, <1>1 DEF WakeUp, Restart
<1>17. CASE UNCHANGED vars
  BY <1>17, <1>1 DEF vars
<1> HIDE DEF Claim, http, broker, work
<1> QED
  BY <1>2, <1>3, <1>4, <1>5, <1>6, <1>7, <1>8, <1>9, <1>10, <1>11, <1>12, <1>13,
     <1>14, <1>15, <1>16, <1>17 DEF Next, Handle

LEMMA LimitNext ==
  ASSUME TypeOK, LimitInv, [Next]_vars, LinkInv'
  PROVE  LimitInv'
<1> SUFFICES ASSUME NEW c \in Backends
             PROVE  /\ Cardinality(Held(c)') <= Concurrency
                    /\ Cardinality(InProgress(c)') <= Concurrency
  BY DEF LimitInv
<1>1. Held(c) \in SUBSET Tasks /\ InProgress(c) \in SUBSET Tasks
  BY DEF Held, InProgress
<1>2. Held(c)' \in SUBSET Tasks /\ InProgress(c)' \in SUBSET Tasks
  BY DEF Held, InProgress
<1>3. Cardinality(Held(c)') <= Concurrency
  <2>1. CASE \E t \in Tasks : Deliver(c, t)
    <3>1. PICK t \in Tasks : Deliver(c, t)
      BY <2>1
    <3>2. Held(c)' = Held(c) \union {t}
      BY <3>1 DEF Held, Deliver, TypeOK
    <3>3. Cardinality(Held(c)') <= Cardinality(Held(c)) + 1
      BY <3>2, <1>1, TaskSetsFinite, FS_AddElement
    <3> QED
      BY <3>1, <3>3, <1>1, <1>2, TaskSetsFinite DEF Deliver
  <2>2. CASE \A t \in Tasks : ~ Deliver(c, t)
    <3>1. Held(c)' \subseteq Held(c)
      BY <2>2, Moves DEF Held
    <3>2. Cardinality(Held(c)') <= Cardinality(Held(c))
      BY <3>1, <1>1, TaskSetsFinite, FS_Subset
    <3> QED
      BY <3>2, <1>1, <1>2, TaskSetsFinite DEF LimitInv
  <2> QED
    BY <2>1, <2>2
<1>4. CASE Connected(c)'
  <2>1. InProgress(c)' \subseteq Held(c)'
    BY <1>4 DEF InProgress, Held, LinkInv, Unsettled
  <2>2. Cardinality(InProgress(c)') <= Cardinality(Held(c)')
    BY <2>1, <1>2, TaskSetsFinite, FS_Subset
  <2> QED
    BY <2>2, <1>2, <1>3, TaskSetsFinite
<1>5. CASE ~ Connected(c)'
  <2>1. InProgress(c)' \subseteq InProgress(c)
    BY <1>5, Moves DEF InProgress, Unsettled
  <2>2. Cardinality(InProgress(c)') <= Cardinality(InProgress(c))
    BY <2>1, <1>1, TaskSetsFinite, FS_Subset
  <2> QED
    BY <2>2, <1>1, <1>2, <1>3, TaskSetsFinite DEF LimitInv
<1> QED
  BY <1>3, <1>4, <1>5
-----------------------------------------------------------------------------
(* The rows of a task: what a step adds to its potential, a crash or a lost *)
(* connection has paid for.                                                *)

LEMMA DetachedFinite ==
  ASSUME NEW D \in SUBSET Backends
  PROVE  IsFiniteSet(D) /\ Cardinality(D) \in Nat
  BY FS_Subset, FS_CardinalityType

LEMMA DetachedGrows ==
  ASSUME NEW D \in SUBSET Backends, NEW E \in SUBSET Backends, NEW b, E \subseteq D \union {b}
  PROVE  Cardinality(E) <= Cardinality(D) + 1
<1>1. IsFiniteSet(D) /\ Cardinality(D) \in Nat /\ Cardinality(E) \in Nat
  BY DetachedFinite
<1>2. IsFiniteSet(D \union {b})
  BY <1>1, FS_AddElement
<1>3. Cardinality(D \union {b}) = IF b \in D THEN Cardinality(D) ELSE Cardinality(D) + 1
  BY <1>1, FS_AddElement
<1>4. Cardinality(E) <= Cardinality(D \union {b})
  BY <1>2, FS_Subset
<1>5. CASE b \in D
  BY <1>1, <1>3, <1>4, <1>5
<1>6. CASE b \notin D
  BY <1>1, <1>3, <1>4, <1>6
<1> QED
  BY <1>5, <1>6

\* The parts of a potential are numbers.
LEMMA PotentialParts ==
  ASSUME TypeOK, NEW u \in Tasks
  PROVE  /\ Detached(u) \in SUBSET Backends
         /\ Cardinality(Detached(u)) \in Nat
         /\ Len(rows[u]) \in Nat
         /\ Outstanding(u) \in {0, 1}
         /\ Losses \in Nat
<1>1. Detached(u) \in SUBSET Backends
  BY DEF Detached
<1>2. Len(rows[u]) \in Nat
  BY DEF TypeOK
<1>3. Losses \in Nat
  BY DEF TypeOK, AdverseEvents, Losses
<1> QED
  BY <1>1, <1>2, <1>3, DetachedFinite DEF Outstanding

LEMMA Sum ==
  ASSUME NEW l \in Nat, NEW c \in Nat, NEW d \in Nat, NEW o \in Nat, NEW p \in Nat,
         NEW k \in Nat, NEW m \in Nat, NEW x \in Int, NEW y \in Int,
         d <= c + x, p <= o + y, m >= k + x + y
  PROVE  (l + d + p) + k <= (l + c + o) + m
  OBVIOUS

\* A step that adds no row, at most x executions and at most y messages, and that
\* adds x + y to the losses.
LEMMA PotentialSum ==
  ASSUME TypeOK, TypeOK', NEW u \in Tasks, NEW x \in Int, NEW y \in Int,
         rows'[u] = rows[u], Losses' >= Losses + x + y,
         Cardinality(Detached(u)') <= Cardinality(Detached(u)) + x,
         Outstanding(u)' <= Outstanding(u) + y
  PROVE  Potential(u)' + Losses <= Potential(u) + Losses'
<1>1. Cardinality(Detached(u)) \in Nat /\ Len(rows[u]) \in Nat
      /\ Outstanding(u) \in {0, 1} /\ Losses \in Nat
  BY PotentialParts
<1>2. Detached(u)' \in SUBSET Backends
  BY DEF Detached
<1>3. Cardinality(Detached(u)') \in Nat
  BY <1>2, DetachedFinite
<1>4. Outstanding(u)' \in {0, 1}
  BY DEF Outstanding
<1>5. Losses' \in Nat
  <2>1. used' \in [AdverseEvents -> Nat]
    BY DEF TypeOK
  <2>2. used'["crash"] \in Nat /\ used'["disconnect"] \in Nat
    BY <2>1 DEF AdverseEvents
  <2> QED
    BY <2>2 DEF Losses
<1>6. Potential(u) = Len(rows[u]) + Cardinality(Detached(u)) + Outstanding(u)
  BY DEF Potential
<1>7. Potential(u)' = Len(rows[u]) + Cardinality(Detached(u)') + Outstanding(u)'
  BY DEF Potential
<1>8. Outstanding(u) \in Nat /\ Outstanding(u)' \in Nat
  BY <1>1, <1>4
<1> QED
  BY <1>1, <1>3, <1>5, <1>6, <1>7, <1>8, Sum, Zenon

\* A step that adds neither a row, an execution nor a message.
LEMMA PotentialKept ==
  ASSUME TypeOK, TypeOK', NEW u \in Tasks, rows'[u] = rows[u], Losses' >= Losses,
         Detached(u)' \subseteq Detached(u), Outstanding(u)' <= Outstanding(u)
  PROVE  Potential(u)' + Losses <= Potential(u) + Losses'
<1>1. Cardinality(Detached(u)') <= Cardinality(Detached(u))
  BY PotentialParts, DetachedFinite, FS_Subset
<1>2. /\ Losses' >= Losses + 0 + 0
      /\ Cardinality(Detached(u)') <= Cardinality(Detached(u)) + 0
      /\ Outstanding(u)' <= Outstanding(u) + 0
  BY <1>1, PotentialParts
<1> QED
  BY <1>2, PotentialSum

\* A step that turns the message into an execution.
LEMMA PotentialTraded ==
  ASSUME TypeOK, TypeOK', NEW u \in Tasks, NEW b \in Backends, rows'[u] = rows[u],
         Losses' >= Losses, Detached(u)' \subseteq Detached(u) \union {b},
         Outstanding(u) = 1, Outstanding(u)' = 0
  PROVE  Potential(u)' + Losses <= Potential(u) + Losses'
<1>1. Detached(u) \in SUBSET Backends /\ Detached(u)' \in SUBSET Backends
  BY DEF Detached
<1>2. Cardinality(Detached(u)') <= Cardinality(Detached(u)) + 1
  BY <1>1, DetachedGrows
<1>3. Losses' >= Losses + 1 + (-1) /\ Outstanding(u)' <= Outstanding(u) + (-1)
  BY PotentialParts
<1> QED
  BY <1>2, <1>3, PotentialSum

\* A loss pays for one more execution.
LEMMA PotentialPaid ==
  ASSUME TypeOK, TypeOK', NEW u \in Tasks, NEW b \in Backends, rows'[u] = rows[u],
         Losses' = Losses + 1, Detached(u)' \subseteq Detached(u) \union {b},
         Outstanding(u)' <= Outstanding(u)
  PROVE  Potential(u)' + Losses <= Potential(u) + Losses'
<1>1. Detached(u) \in SUBSET Backends /\ Detached(u)' \in SUBSET Backends
  BY DEF Detached
<1>2. Cardinality(Detached(u)') <= Cardinality(Detached(u)) + 1
  BY <1>1, DetachedGrows
<1>3. Losses' >= Losses + 1 + 0 /\ Outstanding(u)' <= Outstanding(u) + 0
  BY PotentialParts
<1> QED
  BY <1>2, <1>3, PotentialSum

\* A loss pays for the message of a task that goes back into the queue.
LEMMA PotentialRestored ==
  ASSUME TypeOK, TypeOK', NEW u \in Tasks, rows'[u] = rows[u],
         Losses' = Losses + 1, Detached(u)' \subseteq Detached(u)
  PROVE  Potential(u)' + Losses <= Potential(u) + Losses'
<1>1. Cardinality(Detached(u)') <= Cardinality(Detached(u))
  BY PotentialParts, DetachedFinite, FS_Subset
<1>2. Cardinality(Detached(u)') <= Cardinality(Detached(u)) + 0
  BY <1>1, PotentialParts
<1>3. Losses' >= Losses + 0 + 1
  BY PotentialParts
<1>4. Outstanding(u)' <= Outstanding(u) + 1
  BY DEF Outstanding
<1> QED
  BY <1>2, <1>3, <1>4, PotentialSum

\* The losses do not change as long as used does not, and never decrease.
LEMMA LossesNext ==
  ASSUME TypeOK, NEW f \in AdverseEvents, used' = [used EXCEPT ![f] = @ + 1]
  PROVE  /\ Losses' >= Losses
         /\ f \in {"crash", "disconnect"} => Losses' = Losses + 1
<1>1. used["crash"] \in Nat /\ used["disconnect"] \in Nat
  BY DEF TypeOK, AdverseEvents
<1>2. \A g \in AdverseEvents : used'[g] = IF g = f THEN used[g] + 1 ELSE used[g]
  BY DEF TypeOK
<1>3. /\ used'["crash"] = IF "crash" = f THEN used["crash"] + 1 ELSE used["crash"]
      /\ used'["disconnect"] = IF "disconnect" = f THEN used["disconnect"] + 1
                               ELSE used["disconnect"]
  BY <1>2 DEF AdverseEvents
<1>4. CASE f = "crash"
  BY <1>1, <1>3, <1>4 DEF Losses
<1>5. CASE f = "disconnect"
  BY <1>1, <1>3, <1>5 DEF Losses
<1>6. CASE f \notin {"crash", "disconnect"}
  BY <1>1, <1>3, <1>6 DEF Losses
<1> QED
  BY <1>4, <1>5, <1>6

LEMMA PotentialFrame ==
  ASSUME TypeOK, TypeOK', NEW u \in Tasks, UNCHANGED <<rows, stage>>, Losses' >= Losses,
         UNCHANGED <<queue[u], holder[u]>>
  PROVE  Potential(u)' + Losses <= Potential(u) + Losses'
<1>1. Detached(u)' \subseteq Detached(u)
  BY DEF Detached, Unsettled
<1>2. Outstanding(u)' <= Outstanding(u)
  BY DEF Outstanding
<1> QED
  BY <1>1, <1>2, PotentialKept

\* A step adds to the potential of a task no more than it adds to the losses.
LEMMA PotentialNext ==
  ASSUME TypeOK, HolderInv, LinkInv, [Next]_vars, NEW u \in Tasks
  PROVE  Potential(u)' + Losses <= Potential(u) + Losses'
<1> DEFINE Claim == Potential(u)' + Losses <= Potential(u) + Losses'
<1> SUFFICES Claim
  OBVIOUS
<1>0. TypeOK'
  BY TypeNext
<1>a. used' = used => Losses' >= Losses
  BY PotentialParts DEF Losses
<1> USE DEF http, broker, work
<1>1. ASSUME NEW j \in Jobs, NEW b \in Backends, InsertJob(j, b)
      PROVE  Claim
  BY <1>0, <1>a, <1>1, PotentialFrame DEF InsertJob
<1>2. ASSUME NEW j \in Jobs, PublishFails(j) \/ Accept(j)
      PROVE  Claim
  BY <1>0, <1>a, <1>2, PotentialFrame DEF PublishFails, Accept
<1>3. ASSUME NEW t \in Tasks, Publish(t) \/ Enqueue(t)
      PROVE  Claim
  <2>1. /\ rows' = rows /\ Losses' >= Losses
        /\ Detached(u)' \subseteq Detached(u)
    BY <1>3, <1>a DEF Publish, Enqueue, Detached, Unsettled
  <2>2. Outstanding(u)' <= Outstanding(u)
    BY <1>3 DEF Publish, Enqueue, Outstanding, TypeOK
  <2> QED
    BY <1>0, <2>1, <2>2, PotentialKept
<1>4. ASSUME NEW t \in Tasks, HandleAck(t)
      PROVE  Claim
  <2>1. rows' = rows /\ Losses' >= Losses
    BY <1>4, <1>a DEF HandleAck
  <2>2. Outstanding(u)' <= Outstanding(u)
    BY <1>4 DEF HandleAck, Outstanding, TypeOK
  <2>3. \A d \in Backends : holder[t] = d => ~ Unsettled(d, t)
    BY <1>4 DEF HandleAck, HolderInv, LinkInv
  <2>4. Detached(u)' \subseteq Detached(u)
    BY <1>4, <2>3 DEF HandleAck, Detached, Unsettled, TypeOK
  <2> QED
    BY <1>0, <2>1, <2>2, <2>4, PotentialKept
<1>5. ASSUME NEW b \in Backends, NEW t \in Tasks, Deliver(b, t)
      PROVE  Claim
  <2>1. rows' = rows /\ Losses' >= Losses
    BY <1>5, <1>a DEF Deliver
  <2>2. Outstanding(u)' <= Outstanding(u)
    BY <1>5 DEF Deliver, Outstanding, TypeOK
  <2>3. \A d \in Backends : holder[t] # d
    BY <1>5 DEF Deliver, HolderInv
  <2>4. Detached(u)' \subseteq Detached(u)
    BY <1>5, <2>3 DEF Deliver, Detached, Unsettled, TypeOK
  <2> QED
    BY <1>0, <2>1, <2>2, <2>4, PotentialKept
<1>6. ASSUME NEW b \in Backends, NEW t \in Tasks, ThrottleTask(b, t)
      PROVE  Claim
  <2>1. rows' = rows /\ Losses' >= Losses
    BY <1>6, LossesNext DEF ThrottleTask, Happens, AdverseEvents
  <2>2. Outstanding(u)' <= Outstanding(u)
    BY <1>6 DEF ThrottleTask, Buffered, Requeue, Outstanding, TypeOK
  <2>3. Detached(u)' \subseteq Detached(u)
    BY <1>6 DEF ThrottleTask, Buffered, Requeue, Detached, Unsettled, TypeOK
  <2> QED
    BY <1>0, <2>1, <2>2, <2>3, PotentialKept
<1>7. ASSUME NEW b \in Backends, NEW t \in Tasks, StartTask(b, t)
      PROVE  Claim
  <2>1. /\ rows' = rows /\ Losses' >= Losses
        /\ Outstanding(u)' <= Outstanding(u)
    BY <1>7, <1>a DEF StartTask, Outstanding
  <2>2. Detached(u)' \subseteq Detached(u)
    BY <1>7 DEF StartTask, Buffered, Detached, Unsettled, TypeOK
  <2> QED
    BY <1>0, <2>1, <2>2, PotentialKept
<1>8. ASSUME NEW b \in Backends, NEW t \in Tasks, NEW o \in Outcomes, Verify(b, t, o)
      PROVE  Claim
  <2>1. /\ rows' = rows /\ Losses' >= Losses
        /\ Outstanding(u)' <= Outstanding(u)
    BY <1>8, <1>a DEF Verify, Outstanding
  <2>2. Detached(u)' \subseteq Detached(u)
    BY <1>8 DEF Verify, Detached, Unsettled, TypeOK
  <2> QED
    BY <1>0, <2>1, <2>2, PotentialKept
<1>9. ASSUME NEW b \in Backends, NEW t \in Tasks, RequeueTask(b, t)
      PROVE  Claim
  <2>1. rows' = rows /\ Losses' >= Losses
    BY <1>9, <1>a DEF RequeueTask
  <2>2. queue[t] = "unacked"
    BY <1>9 DEF RequeueTask, HolderInv, LinkInv, Unsettled
  <2>3. Outstanding(u)' <= Outstanding(u)
    BY <1>9, <2>2 DEF RequeueTask, Requeue, Outstanding, TypeOK
  <2>4. Detached(u)' \subseteq Detached(u)
    BY <1>9 DEF RequeueTask, Requeue, Finish, Detached, Unsettled, TypeOK
  <2> QED
    BY <1>0, <2>1, <2>3, <2>4, PotentialKept
<1>10. ASSUME NEW b \in Backends, NEW t \in Tasks, AckTask(b, t)
       PROVE  Claim
  <2>1. rows' = rows /\ Losses' >= Losses
    BY <1>10, <1>a DEF AckTask
  <2>2. CASE u # t
    <3>1. Outstanding(u)' <= Outstanding(u)
      BY <1>10, <2>2 DEF AckTask, Outstanding, TypeOK
    <3>2. Detached(u)' \subseteq Detached(u)
      BY <1>10, <2>2 DEF AckTask, Detached, Unsettled, TypeOK
    <3> QED
      BY <1>0, <2>1, <3>1, <3>2, PotentialKept
  <2>3. CASE u = t
    <3>1. queue[t] = "unacked"
      BY <1>10 DEF AckTask, HolderInv, LinkInv, Unsettled
    <3>2. Outstanding(u) = 1 /\ Outstanding(u)' = 0
      BY <1>10, <2>3, <3>1 DEF AckTask, Outstanding, TypeOK
    <3>3. Detached(u)' \subseteq Detached(u) \union {b}
      BY <1>10, <2>3 DEF AckTask, Detached, Unsettled, TypeOK
    <3> QED
      BY <1>0, <2>1, <3>2, <3>3, PotentialTraded
  <2> QED
    BY <2>2, <2>3
<1>11. ASSUME NEW b \in Backends, NEW t \in Tasks, AckUnheard(b, t)
       PROVE  Claim
  <2>1. /\ rows' = rows /\ Losses' >= Losses
        /\ Outstanding(u)' <= Outstanding(u)
    BY <1>11, <1>a DEF AckUnheard, Outstanding
  <2>2. Detached(u)' \subseteq Detached(u)
    BY <1>11 DEF AckUnheard, Detached, Unsettled, TypeOK
  <2> QED
    BY <1>0, <2>1, <2>2, PotentialKept
<1>12. ASSUME NEW b \in Backends, NEW t \in Tasks, SettleFails(b, t) \/ StoreFails(b, t)
       PROVE  Claim
  <2>1. /\ UNCHANGED <<rows, queue, holder>>
        /\ stage' = [stage EXCEPT ![b][t] = "none"]
    BY <1>12 DEF SettleFails, StoreFails, Finish
  <2>2. Losses' >= Losses
    BY <1>12, <1>a, LossesNext DEF SettleFails, StoreFails, Happens, AdverseEvents
  <2>3. Detached(u)' \subseteq Detached(u)
    BY <2>1 DEF Detached, Unsettled, TypeOK
  <2>4. Outstanding(u)' <= Outstanding(u)
    BY <2>1 DEF Outstanding
  <2> QED
    BY <1>0, <2>1, <2>2, <2>3, <2>4, PotentialKept
<1>13. ASSUME NEW b \in Backends, NEW t \in Tasks, Store(b, t)
       PROVE  Claim
  <2>1. /\ UNCHANGED <<queue, holder, used>>
        /\ stage' = [stage EXCEPT ![b][t] = "none"]
        /\ rows' = [rows EXCEPT ![t] = Append(@, outcome[b][t])]
        /\ stage[b][t] = "acked"
    BY <1>13 DEF Store, Finish
  <2>2. Losses' = Losses /\ Outstanding(u)' = Outstanding(u)
    BY <2>1 DEF Losses, Outstanding
  <2>3. CASE u # t
    <3>1. Detached(u)' \subseteq Detached(u) /\ rows'[u] = rows[u]
      BY <2>1, <2>3 DEF Detached, Unsettled, TypeOK
    <3> QED
      BY <1>0, <2>2, <3>1, PotentialKept, PotentialParts
  <2>4. CASE u = t
    <3>1. Detached(u)' = Detached(u) \ {b} /\ b \in Detached(u)
      BY <2>1, <2>4 DEF Detached, Unsettled, TypeOK
    <3>2. rows[u] \in Seq(Outcomes) /\ outcome[b][t] \in Outcomes
      BY <2>4 DEF TypeOK
    <3>3. Len(rows'[u]) = Len(rows[u]) + 1
      BY <2>1, <2>4, <3>2 DEF TypeOK
    <3>4. Cardinality(Detached(u)') = Cardinality(Detached(u)) - 1
      BY <3>1, PotentialParts, DetachedFinite, FS_RemoveElement
    <3> QED
      BY <2>2, <3>3, <3>4, PotentialParts DEF Potential
  <2> QED
    BY <2>3, <2>4
<1>14. ASSUME NEW b \in Backends, WakeUp(b) \/ Restart(b)
       PROVE  Claim
  BY <1>0, <1>a, <1>14, PotentialFrame DEF WakeUp, Restart
<1>15. ASSUME NEW b \in Backends, Disconnect(b) \/ Crash(b)
       PROVE  Claim
  <2>1. rows' = rows /\ Losses' = Losses + 1
    BY <1>15, LossesNext DEF Disconnect, Crash, Happens, AdverseEvents
  <2>2. ASSUME NEW d \in Backends, Unsettled(d, u)' \/ stage'[d][u] = "acked"
        PROVE  stage'[d][u] = stage[d][u]
    <3>1. CASE stage' = stage
      BY <3>1
    <3>2. CASE stage' = [stage EXCEPT ![b] = [t \in Tasks |-> "none"]]
      BY <2>2, <3>2 DEF Unsettled, TypeOK
    <3> QED
      BY <1>15, <3>1, <3>2 DEF Disconnect, Crash
  <2>3. holder'[u] = IF u \in Held(b) THEN NoBackend ELSE holder[u]
    BY <1>15 DEF Disconnect, Crash, LoseConnection
  <2>4. queue'[u] \in {"gone", IF u \in Held(b) THEN "ready" ELSE queue[u]}
    BY <1>15 DEF Disconnect, Crash, LoseConnection
  <2>5. Detached(u)' \subseteq Detached(u) \union {b}
    BY <2>2, <2>3 DEF Detached, Unsettled, Held
  <2>6. CASE queue[u] = "acking"
    <3>1. ~ Unsettled(b, u) \/ holder[u] # b
      BY <2>6 DEF HolderInv, LinkInv
    <3>2. Detached(u)' \subseteq Detached(u)
      BY <2>2, <2>3, <3>1 DEF Detached, Unsettled, Held
    <3> QED
      BY <1>0, <2>1, <3>2, PotentialRestored
  <2>7. CASE queue[u] # "acking"
    <3>1. Outstanding(u)' <= Outstanding(u)
      BY <2>4, <2>7 DEF Outstanding, HolderInv, Held
    <3> QED
      BY <1>0, <2>1, <2>5, <3>1, PotentialPaid
  <2> QED
    BY <2>6, <2>7
<1>16. CASE RestartBroker
  <2>1. rows' = rows /\ stage' = stage /\ holder'[u] = NoBackend
    BY <1>16 DEF RestartBroker
  <2>2. Losses' >= Losses
    BY <1>16, LossesNext DEF RestartBroker, Happens, AdverseEvents
  <2>3. queue'[u] = IF queue[u] = "absent" THEN "absent" ELSE "gone"
    BY <1>16 DEF RestartBroker
  <2>4. Outstanding(u)' <= Outstanding(u)
    BY <2>3 DEF Outstanding
  <2>5. CASE \E d \in Backends : holder[u] = d /\ Unsettled(d, u)
    <3>1. PICK d \in Backends : holder[u] = d /\ Unsettled(d, u)
      BY <2>5
    <3>2. queue[u] = "unacked"
      BY <3>1 DEF HolderInv, LinkInv
    <3>3. Outstanding(u) = 1 /\ Outstanding(u)' = 0
      BY <2>3, <3>2 DEF Outstanding
    <3>4. Detached(u)' \subseteq Detached(u) \union {d}
      BY <2>1, <3>1 DEF Detached, Unsettled
    <3> QED
      BY <1>0, <2>1, <2>2, <3>3, <3>4, PotentialTraded
  <2>6. CASE \A d \in Backends : ~ (holder[u] = d /\ Unsettled(d, u))
    <3>1. Detached(u)' \subseteq Detached(u)
      BY <2>1, <2>6 DEF Detached, Unsettled
    <3> QED
      BY <1>0, <2>1, <2>2, <2>4, <3>1, PotentialKept
  <2> QED
    BY <2>5, <2>6
<1>17. CASE UNCHANGED vars
  BY <1>0, <1>a, <1>17, PotentialFrame DEF vars
<1> HIDE DEF Claim, http, broker, work
<1> QED
  BY <1>1, <1>2, <1>3, <1>4, <1>5, <1>6, <1>7, <1>8, <1>9, <1>10, <1>11, <1>12,
     <1>13, <1>14, <1>15, <1>16, <1>17 DEF Next, Handle

LEMMA RowsNext ==
  ASSUME TypeOK, HolderInv, LinkInv, RowsInv, [Next]_vars
  PROVE  RowsInv'
<1> SUFFICES ASSUME NEW u \in Tasks
             PROVE  Potential(u)' <= 1 + Losses'
  BY DEF RowsInv
<1>1. Potential(u)' + Losses <= Potential(u) + Losses'
  BY PotentialNext
<1>2. Potential(u) <= 1 + Losses
  BY DEF RowsInv
<1>3. Potential(u) \in Nat /\ Losses \in Nat
  BY PotentialParts DEF Potential
<1>4. Potential(u)' \in Nat /\ Losses' \in Nat
  <2>1. TypeOK'
    BY TypeNext
  <2>2. used'["crash"] \in Nat /\ used'["disconnect"] \in Nat
    BY <2>1 DEF TypeOK, AdverseEvents
  <2>3. Detached(u)' \in SUBSET Backends
    BY DEF Detached
  <2>4. Cardinality(Detached(u)') \in Nat
    BY <2>3, DetachedFinite
  <2>5. Len(rows'[u]) \in Nat
    BY <2>1 DEF TypeOK
  <2>6. Outstanding(u)' \in Nat
    BY DEF Outstanding
  <2> QED
    BY <2>2, <2>4, <2>5, <2>6 DEF Potential, Losses
<1> QED
  BY <1>1, <1>2, <1>3, <1>4

-----------------------------------------------------------------------------
(* The inductive invariant and what it implies.                            *)

LEMMA IInvInit == Init => IInv
<1> SUFFICES ASSUME Init
             PROVE  IInv
  OBVIOUS
<1>1. TypeOK
  BY TypeInit
<1>2. HolderInv /\ LinkInv /\ RequeueInv
  BY DEF Init, HolderInv, LinkInv, RequeueInv, Unsettled
<1>3. LimitInv
  <2>1. ASSUME NEW b \in Backends
        PROVE  Held(b) = {} /\ InProgress(b) = {}
    BY DEF Init, Held, InProgress
  <2> QED
    BY <2>1, FS_EmptySet, SMTT(30) DEF LimitInv
<1>4. RowsInv
  <2>1. ASSUME NEW t \in Tasks
        PROVE  Detached(t) = {} /\ Len(rows[t]) = 0 /\ Outstanding(t) = 1
    BY DEF Init, Detached, Outstanding, Unsettled
  <2>2. Losses = 0
    BY DEF Init, Losses, AdverseEvents
  <2>3. \A t \in Tasks : Cardinality(Detached(t)) = 0
    BY <2>1, FS_EmptySet
  <2> QED
    BY <2>1, <2>2, <2>3 DEF RowsInv, Potential
<1> QED
  BY <1>1, <1>2, <1>3, <1>4 DEF IInv

LEMMA IInvNext == IInv /\ [Next]_vars => IInv'
<1> SUFFICES ASSUME TypeOK, HolderInv, LinkInv, RequeueInv, LimitInv, RowsInv, [Next]_vars
             PROVE  IInv'
  BY DEF IInv
<1>1. TypeOK' /\ HolderInv' /\ LinkInv'
  BY TypeNext, HolderNext, LinkNext
<1>2. RequeueInv' /\ LimitInv' /\ RowsInv'
  BY <1>1, RequeueNext, LimitNext, RowsNext
<1> QED
  BY <1>1, <1>2 DEF IInv

\* Every reachable state satisfies the inductive invariant.
THEOREM Invariant == Spec => []IInv
  BY IInvInit, IInvNext, PTL DEF Spec

\* An unknown result or an error puts a task back into the queue at most once,
\* whatever backends, redeliveries and crashes it meets: RequeuedOnce.
THEOREM RequeuedAtMostOnce == Spec => []RequeuedOnce
<1>1. IInv => RequeuedOnce
  BY DEF IInv, RequeueInv, RequeuedOnce
<1> QED
  BY <1>1, Invariant, PTL

\* No worker verifies more emails at once than its configured concurrency, before
\* and after it has lost its channel: ConcurrencyBound.
THEOREM ConcurrencyIsBounded == Spec => []ConcurrencyBound
<1>1. IInv => ConcurrencyBound
  BY DEF IInv, LimitInv, ConcurrencyBound
<1> QED
  BY <1>1, Invariant, PTL

\* A task has one row in v1_task_result and at most one more for every crash and
\* every lost connection: RowsBound.
THEOREM RowsAreBounded == Spec => []RowsBound
<1>1. IInv => RowsBound
  <2> SUFFICES ASSUME IInv, NEW t \in Tasks
               PROVE  Len(rows[t]) <= 1 + used["crash"] + used["disconnect"]
    BY DEF RowsBound
  <2>1. Potential(t) <= 1 + Losses
    BY DEF IInv, RowsInv
  <2>2. TypeOK
    BY DEF IInv
  <2>3. /\ Cardinality(Detached(t)) \in Nat /\ Len(rows[t]) \in Nat
        /\ Outstanding(t) \in {0, 1}
    BY <2>2, PotentialParts
  <2>4. used["crash"] \in Nat /\ used["disconnect"] \in Nat
    BY <2>2 DEF TypeOK, AdverseEvents
  <2> QED
    BY <2>1, <2>3, <2>4 DEF Potential, Losses
<1> QED
  BY <1>1, Invariant, PTL
=============================================================================
