--------------------------- MODULE SingleShotProofs ---------------------------
(***************************************************************************)
(* Proofs about SingleShot: type correctness, that a request is answered   *)
(* at most once, and that an answered request is gone from the queue, for  *)
(* any number of requests, bulk tasks, backends and adverse events.        *)
(*                                                                         *)
(* Everything a backend sends goes over one channel, in order, and what is *)
(* sent is lost only with the whole channel: the lemmas on Frames say what *)
(* sending, handling and losing frames does to the frames of one task.     *)
(***************************************************************************)
EXTENDS SingleShot, SequenceTheorems, TLAPS

USE TasksAssumption, BackendsAssumption, BudgetAssumption

-----------------------------------------------------------------------------
(* Frames in flight.                                                       *)

FrameTypes == FrameKinds \X Tasks

\* What one frame more does to the frames of a kind about a task.
LEMMA SentOne ==
  ASSUME wire \in [Backends -> Seq(FrameTypes)], NEW b \in Backends, NEW f \in FrameTypes,
         Send(b, <<f>>), NEW c \in Backends, NEW K, NEW t, NEW k
  PROVE  /\ wire' \in [Backends -> Seq(FrameTypes)]
         /\ k \in Frames(c, K, t)' <=>
              \/ k \in Frames(c, K, t)
              \/ c = b /\ k = Len(wire[b]) + 1 /\ f[1] \in K /\ f[2] = t
         /\ Len(wire'[c]) = IF c = b THEN Len(wire[c]) + 1 ELSE Len(wire[c])
         /\ Len(wire[c]) \in Nat
         /\ k \in Frames(c, K, t) => k \in Nat /\ k <= Len(wire[c])
<1> DEFINE w == wire[b]
<1>1. w \in Seq(FrameTypes) /\ <<f>> \in Seq(FrameTypes) /\ Len(<<f>>) = 1
  OBVIOUS
<1>2. /\ w \o <<f>> \in Seq(FrameTypes) /\ Len(w \o <<f>>) = Len(w) + 1
      /\ \A i \in 1..(Len(w) + 1) : (w \o <<f>>)[i] = IF i <= Len(w) THEN w[i] ELSE <<f>>[i - Len(w)]
  <2> HIDE DEF w
  <2> QED
    BY <1>1, ConcatProperties
<1>3. wire' = [wire EXCEPT ![b] = w \o <<f>>]
  BY DEF Send
<1>4. wire' \in [Backends -> Seq(FrameTypes)] /\ wire'[b] = w \o <<f>>
      /\ \A d \in Backends : d # b => wire'[d] = wire[d]
  <2> HIDE DEF w
  <2> QED
    BY <1>2, <1>3
<1>5. Len(w) \in Nat /\ DOMAIN w = 1..Len(w) /\ DOMAIN wire'[b] = 1..(Len(w) + 1)
  BY <1>1, <1>2, <1>4
<1>6. wire'[b][Len(w) + 1] = f /\ \A i \in 1..Len(w) : wire'[b][i] = w[i]
  <2> HIDE DEF w
  <2>1. Len(w) + 1 \in 1..(Len(w) + 1) /\ (Len(w) + 1) - Len(w) = 1
    BY <1>5
  <2> QED
    BY <1>2, <1>4, <1>5, <2>1
<1>7. Len(wire[c]) \in Nat /\ (k \in Frames(c, K, t) => k \in Nat /\ k <= Len(wire[c]))
  <2>1. Len(wire[c]) \in Nat /\ DOMAIN wire[c] = 1..Len(wire[c])
    OBVIOUS
  <2> QED
    BY <2>1 DEF Frames
<1>8. CASE c = b
  <2>1. k \in Frames(b, K, t)' <=>
          k \in Frames(b, K, t) \/ (k = Len(w) + 1 /\ f[1] \in K /\ f[2] = t)
    BY <1>5, <1>6 DEF Frames
  <2> QED
    BY <1>2, <1>4, <1>7, <1>8, <2>1
<1>9. CASE c # b
  BY <1>4, <1>7, <1>9 DEF Frames
<1> QED
  BY <1>8, <1>9

\* The same of two.
LEMMA SentTwo ==
  ASSUME wire \in [Backends -> Seq(FrameTypes)], NEW b \in Backends,
         NEW f \in FrameTypes, NEW g \in FrameTypes,
         Send(b, <<f, g>>), NEW c \in Backends, NEW K, NEW t, NEW k
  PROVE  /\ wire' \in [Backends -> Seq(FrameTypes)]
         /\ k \in Frames(c, K, t)' <=>
              \/ k \in Frames(c, K, t)
              \/ c = b /\ k = Len(wire[b]) + 1 /\ f[1] \in K /\ f[2] = t
              \/ c = b /\ k = Len(wire[b]) + 2 /\ g[1] \in K /\ g[2] = t
         /\ Len(wire'[c]) = IF c = b THEN Len(wire[c]) + 2 ELSE Len(wire[c])
         /\ Len(wire[c]) \in Nat
         /\ k \in Frames(c, K, t) => k \in Nat /\ k <= Len(wire[c])
<1> DEFINE w == wire[b]
<1>1. w \in Seq(FrameTypes) /\ <<f, g>> \in Seq(FrameTypes) /\ Len(<<f, g>>) = 2
  OBVIOUS
<1>2. /\ w \o <<f, g>> \in Seq(FrameTypes) /\ Len(w \o <<f, g>>) = Len(w) + 2
      /\ \A i \in 1..(Len(w) + 2) : (w \o <<f, g>>)[i] = IF i <= Len(w) THEN w[i] ELSE <<f, g>>[i - Len(w)]
  <2> HIDE DEF w
  <2> QED
    BY <1>1, ConcatProperties
<1>3. wire' = [wire EXCEPT ![b] = w \o <<f, g>>]
  BY DEF Send
<1>4. wire' \in [Backends -> Seq(FrameTypes)] /\ wire'[b] = w \o <<f, g>>
      /\ \A d \in Backends : d # b => wire'[d] = wire[d]
  <2> HIDE DEF w
  <2> QED
    BY <1>2, <1>3
<1>5. Len(w) \in Nat /\ DOMAIN w = 1..Len(w) /\ DOMAIN wire'[b] = 1..(Len(w) + 2)
  BY <1>1, <1>2, <1>4
<1>6. /\ wire'[b][Len(w) + 1] = f /\ wire'[b][Len(w) + 2] = g
      /\ \A i \in 1..Len(w) : wire'[b][i] = w[i]
  <2> HIDE DEF w
  <2>1. /\ Len(w) + 1 \in 1..(Len(w) + 2) /\ (Len(w) + 1) - Len(w) = 1
        /\ Len(w) + 2 \in 1..(Len(w) + 2) /\ (Len(w) + 2) - Len(w) = 2
    BY <1>5
  <2> QED
    BY <1>2, <1>4, <1>5, <2>1
<1>7. Len(wire[c]) \in Nat /\ (k \in Frames(c, K, t) => k \in Nat /\ k <= Len(wire[c]))
  <2>1. Len(wire[c]) \in Nat /\ DOMAIN wire[c] = 1..Len(wire[c])
    OBVIOUS
  <2> QED
    BY <2>1 DEF Frames
<1>8. CASE c = b
  <2>1. k \in Frames(b, K, t)' <=>
          \/ k \in Frames(b, K, t)
          \/ k = Len(w) + 1 /\ f[1] \in K /\ f[2] = t
          \/ k = Len(w) + 2 /\ g[1] \in K /\ g[2] = t
    BY <1>5, <1>6 DEF Frames
  <2> QED
    BY <1>2, <1>4, <1>7, <1>8, <2>1
<1>9. CASE c # b
  BY <1>4, <1>7, <1>9 DEF Frames
<1> QED
  BY <1>8, <1>9

\* What the broker does to them when it handles the first one.
LEMMA Handled ==
  ASSUME wire \in [Backends -> Seq(FrameTypes)], NEW b \in Backends, wire[b] # <<>>,
         wire' = [wire EXCEPT ![b] = Tail(@)], NEW c \in Backends, NEW K, NEW t, NEW k
  PROVE  /\ wire' \in [Backends -> Seq(FrameTypes)]
         /\ k \in Frames(c, K, t)' <=>
              IF c = b THEN k \in Nat \ {0} /\ k + 1 \in Frames(b, K, t) ELSE k \in Frames(c, K, t)
         /\ Len(wire'[c]) = IF c = b THEN Len(wire[c]) - 1 ELSE Len(wire[c])
         /\ Len(wire[c]) \in Nat
         /\ 1 \in Frames(b, K, t) <=> Head(wire[b])[1] \in K /\ Head(wire[b])[2] = t
         /\ k \in Frames(c, K, t) => k \in Nat \ {0}
         /\ Head(wire[b]) \in FrameTypes
<1> DEFINE w == wire[b]
<1>1. w \in Seq(FrameTypes) /\ w # <<>>
  OBVIOUS
<1>2. /\ Len(w) \in Nat \ {0} /\ DOMAIN w = 1..Len(w) /\ Head(w) = w[1] /\ Head(w) \in FrameTypes
      /\ Tail(w) \in Seq(FrameTypes) /\ Len(Tail(w)) = Len(w) - 1
      /\ \A i \in 1..(Len(w) - 1) : Tail(w)[i] = w[i + 1]
  <2> HIDE DEF w
  <2> QED
    BY <1>1
<1>3. wire' \in [Backends -> Seq(FrameTypes)] /\ wire'[b] = Tail(w)
      /\ \A d \in Backends : d # b => wire'[d] = wire[d]
  BY <1>2
<1>4. Len(wire[c]) \in Nat /\ (k \in Frames(c, K, t) => k \in Nat \ {0})
  <2>1. Len(wire[c]) \in Nat /\ DOMAIN wire[c] = 1..Len(wire[c])
    OBVIOUS
  <2> QED
    BY <2>1 DEF Frames
<1>5. 1 \in Frames(b, K, t) <=> Head(w)[1] \in K /\ Head(w)[2] = t
  BY <1>2 DEF Frames
<1>6. CASE c = b
  <2>1. DOMAIN wire'[b] = 1..(Len(w) - 1)
    BY <1>2, <1>3
  <2>2. k \in Frames(b, K, t)' <=> k \in Nat \ {0} /\ k + 1 \in Frames(b, K, t)
    <3> HIDE DEF w
    <3>1. ASSUME k \in Nat \ {0}
          PROVE  k \in Frames(b, K, t)' <=> k + 1 \in Frames(b, K, t)
      <4>1. k \in 1..(Len(w) - 1) <=> k + 1 \in 1..Len(w)
        BY <1>2, <3>1
      <4> QED
        BY <1>2, <1>3, <2>1, <4>1 DEF Frames, w
    <3>2. k \in Frames(b, K, t)' => k \in Nat \ {0}
      BY <1>2, <2>1 DEF Frames
    <3> QED
      BY <3>1, <3>2
  <2> QED
    BY <1>2, <1>3, <1>4, <1>5, <1>6, <2>2
<1>7. CASE c # b
  BY <1>2, <1>3, <1>4, <1>5, <1>7 DEF Frames
<1> QED
  BY <1>6, <1>7

LEMMA Cleared ==
  ASSUME wire \in [Backends -> Seq(FrameTypes)], NEW b \in Backends,
         wire' = [wire EXCEPT ![b] = <<>>], NEW c \in Backends, NEW K, NEW t, NEW k
  PROVE  /\ wire' \in [Backends -> Seq(FrameTypes)]
         /\ k \in Frames(c, K, t)' <=> c # b /\ k \in Frames(c, K, t)
         /\ c # b => wire'[c] = wire[c]
  BY DEF Frames

LEMMA WireType ==
  ASSUME TypeOK
  PROVE  wire \in [Backends -> Seq(FrameTypes)]
  BY DEF TypeOK, FrameTypes

-----------------------------------------------------------------------------
(* Type correctness.                                                       *)

LEMMA TypeInit == Init => TypeOK
  BY DEF Init, TypeOK, AdverseEvents, NoReply, Answers, Tasks

LEMMA TypeHappens ==
  ASSUME TypeOK, NEW f \in AdverseEvents, Happens(f)
  PROVE  used' \in [AdverseEvents -> Nat]
  BY DEF Happens, TypeOK

LEMMA TypeSend ==
  ASSUME TypeOK, NEW b \in Backends, NEW f \in FrameTypes, Send(b, <<f>>)
  PROVE  wire' \in [Backends -> Seq(FrameKinds \X Tasks)]
<1> QED
  BY WireType, SentOne DEF FrameTypes

LEMMA TypeEnd ==
  ASSUME TypeOK, NEW b \in Backends, NEW t \in Tasks, EndTask(b, t)
  PROVE  /\ stage' \in [Backends -> [Tasks -> {"none", "running", "acked"}]]
         /\ flagged' \in [Backends -> [Tasks -> BOOLEAN]]
  BY DEF EndTask, TypeOK

LEMMA TypeFrame ==
  ASSUME TypeOK, NEW b \in Backends, HandleFrame(b)
  PROVE  TypeOK'
<1> DEFINE kind == Head(wire[b])[1]
           t == Head(wire[b])[2]
           Replies == [at : {"none", "queued", "unacked"}, is : Answers]
<1>1. wire' \in [Backends -> Seq(FrameKinds \X Tasks)] /\ kind \in FrameKinds /\ t \in Tasks
  BY WireType, Handled DEF HandleFrame, FrameTypes
<1>2. queue' \in [Tasks -> {"absent", "ready", "unacked", "gone"}]
  BY DEF HandleFrame, TypeOK
<1>3. redelivered' \in [Tasks -> BOOLEAN]
  BY DEF HandleFrame, TypeOK
<1>4. holder' \in [Tasks -> Backends \union {NoBackend}]
  BY DEF HandleFrame, TypeOK
<1>5. reply' \in [Requests -> Replies]
  <2>1. reply \in [Requests -> Replies]
    BY DEF TypeOK
  <2>2. NoReply \in Replies
    BY DEF NoReply, Answers
  <2>3. kind \in Answers => [at |-> "queued", is |-> kind] \in Replies
    OBVIOUS
  <2>4. \/ reply' = reply
        \/ kind \in Answers /\ reply' = [reply EXCEPT ![t] = [at |-> "queued", is |-> kind]]
        \/ reply' = [reply EXCEPT ![t] = NoReply]
    BY DEF HandleFrame
  <2> HIDE DEF Replies, kind, t
  <2> QED
    BY <2>1, <2>2, <2>3, <2>4
<1>6. replies' \in [Requests -> Nat]
  <2>1. replies' = replies \/ replies' = [replies EXCEPT ![t] = @ + 1]
    BY DEF HandleFrame
  <2>2. replies \in [Requests -> Nat]
    BY DEF TypeOK
  <2> HIDE DEF t
  <2> QED
    BY <2>1, <2>2
<1> QED
  BY <1>1, <1>2, <1>3, <1>4, <1>5, <1>6 DEF HandleFrame, TypeOK, work

LEMMA TypeLose ==
  ASSUME TypeOK, NEW b \in Backends, NEW answer \in {"broken", "dead"}, LoseConnection(b, answer)
  PROVE  /\ http' \in [Requests -> {"new", "refused", "broken", "dead"} \union Pending \union Answers]
         /\ wire' \in [Backends -> Seq(FrameKinds \X Tasks)]
         /\ queue' \in [Tasks -> {"absent", "ready", "unacked", "gone"}]
         /\ redelivered' \in [Tasks -> BOOLEAN]
         /\ holder' \in [Tasks -> Backends \union {NoBackend}]
         /\ reply' \in [Requests -> [at : {"none", "queued", "unacked"}, is : Answers]]
<1>1. http' \in [Requests -> {"new", "refused", "broken", "dead"} \union Pending \union Answers]
  BY DEF LoseConnection, TypeOK
<1>2. wire' \in [Backends -> Seq(FrameKinds \X Tasks)]
  BY WireType, Cleared DEF LoseConnection, FrameTypes
<1>3. queue' \in [Tasks -> {"absent", "ready", "unacked", "gone"}]
  BY DEF LoseConnection, TypeOK
<1>4. redelivered' \in [Tasks -> BOOLEAN]
  BY Zenon DEF LoseConnection, TypeOK
<1>5. holder' \in [Tasks -> Backends \union {NoBackend}]
  BY DEF LoseConnection, TypeOK
<1>6. reply' \in [Requests -> [at : {"none", "queued", "unacked"}, is : Answers]]
  BY DEF LoseConnection, TypeOK, NoReply, Answers
<1> QED
  BY <1>1, <1>2, <1>3, <1>4, <1>5, <1>6

LEMMA TypeNext ==
  ASSUME TypeOK, [Next]_vars
  PROVE  TypeOK'
<1> USE DEF broker, work
<1>a. Requests \subseteq Tasks /\ Bulk \subseteq Tasks
  BY DEF Tasks
<1>b. \A k \in FrameKinds, t \in Tasks : <<k, t>> \in FrameTypes
  BY DEF FrameTypes
<1>1. ASSUME NEW r \in Requests, Refuse(r)
      PROVE  TypeOK'
  <2>1. used' \in [AdverseEvents -> Nat]
    BY <1>1, TypeHappens DEF Refuse, AdverseEvents
  <2> QED
    BY <1>1, <2>1 DEF Refuse, TypeOK
<1>2. ASSUME NEW r \in Requests, NEW b \in Backends, Call(r, b)
      PROVE  TypeOK'
  <2>1. wire' \in [Backends -> Seq(FrameKinds \X Tasks)]
    BY <1>a, <1>b, <1>2, TypeSend DEF Call, FrameKinds
  <2> QED
    BY <1>2, <2>1 DEF Call, TypeOK, Pending
<1>3. ASSUME NEW r \in Requests, NEW b \in Backends, CallFails(r, b)
      PROVE  TypeOK'
  BY <1>3 DEF CallFails, TypeOK
<1>4. ASSUME NEW r \in Requests, Consume(r)
      PROVE  TypeOK'
  BY <1>4 DEF Consume, TypeOK, Pending
<1>5. ASSUME NEW r \in Requests, server[r] \in Backends, TakeReply(r)
      PROVE  TypeOK'
  <2>1. wire' \in [Backends -> Seq(FrameKinds \X Tasks)]
    BY <1>a, <1>b, <1>5, TypeSend DEF TakeReply, FrameKinds
  <2> QED
    BY <1>5, <2>1 DEF TakeReply, TypeOK
<1>6. ASSUME NEW r \in Requests, server[r] \notin Backends, TakeReply(r)
      PROVE  TypeOK'
  <2>1. wire' = wire
    BY <1>6 DEF TakeReply, Send, TypeOK
  <2> QED
    BY <1>6, <2>1 DEF TakeReply, TypeOK
<1>7. ASSUME NEW b \in Backends, HandleFrame(b)
      PROVE  TypeOK'
  BY <1>7, TypeFrame
<1>8. ASSUME NEW b \in Backends, NEW t \in Tasks, Deliver(b, t)
      PROVE  TypeOK'
  BY <1>8 DEF Deliver, TypeOK
<1>9. ASSUME NEW r \in Requests, DeliverReply(r)
      PROVE  TypeOK'
  BY <1>9 DEF DeliverReply, TypeOK
<1>10. ASSUME NEW b \in Backends, NEW r \in Requests, ThrottleSingle(b, r)
       PROVE  TypeOK'
  <2>1. wire' \in [Backends -> Seq(FrameKinds \X Tasks)]
    <3>1. <<"discard", r>> \in FrameTypes /\ <<"busy", r>> \in FrameTypes
      BY <1>a, <1>b DEF FrameKinds
    <3> QED
      BY <1>10, <3>1, WireType, SentTwo DEF ThrottleSingle, FrameTypes
  <2>2. used' \in [AdverseEvents -> Nat]
    BY <1>10, TypeHappens DEF ThrottleSingle, AdverseEvents
  <2> QED
    BY <1>10, <2>1, <2>2 DEF ThrottleSingle, TypeOK
<1>11. ASSUME NEW b \in Backends, NEW t \in Bulk, ThrottleBulk(b, t)
       PROVE  TypeOK'
  <2>1. wire' \in [Backends -> Seq(FrameKinds \X Tasks)]
    BY <1>a, <1>b, <1>11, TypeSend DEF ThrottleBulk, FrameKinds
  <2>2. used' \in [AdverseEvents -> Nat]
    BY <1>11, TypeHappens DEF ThrottleBulk, AdverseEvents
  <2>3. loop' \in [Backends -> {"consuming", "sleeping", "ended", "down"}]
    BY <1>11 DEF ThrottleBulk, TypeOK
  <2> QED
    BY <1>11, <2>1, <2>2, <2>3 DEF ThrottleBulk, TypeOK
<1>12. ASSUME NEW b \in Backends, WakeUp(b) \/ Restart(b)
       PROVE  TypeOK'
  <2>1. loop' = [loop EXCEPT ![b] = "consuming"]
    BY <1>12 DEF WakeUp, Restart
  <2> QED
    BY <1>12, <2>1 DEF WakeUp, Restart, TypeOK
<1>13. ASSUME NEW b \in Backends, NEW t \in Tasks, StartTask(b, t)
       PROVE  TypeOK'
  <2>1. flagged' \in [Backends -> [Tasks -> BOOLEAN]]
    BY <1>13, Zenon DEF StartTask, TypeOK
  <2> QED
    BY <1>13, <2>1 DEF StartTask, TypeOK
<1>14. ASSUME NEW b \in Backends, NEW t \in Tasks,
              RequeueTask(b, t) \/ AckTask(b, t) \/ (t \in Requests /\ Reply(b, t))
       PROVE  TypeOK'
  <2>1. wire' \in [Backends -> Seq(FrameKinds \X Tasks)]
    <3>1. wire' = wire \/ \E k \in FrameKinds : Send(b, <<<<k, t>>>>)
      BY <1>14 DEF RequeueTask, AckTask, Reply, FrameKinds
    <3>2. CASE wire' = wire
      BY <3>2 DEF TypeOK
    <3> QED
      BY <1>b, <3>1, <3>2, TypeSend
  <2>2. /\ stage' \in [Backends -> [Tasks -> {"none", "running", "acked"}]]
        /\ flagged' \in [Backends -> [Tasks -> BOOLEAN]]
    <3>1. CASE EndTask(b, t)
      BY <3>1, TypeEnd
    <3>2. CASE stage' = [stage EXCEPT ![b][t] = "acked"] /\ UNCHANGED flagged
      BY <3>2 DEF TypeOK
    <3> QED
      BY <1>14, <3>1, <3>2 DEF RequeueTask, AckTask, Reply
  <2> QED
    BY <1>14, <2>1, <2>2 DEF RequeueTask, AckTask, Reply, TypeOK
<1>15. ASSUME NEW b \in Backends, Disconnect(b)
       PROVE  TypeOK'
  <2>1. LoseConnection(b, "broken")
    BY <1>15 DEF Disconnect
  <2>2. used' \in [AdverseEvents -> Nat]
    BY <1>15, TypeHappens DEF Disconnect, AdverseEvents
  <2>3. loop' \in [Backends -> {"consuming", "sleeping", "ended", "down"}]
    BY <1>15 DEF Disconnect, TypeOK
  <2> QED
    BY <1>15, <2>1, <2>2, <2>3, TypeLose DEF Disconnect, TypeOK
<1>16. ASSUME NEW b \in Backends, Crash(b)
       PROVE  TypeOK'
  <2>1. LoseConnection(b, "dead")
    BY <1>16 DEF Crash
  <2>2. used' \in [AdverseEvents -> Nat]
    BY <1>16, TypeHappens DEF Crash, AdverseEvents
  <2>3. loop' \in [Backends -> {"consuming", "sleeping", "ended", "down"}]
    BY <1>16 DEF Crash, TypeOK
  <2>4. /\ stage' \in [Backends -> [Tasks -> {"none", "running", "acked"}]]
        /\ flagged' \in [Backends -> [Tasks -> BOOLEAN]]
    BY <1>16 DEF Crash, TypeOK
  <2> QED
    BY <1>16, <2>1, <2>2, <2>3, <2>4, TypeLose DEF Crash, TypeOK
<1>17. CASE UNCHANGED vars
  BY <1>17 DEF vars, TypeOK
<1> HIDE DEF broker, work
<1> QED
  BY <1>a, <1>1, <1>2, <1>3, <1>4, <1>5, <1>6, <1>7, <1>8, <1>9, <1>10, <1>11, <1>12,
     <1>13, <1>14, <1>15, <1>16, <1>17 DEF Next

-----------------------------------------------------------------------------
(* What the steps do to the frames of a task.                              *)

\* The steps that send nothing and lose nothing.
LEMMA FramesKept ==
  ASSUME UNCHANGED wire, NEW b, NEW K, NEW t
  PROVE  Frames(b, K, t)' = Frames(b, K, t)
  BY DEF Frames

\* The steps that send a frame, or two.
LEMMA SentFrame ==
  ASSUME TypeOK, NEW b \in Backends, NEW kind \in FrameKinds, NEW u \in Tasks,
         Send(b, <<<<kind, u>>>>), NEW c \in Backends, NEW K, NEW t, NEW k
  PROVE  /\ k \in Frames(c, K, t)' <=>
              \/ k \in Frames(c, K, t)
              \/ c = b /\ k = Len(wire[b]) + 1 /\ kind \in K /\ u = t
         /\ Len(wire'[c]) = IF c = b THEN Len(wire[c]) + 1 ELSE Len(wire[c])
         /\ Len(wire[c]) \in Nat
         /\ k \in Frames(c, K, t) => k \in Nat /\ k <= Len(wire[c])
<1> DEFINE f == <<kind, u>>
<1>1. f \in FrameTypes /\ Send(b, <<f>>) /\ f[1] = kind /\ f[2] = u
  BY DEF FrameTypes
<1> HIDE DEF f
<1> QED
  BY <1>1, WireType, SentOne

LEMMA SentRefusal ==
  ASSUME TypeOK, NEW b \in Backends, NEW r \in Requests,
         Send(b, <<<<"discard", r>>, <<"busy", r>>>>), NEW c \in Backends, NEW K, NEW t, NEW k
  PROVE  /\ k \in Frames(c, K, t)' <=>
              \/ k \in Frames(c, K, t)
              \/ c = b /\ k = Len(wire[b]) + 1 /\ "discard" \in K /\ r = t
              \/ c = b /\ k = Len(wire[b]) + 2 /\ "busy" \in K /\ r = t
         /\ Len(wire'[c]) = IF c = b THEN Len(wire[c]) + 2 ELSE Len(wire[c])
         /\ Len(wire[c]) \in Nat
         /\ k \in Frames(c, K, t) => k \in Nat /\ k <= Len(wire[c])
<1> DEFINE f == <<"discard", r>>
           g == <<"busy", r>>
<1>1. /\ f \in FrameTypes /\ g \in FrameTypes /\ Send(b, <<f, g>>)
      /\ f[1] = "discard" /\ f[2] = r /\ g[1] = "busy" /\ g[2] = r
  BY DEF FrameTypes, FrameKinds, Tasks
<1> HIDE DEF f, g
<1> QED
  BY <1>1, WireType, SentTwo

\* The broker handles the first frame of a backend.
LEMMA HandledFrame ==
  ASSUME TypeOK, NEW b \in Backends, HandleFrame(b), NEW c \in Backends, NEW K, NEW t, NEW k
  PROVE  /\ k \in Frames(c, K, t)' <=>
              IF c = b THEN k \in Nat \ {0} /\ k + 1 \in Frames(b, K, t) ELSE k \in Frames(c, K, t)
         /\ Len(wire'[c]) = IF c = b THEN Len(wire[c]) - 1 ELSE Len(wire[c])
         /\ Len(wire[c]) \in Nat
         /\ k \in Frames(c, K, t) => k \in Nat \ {0}
<1>1. wire[b] # <<>> /\ wire' = [wire EXCEPT ![b] = Tail(@)]
  BY DEF HandleFrame
<1> QED
  BY <1>1, WireType, Handled

LEMMA FramesSub ==
  ASSUME NEW b, NEW K, NEW L, K \subseteq L, NEW t
  PROVE  Frames(b, K, t) \subseteq Frames(b, L, t)
  BY DEF Frames

-----------------------------------------------------------------------------
(* Messages and channels: HolderInv, PublishInv and SettleInv.             *)

LEMMA HolderKept ==
  ASSUME HolderInv, UNCHANGED <<queue, holder>>, \A b \in Backends : Connected(b) => Connected(b)'
  PROVE  HolderInv'
  BY DEF HolderInv

\* The steps of handlers, loops and executions leave the broker's messages alone
\* and close no channel.
LEMMA LocalSteps ==
  ASSUME TypeOK, [Next]_vars,
         \A b \in Backends : ~ HandleFrame(b) /\ ~ Disconnect(b) /\ ~ Crash(b),
         \A b \in Backends, t \in Tasks : ~ Deliver(b, t)
  PROVE  UNCHANGED <<queue, holder, replies>> /\ \A b \in Backends : Connected(b) => Connected(b)'
<1> USE DEF broker
<1>1. ASSUME NEW r \in Requests, Refuse(r) \/ Consume(r) \/ TakeReply(r) \/ DeliverReply(r)
      PROVE  UNCHANGED <<queue, holder, replies, loop>>
  BY <1>1 DEF Refuse, Consume, TakeReply, DeliverReply
<1>2. ASSUME NEW r \in Requests, NEW b \in Backends,
             Call(r, b) \/ CallFails(r, b) \/ ThrottleSingle(b, r) \/ Reply(b, r)
      PROVE  UNCHANGED <<queue, holder, replies, loop>>
  BY <1>2 DEF Call, CallFails, ThrottleSingle, Reply
<1>3. ASSUME NEW t \in Tasks, NEW b \in Backends, StartTask(b, t) \/ RequeueTask(b, t) \/ AckTask(b, t)
      PROVE  UNCHANGED <<queue, holder, replies, loop>>
  BY <1>3 DEF StartTask, RequeueTask, AckTask
<1>4. ASSUME NEW b \in Backends, WakeUp(b) \/ Restart(b) \/ \E t \in Bulk : ThrottleBulk(b, t)
      PROVE  UNCHANGED <<queue, holder, replies>> /\ loop' \in {[loop EXCEPT ![b] = "sleeping"],
                                                               [loop EXCEPT ![b] = "consuming"]}
  BY <1>4 DEF WakeUp, Restart, ThrottleBulk
<1>5. ASSUME UNCHANGED vars
      PROVE  UNCHANGED <<queue, holder, replies, loop>>
  BY <1>5 DEF vars
<1>6. ASSUME UNCHANGED loop
      PROVE  \A b \in Backends : Connected(b) => Connected(b)'
  BY <1>6 DEF Connected
<1>7. ASSUME NEW b \in Backends, loop' \in {[loop EXCEPT ![b] = "sleeping"],
                                           [loop EXCEPT ![b] = "consuming"]}
      PROVE  \A c \in Backends : Connected(c) => Connected(c)'
  BY <1>7 DEF Connected, TypeOK
<1> HIDE DEF broker
<1> QED
  BY <1>1, <1>2, <1>3, <1>4, <1>5, <1>6, <1>7 DEF Next

\* What handling a frame does to the message it is about.
LEMMA HandledMessage ==
  ASSUME TypeOK, NEW b \in Backends, HandleFrame(b), NEW u \in Tasks
  PROVE  /\ 1 \in Frames(b, {"publish"}, u) =>
              queue'[u] = "ready" /\ holder'[u] = holder[u]
         /\ 1 \in Frames(b, {"ack", "discard"}, u) =>
              queue'[u] = "gone" /\ holder'[u] = NoBackend
         /\ 1 \in Frames(b, {"requeue"}, u) =>
              queue'[u] = "ready" /\ holder'[u] = NoBackend
         /\ 1 \notin Frames(b, SettleKinds \union {"publish"}, u) =>
              queue'[u] = queue[u] /\ holder'[u] = holder[u]
<1> DEFINE kind == Head(wire[b])[1]
           t == Head(wire[b])[2]
<1>1. kind \in FrameKinds /\ t \in Tasks
  BY WireType, Handled DEF HandleFrame, FrameTypes
<1>2. ASSUME NEW K
      PROVE  1 \in Frames(b, K, u) <=> kind \in K /\ t = u
  BY WireType, Handled DEF HandleFrame
<1>3. \/ kind = "publish" /\ queue' = [queue EXCEPT ![t] = "ready"] /\ holder' = holder
      \/ /\ kind \in {"ack", "discard"} /\ queue' = [queue EXCEPT ![t] = "gone"]
         /\ holder' = [holder EXCEPT ![t] = NoBackend]
      \/ /\ kind = "requeue" /\ queue' = [queue EXCEPT ![t] = "ready"]
         /\ holder' = [holder EXCEPT ![t] = NoBackend]
      \/ kind \in {"ok", "busy", "taken"} /\ queue' = queue /\ holder' = holder
  BY DEF HandleFrame, Answers
<1> HIDE DEF kind, t
<1>4. CASE t = u
  BY <1>1, <1>2, <1>3, <1>4 DEF TypeOK, SettleKinds
<1>5. CASE t # u
  <2>1. queue'[u] = queue[u] /\ holder'[u] = holder[u]
    BY <1>1, <1>3, <1>5 DEF TypeOK
  <2> QED
    BY <1>2, <1>5, <2>1
<1> QED
  BY <1>4, <1>5

LEMMA HolderNext ==
  ASSUME TypeOK, HolderInv, PublishInv, [Next]_vars
  PROVE  HolderInv'
<1>1. ASSUME NEW b \in Backends, HandleFrame(b)
      PROVE  HolderInv'
  <2>1. loop' = loop
    BY <1>1 DEF HandleFrame
  <2>2. ASSUME NEW u \in Tasks
        PROVE  (holder'[u] # NoBackend <=> queue'[u] = "unacked") /\ holder'[u] \in {holder[u], NoBackend}
    <3>1. CASE 1 \in Frames(b, {"publish"}, u)
      <4>1. queue[u] = "absent" /\ holder'[u] = holder[u] /\ queue'[u] = "ready"
        BY <1>1, <3>1, HandledMessage DEF PublishInv
      <4> QED
        BY <4>1 DEF HolderInv
    <3>2. CASE 1 \in Frames(b, {"ack", "discard"}, u) \/ 1 \in Frames(b, {"requeue"}, u)
      BY <1>1, <3>2, HandledMessage
    <3>3. CASE 1 \notin Frames(b, SettleKinds \union {"publish"}, u)
      BY <1>1, <3>3, HandledMessage DEF HolderInv
    <3>4. QED
      BY <3>1, <3>2, <3>3 DEF Frames, SettleKinds
  <2> QED
    BY <2>1, <2>2 DEF HolderInv, Connected
<1>2. ASSUME NEW b \in Backends, NEW t \in Tasks, Deliver(b, t)
      PROVE  HolderInv'
  <2>1. /\ queue' = [queue EXCEPT ![t] = "unacked"] /\ holder' = [holder EXCEPT ![t] = b]
        /\ loop' = loop /\ Connected(b)
    BY <1>2 DEF Deliver
  <2> QED
    BY <2>1 DEF HolderInv, Connected, TypeOK
<1>3. ASSUME NEW b \in Backends, Disconnect(b) \/ Crash(b)
      PROVE  HolderInv'
  <2>1. /\ \A c \in Backends : c # b => loop'[c] = loop[c]
        /\ queue' = [t \in Tasks |-> IF t \in Held(b) THEN "ready" ELSE queue[t]]
        /\ holder' = [t \in Tasks |-> IF t \in Held(b) THEN NoBackend ELSE holder[t]]
    BY <1>3 DEF Disconnect, Crash, LoseConnection, TypeOK
  <2> QED
    BY <2>1 DEF HolderInv, Held, Connected
<1> QED
  BY <1>1, <1>2, <1>3, LocalSteps, HolderKept

LEMMA PublishKept ==
  ASSUME PublishInv,
         \A r \in Requests : /\ http'[r] = "new" => http[r] = "new"
                             /\ queue[r] = "absent" => queue'[r] = "absent",
         \A b \in Backends, t \in Tasks : Frames(b, {"publish"}, t)' \subseteq Frames(b, {"publish"}, t)
  PROVE  PublishInv'
<1>1. \A r \in Requests : http'[r] = "new" => queue'[r] = "absent"
  BY DEF PublishInv
<1>2. ASSUME NEW b \in Backends, NEW t \in Tasks, NEW k \in Frames(b, {"publish"}, t)'
      PROVE  /\ t \in Requests /\ http'[t] # "new" /\ queue'[t] = "absent"
             /\ \A c \in Backends : \A i \in Frames(c, {"publish"}, t)' : c = b /\ i = k
  BY <1>2 DEF PublishInv
<1> QED
  BY <1>1, <1>2 DEF PublishInv

LEMMA PublishNext ==
  ASSUME TypeOK, HolderInv, PublishInv, SettleInv, [Next]_vars
  PROVE  PublishInv'
<1> USE DEF broker, work
<1>a. wire \in [Backends -> Seq(FrameTypes)] /\ Requests \subseteq Tasks /\ Bulk \subseteq Tasks
  BY WireType DEF Tasks
<1>1. ASSUME NEW r \in Requests, Refuse(r) \/ Consume(r) \/ DeliverReply(r)
      PROVE  PublishInv'
  BY <1>1, FramesKept, PublishKept DEF Refuse, Consume, DeliverReply, TypeOK
<1>2. ASSUME NEW r \in Requests, NEW b \in Backends, CallFails(r, b)
      PROVE  PublishInv'
  BY <1>2, FramesKept, PublishKept DEF CallFails, TypeOK
<1>3. ASSUME NEW r \in Requests, NEW b \in Backends, Call(r, b)
      PROVE  PublishInv'
  <2>1. /\ http[r] = "new" /\ http' = [http EXCEPT ![r] = "publishing"]
        /\ Send(b, <<<<"publish", r>>>>) /\ queue' = queue
    BY <1>3 DEF Call
  <2>2. \A c \in Backends : Frames(c, {"publish"}, r) = {}
    BY <1>a, <2>1 DEF PublishInv
  <2>3. ASSUME NEW c \in Backends, NEW t \in Tasks
        PROVE  \A k \in Frames(c, {"publish"}, t)' :
                 IF t = r THEN c = b /\ k = Len(wire[b]) + 1 ELSE k \in Frames(c, {"publish"}, t)
    BY <1>a, <2>1, <2>2, SentFrame DEF FrameKinds
  <2>4. \A t \in Requests : http'[t] = IF t = r THEN "publishing" ELSE http[t]
    BY <2>1 DEF TypeOK
  <2>5. queue'[r] = "absent"
    BY <2>1 DEF PublishInv
  <2>6. \A t \in Requests : http'[t] = "new" => queue'[t] = "absent"
    BY <2>1, <2>4 DEF PublishInv
  <2>7. ASSUME NEW c \in Backends, NEW t \in Tasks, NEW k \in Frames(c, {"publish"}, t)'
        PROVE  /\ t \in Requests /\ http'[t] # "new" /\ queue'[t] = "absent"
               /\ \A d \in Backends : \A i \in Frames(d, {"publish"}, t)' : d = c /\ i = k
    <3>1. CASE t = r
      BY <2>3, <2>4, <2>5, <2>7, <3>1
    <3>2. CASE t # r
      BY <2>1, <2>3, <2>4, <2>7, <3>2 DEF PublishInv
    <3> QED
      BY <3>1, <3>2
  <2> QED
    BY <2>6, <2>7 DEF PublishInv
<1>4. ASSUME NEW r \in Requests, TakeReply(r)
      PROVE  PublishInv'
  <2>1. /\ queue' = queue /\ Send(server[r], <<<<"taken", r>>>>)
        /\ http' = [http EXCEPT ![r] = reply[r].is] /\ http[r] # "new"
    BY <1>4 DEF TakeReply
  <2>2. \A c \in Backends, t \in Tasks : Frames(c, {"publish"}, t)' \subseteq Frames(c, {"publish"}, t)
    <3>1. CASE server[r] \in Backends
      BY <1>a, <2>1, <3>1, SentFrame DEF FrameKinds
    <3>2. CASE server[r] \notin Backends
      <4>1. wire' = wire
        BY <1>a, <2>1, <3>2 DEF Send
      <4> QED
        BY <4>1, FramesKept
    <3> QED
      BY <3>1, <3>2
  <2>3. \A t \in Requests : http'[t] = "new" => http[t] = "new"
    BY <2>1 DEF TypeOK, Answers
  <2> QED
    BY <2>1, <2>2, <2>3, PublishKept
<1>5. ASSUME NEW b \in Backends, HandleFrame(b)
      PROVE  PublishInv'
  <2>1. http' = http
    BY <1>5 DEF HandleFrame
  <2>2. ASSUME NEW c \in Backends, NEW t \in Tasks
        PROVE  \A k \in Frames(c, {"publish"}, t)' :
                 k \in Nat \ {0} /\ (IF c = b THEN k + 1 ELSE k) \in Frames(c, {"publish"}, t)
    BY <1>5, HandledFrame
  <2>3. ASSUME NEW t \in Tasks, queue[t] = "absent", 1 \notin Frames(b, {"publish"}, t)
        PROVE  queue'[t] = "absent"
    <3>1. holder[t] = NoBackend
      BY <2>3 DEF HolderInv
    <3>2. Frames(b, SettleKinds, t) = {}
      BY <3>1 DEF SettleInv, SettledOnce
    <3>3. 1 \notin Frames(b, SettleKinds \union {"publish"}, t)
      BY <2>3, <3>2 DEF Frames
    <3> QED
      BY <1>5, <2>3, <3>3, HandledMessage
  <2>4. \A r \in Requests : http'[r] = "new" => queue'[r] = "absent"
    BY <1>a, <2>1, <2>3 DEF PublishInv
  <2>5. ASSUME NEW c \in Backends, NEW t \in Tasks, NEW k \in Frames(c, {"publish"}, t)'
        PROVE  /\ t \in Requests /\ http'[t] # "new" /\ queue'[t] = "absent"
               /\ \A d \in Backends : \A i \in Frames(d, {"publish"}, t)' : d = c /\ i = k
    <3> DEFINE at == IF c = b THEN k + 1 ELSE k
    <3>1. at \in Frames(c, {"publish"}, t) /\ k \in Nat \ {0}
      BY <2>2, <2>5
    <3>2. 1 \notin Frames(b, {"publish"}, t)
      BY <3>1 DEF PublishInv
    <3>3. /\ t \in Requests /\ http[t] # "new" /\ queue[t] = "absent"
          /\ \A d \in Backends : \A i \in Frames(d, {"publish"}, t) : d = c /\ i = at
      BY <3>1 DEF PublishInv
    <3>4. ASSUME NEW d \in Backends, NEW i \in Frames(d, {"publish"}, t)'
          PROVE  d = c /\ i = k
      <4>1. i \in Nat \ {0} /\ (IF d = b THEN i + 1 ELSE i) \in Frames(d, {"publish"}, t)
        BY <2>2, <3>4
      <4> QED
        BY <3>1, <3>3, <4>1
    <3> QED
      BY <2>1, <2>3, <3>2, <3>3, <3>4
  <2> QED
    BY <2>4, <2>5 DEF PublishInv
<1>6. ASSUME NEW b \in Backends, NEW t \in Tasks, Deliver(b, t)
      PROVE  PublishInv'
  BY <1>6, FramesKept, PublishKept DEF Deliver, TypeOK
<1>7. ASSUME NEW b \in Backends, NEW r \in Requests, ThrottleSingle(b, r)
      PROVE  PublishInv'
  <2>1. UNCHANGED <<http, queue>> /\ Send(b, <<<<"discard", r>>, <<"busy", r>>>>)
    BY <1>7 DEF ThrottleSingle
  <2>2. \A c \in Backends, t \in Tasks : Frames(c, {"publish"}, t)' \subseteq Frames(c, {"publish"}, t)
    BY <2>1, SentRefusal
  <2> QED
    BY <2>1, <2>2, PublishKept
<1>8. ASSUME NEW b \in Backends, NEW t \in Bulk, ThrottleBulk(b, t)
      PROVE  PublishInv'
  <2>1. UNCHANGED <<http, queue>> /\ Send(b, <<<<"requeue", t>>>>)
    BY <1>8 DEF ThrottleBulk
  <2>2. \A c \in Backends, u \in Tasks : Frames(c, {"publish"}, u)' \subseteq Frames(c, {"publish"}, u)
    BY <1>a, <2>1, SentFrame DEF FrameKinds
  <2> QED
    BY <2>1, <2>2, PublishKept
<1>9. ASSUME NEW b \in Backends, NEW t \in Tasks,
             RequeueTask(b, t) \/ AckTask(b, t) \/ Reply(b, t)
      PROVE  PublishInv'
  <2>1. UNCHANGED <<http, queue>>
    BY <1>9 DEF RequeueTask, AckTask, Reply
  <2>2. PICK k \in {"requeue", "ack", "ok"}, P \in BOOLEAN :
          IF P THEN Send(b, <<<<k, t>>>>) ELSE UNCHANGED wire
    <3>1. wire' = wire \/ \E k \in {"requeue", "ack", "ok"} : Send(b, <<<<k, t>>>>)
      BY <1>9 DEF RequeueTask, AckTask, Reply
    <3> QED
      BY <3>1
  <2>3. ASSUME NEW c \in Backends, NEW u \in Tasks, NEW i \in Frames(c, {"publish"}, u)'
        PROVE  i \in Frames(c, {"publish"}, u)
    <3>1. k \in FrameKinds /\ k # "publish"
      BY DEF FrameKinds
    <3>2. CASE P
      BY <2>2, <2>3, <3>1, <3>2, SentFrame
    <3>3. CASE ~ P
      BY <2>2, <2>3, <3>3, FramesKept
    <3> QED
      BY <3>2, <3>3
  <2> QED
    BY <2>1, <2>3, PublishKept
<1>10. ASSUME NEW b \in Backends, WakeUp(b) \/ Restart(b) \/ \E t \in Tasks : StartTask(b, t)
       PROVE  PublishInv'
  BY <1>10, FramesKept, PublishKept DEF WakeUp, Restart, StartTask
<1>11. ASSUME NEW b \in Backends, Disconnect(b) \/ Crash(b)
       PROVE  PublishInv'
  <2>1. PICK answer \in {"broken", "dead"} : LoseConnection(b, answer)
    BY <1>11 DEF Disconnect, Crash
  <2>2. \A c \in Backends, t \in Tasks : Frames(c, {"publish"}, t)' \subseteq Frames(c, {"publish"}, t)
    BY <1>a, <2>1, Cleared DEF LoseConnection
  <2>3. \A r \in Requests : http'[r] = "new" => http[r] = "new"
    BY <2>1 DEF LoseConnection
  <2>4. \A t \in Tasks : queue[t] = "absent" => queue'[t] = "absent"
    BY <2>1 DEF LoseConnection, Held, HolderInv
  <2> QED
    BY <1>a, <2>2, <2>3, <2>4, PublishKept
<1>12. CASE UNCHANGED vars
  BY <1>12, FramesKept, PublishKept DEF vars
<1> HIDE DEF broker, work
<1> QED
  BY <1>a, <1>1, <1>2, <1>3, <1>4, <1>5, <1>6, <1>7, <1>8, <1>9, <1>10, <1>11, <1>12 DEF Next

LEMMA SettleKept ==
  ASSUME NEW c \in Backends, NEW u \in Tasks, SettledOnce(c, u),
         \A k \in Frames(c, SettleKinds, u)' : k \in Frames(c, SettleKinds, u),
         holder'[u] = holder[u],
         stage'[c][u] = "running" /\ Connected(c)' => stage[c][u] = "running" /\ Connected(c),
         loop'[c] = "down" => stage'[c][u] = "none"
  PROVE  SettledOnce(c, u)'
<1>1. ASSUME NEW k \in Frames(c, SettleKinds, u)'
      PROVE  holder'[u] = c /\ \A i \in Frames(c, SettleKinds, u)' : i = k
  BY <1>1 DEF SettledOnce
<1>2. stage'[c][u] = "running" /\ Connected(c)' =>
        holder'[u] = c /\ Frames(c, SettleKinds, u)' = {}
  BY DEF SettledOnce
<1> QED
  BY <1>1, <1>2 DEF SettledOnce

\* A delivery that the loop has not taken yet is held and not settled.
LEMMA BufferedIsHeld ==
  ASSUME TypeOK, NEW b \in Backends, NEW t \in Tasks, Buffered(b, t)
  PROVE  holder[t] = b /\ stage[b][t] = "none" /\ Frames(b, SettleKinds, t) = {}
  BY DEF Buffered, Frames, SettleKinds

\* A delivery that is settled now is settled for the first time.
LEMMA SettleSent ==
  ASSUME TypeOK, NEW b \in Backends, NEW t \in Tasks, SettleInv,
         holder[t] = b, Frames(b, SettleKinds, t) = {},
         UNCHANGED holder, stage'[b][t] # "running",
         \A i, k \in Frames(b, SettleKinds, t)' : i = k,
         \A c \in Backends, u \in Tasks : c # b \/ u # t =>
            /\ \A k \in Frames(c, SettleKinds, u)' : k \in Frames(c, SettleKinds, u)
            /\ stage'[c][u] = stage[c][u],
         Connected(b), loop' = loop \/ loop' = [loop EXCEPT ![b] = "sleeping"]
  PROVE  SettleInv'
<1>a. \A c \in Backends : (Connected(c)' <=> Connected(c)) /\ (loop'[c] = "down" <=> loop[c] = "down")
  BY DEF Connected, TypeOK
<1>1. ASSUME NEW c \in Backends, NEW u \in Tasks, c # b \/ u # t
      PROVE  SettledOnce(c, u)'
  <2>1. SettledOnce(c, u) /\ (loop'[c] = "down" => stage'[c][u] = "none")
    BY <1>a, <1>1 DEF SettleInv, SettledOnce
  <2> QED
    BY <1>a, <1>1, <2>1, SettleKept
<1>2. SettledOnce(b, t)'
  BY <1>a DEF SettledOnce, Connected
<1> QED
  BY <1>1, <1>2 DEF SettleInv

LEMMA SettleNext ==
  ASSUME TypeOK, HolderInv, SettleInv, [Next]_vars
  PROVE  SettleInv'
<1> USE DEF broker, work
<1>a. wire \in [Backends -> Seq(FrameTypes)] /\ Requests \subseteq Tasks /\ Bulk \subseteq Tasks
  BY WireType DEF Tasks
<1>b. \A c \in Backends, u \in Tasks : SettledOnce(c, u)
  BY DEF SettleInv
<1>c. \A c \in Backends, u \in Tasks : loop[c] = "down" => stage[c][u] = "none"
  BY <1>b DEF SettledOnce
<1>1. ASSUME NEW r \in Requests, Refuse(r) \/ Consume(r) \/ DeliverReply(r)
      PROVE  SettleInv'
  <2>1. UNCHANGED <<wire, holder, stage, loop>>
    BY <1>1 DEF Refuse, Consume, DeliverReply
  <2> QED
    BY <1>b, <1>c, <2>1, FramesKept, SettleKept DEF SettleInv, Connected
<1>2. ASSUME NEW b \in Backends, NEW r \in Requests, CallFails(r, b)
      PROVE  SettleInv'
  <2>1. UNCHANGED <<wire, holder, stage, loop>>
    BY <1>2 DEF CallFails
  <2> QED
    BY <1>b, <1>c, <2>1, FramesKept, SettleKept DEF SettleInv, Connected
<1>3. ASSUME NEW r \in Requests, TakeReply(r) \/ \E b \in Backends : Call(r, b)
      PROVE  SettleInv'
  <2>1. UNCHANGED <<holder, stage, loop>>
    BY <1>3 DEF TakeReply, Call
  <2>2. \/ UNCHANGED wire
        \/ \E b \in Backends, kind \in {"taken", "publish"} : Send(b, <<<<kind, r>>>>)
    BY <1>a, <1>3 DEF TakeReply, Call, Send
  <2>3. ASSUME NEW c \in Backends, NEW u \in Tasks, NEW k \in Frames(c, SettleKinds, u)'
        PROVE  k \in Frames(c, SettleKinds, u)
    <3>1. CASE UNCHANGED wire
      BY <2>3, <3>1, FramesKept
    <3>2. ASSUME NEW b \in Backends, NEW kind \in {"taken", "publish"}, Send(b, <<<<kind, r>>>>)
          PROVE  k \in Frames(c, SettleKinds, u)
      <4>1. kind \in FrameKinds /\ kind \notin SettleKinds
        BY DEF FrameKinds, SettleKinds
      <4> QED
        BY <1>a, <2>3, <3>2, <4>1, SentFrame
    <3> QED
      BY <2>2, <3>1, <3>2
  <2> QED
    BY <1>b, <1>c, <2>1, <2>3, SettleKept DEF SettleInv, Connected
<1>4. ASSUME NEW b \in Backends, NEW r \in Requests, Reply(b, r)
      PROVE  SettleInv'
  <2>1. UNCHANGED <<holder, loop>> /\ stage' = [stage EXCEPT ![b][r] = "none"]
    BY <1>4 DEF Reply, EndTask
  <2>2. ASSUME NEW c \in Backends, NEW u \in Tasks, NEW k \in Frames(c, SettleKinds, u)'
        PROVE  k \in Frames(c, SettleKinds, u)
    <3>1. CASE UNCHANGED wire
      BY <2>2, <3>1, FramesKept
    <3>2. CASE Send(b, <<<<"ok", r>>>>)
      <4>1. "ok" \in FrameKinds /\ "ok" \notin SettleKinds
        BY DEF FrameKinds, SettleKinds
      <4> QED
        BY <1>a, <2>2, <3>2, <4>1, SentFrame
    <3> QED
      BY <1>4, <3>1, <3>2 DEF Reply
  <2>3. \A c \in Backends, u \in Tasks : stage'[c][u] \in {stage[c][u], "none"}
    BY <2>1 DEF TypeOK
  <2> QED
    BY <1>b, <1>c, <2>1, <2>2, <2>3, SettleKept DEF SettleInv, Connected
<1>5. ASSUME NEW b \in Backends, HandleFrame(b)
      PROVE  SettleInv'
  <2>1. UNCHANGED <<loop, stage>>
    BY <1>5 DEF HandleFrame
  <2>2. ASSUME NEW c \in Backends, NEW u \in Tasks, NEW k \in Frames(c, SettleKinds, u)'
        PROVE  k \in Nat \ {0} /\ (IF c = b THEN k + 1 ELSE k) \in Frames(c, SettleKinds, u)
    BY <1>5, <2>2, HandledFrame
  <2>3. ASSUME NEW c \in Backends, NEW u \in Tasks, 1 \in Frames(b, SettleKinds, u)
        PROVE  SettledOnce(c, u)'
    <3>1. holder[u] = b /\ \A i \in Frames(b, SettleKinds, u) : i = 1
      BY <1>b, <2>3 DEF SettledOnce
    <3>2. \A i \in Frames(c, SettleKinds, u) : c = b
      BY <1>b, <3>1 DEF SettledOnce
    <3>3. \A k \in Frames(c, SettleKinds, u)' : FALSE
      BY <2>2, <3>1, <3>2
    <3>4. ~ (stage[c][u] = "running" /\ Connected(c))
      BY <1>b, <2>3, <3>1 DEF SettledOnce
    <3> QED
      BY <1>c, <2>1, <3>3, <3>4 DEF SettledOnce, Connected
  <2>4. ASSUME NEW c \in Backends, NEW u \in Tasks, 1 \notin Frames(b, SettleKinds, u)
        PROVE  SettledOnce(c, u)'
    <3>1. holder'[u] = holder[u]
      <4>1. CASE 1 \in Frames(b, {"publish"}, u)
        BY <1>5, <4>1, HandledMessage
      <4>2. CASE 1 \notin Frames(b, {"publish"}, u)
        <5>1. 1 \notin Frames(b, SettleKinds \union {"publish"}, u)
          BY <2>4, <4>2 DEF Frames
        <5> QED
          BY <1>5, <5>1, HandledMessage
      <4> QED
        BY <4>1, <4>2
    <3>2. ASSUME NEW k \in Frames(c, SettleKinds, u)'
          PROVE  holder'[u] = c /\ \A i \in Frames(c, SettleKinds, u)' : i = k
      <4>1. holder[u] = c
        BY <1>b, <2>2, <3>2 DEF SettledOnce
      <4>2. ASSUME NEW i \in Frames(c, SettleKinds, u)'
            PROVE  i = k
        <5>1. (IF c = b THEN k + 1 ELSE k) = (IF c = b THEN i + 1 ELSE i) /\ i \in Nat /\ k \in Nat
          BY <1>b, <2>2, <3>2, <4>2 DEF SettledOnce
        <5> QED
          BY <5>1
      <4> QED
        BY <3>1, <4>1, <4>2
    <3>3. stage[c][u] = "running" /\ Connected(c) =>
            holder[u] = c /\ \A k \in Frames(c, SettleKinds, u)' : FALSE
      BY <1>b, <2>2 DEF SettledOnce
    <3> QED
      BY <1>c, <2>1, <3>1, <3>2, <3>3 DEF SettledOnce, Connected
  <2> QED
    BY <2>3, <2>4 DEF SettleInv
<1>6. ASSUME NEW b \in Backends, NEW t \in Tasks, Deliver(b, t)
      PROVE  SettleInv'
  <2>1. /\ UNCHANGED <<wire, stage, loop>>
        /\ holder' = [holder EXCEPT ![t] = b] /\ queue[t] = "ready"
    BY <1>6 DEF Deliver
  <2>2. holder[t] = NoBackend
    BY <2>1 DEF HolderInv
  <2>3. ASSUME NEW c \in Backends
        PROVE  SettledOnce(c, t)'
    <3>1. ~ (stage[c][t] = "running" /\ Connected(c)) /\ \A k \in Frames(c, SettleKinds, t) : FALSE
      BY <1>b, <2>2 DEF SettledOnce
    <3> QED
      BY <1>c, <2>1, <3>1, FramesKept DEF SettledOnce, Connected
  <2>4. ASSUME NEW c \in Backends, NEW u \in Tasks, u # t
        PROVE  SettledOnce(c, u)'
    <3>1. holder'[u] = holder[u]
      BY <2>1, <2>4 DEF TypeOK
    <3> QED
      BY <1>b, <1>c, <2>1, <3>1, FramesKept, SettleKept DEF Connected
  <2> QED
    BY <2>3, <2>4 DEF SettleInv
<1>7. ASSUME NEW b \in Backends, NEW r \in Requests, ThrottleSingle(b, r)
      PROVE  SettleInv'
  <2>1. /\ UNCHANGED <<holder, stage, loop>> /\ loop[b] = "consuming" /\ Buffered(b, r)
        /\ Send(b, <<<<"discard", r>>, <<"busy", r>>>>)
    BY <1>7 DEF ThrottleSingle
  <2>2. holder[r] = b /\ stage[b][r] = "none" /\ Frames(b, SettleKinds, r) = {}
    BY <1>a, <2>1, BufferedIsHeld
  <2>3. "busy" \notin SettleKinds
    BY DEF SettleKinds
  <2>4. \A i, k \in Frames(b, SettleKinds, r)' : i = k
    BY <2>1, <2>2, <2>3, SentRefusal
  <2>5. \A c \in Backends, u \in Tasks : c # b \/ u # r =>
          \A k \in Frames(c, SettleKinds, u)' : k \in Frames(c, SettleKinds, u)
    BY <2>1, <2>3, SentRefusal
  <2> QED
    BY <1>a, <2>1, <2>2, <2>4, <2>5, SettleSent DEF Connected
<1>8. ASSUME NEW b \in Backends, NEW t \in Bulk, ThrottleBulk(b, t)
      PROVE  SettleInv'
  <2>1. /\ UNCHANGED <<holder, stage>> /\ loop[b] = "consuming" /\ Buffered(b, t)
        /\ loop' = [loop EXCEPT ![b] = "sleeping"]
        /\ Send(b, <<<<"requeue", t>>>>)
    BY <1>8 DEF ThrottleBulk
  <2>2. holder[t] = b /\ stage[b][t] = "none" /\ Frames(b, SettleKinds, t) = {}
    BY <1>a, <2>1, BufferedIsHeld
  <2>3. "requeue" \in FrameKinds
    BY DEF FrameKinds
  <2>4. \A i, k \in Frames(b, SettleKinds, t)' : i = k
    BY <1>a, <2>1, <2>2, <2>3, SentFrame
  <2>5. \A c \in Backends, u \in Tasks : c # b \/ u # t =>
          \A k \in Frames(c, SettleKinds, u)' : k \in Frames(c, SettleKinds, u)
    BY <1>a, <2>1, <2>3, SentFrame
  <2>6. Connected(b) /\ (loop' = loop \/ loop' = [loop EXCEPT ![b] = "sleeping"])
    BY <2>1 DEF Connected
  <2>7. UNCHANGED holder /\ stage'[b][t] = "none" /\ \A c \in Backends, u \in Tasks : stage'[c][u] = stage[c][u]
    BY <2>1, <2>2
  <2>8. \A c \in Backends, u \in Tasks : c # b \/ u # t =>
          /\ \A k \in Frames(c, SettleKinds, u)' : k \in Frames(c, SettleKinds, u)
          /\ stage'[c][u] = stage[c][u]
    BY <2>5, <2>7
  <2>9. t \in Tasks /\ stage'[b][t] # "running"
    BY <1>a, <2>7
  <2> QED
    BY <2>2, <2>4, <2>6, <2>7, <2>8, <2>9, SettleSent
<1>9. ASSUME NEW b \in Backends, NEW t \in Tasks, RequeueTask(b, t) \/ AckTask(b, t)
      PROVE  SettleInv'
  <2>1. UNCHANGED <<holder, loop>> /\ stage[b][t] = "running"
    BY <1>9 DEF RequeueTask, AckTask
  <2>2. PICK s \in {"none", "acked"} : stage' = [stage EXCEPT ![b][t] = s]
    BY <1>9 DEF RequeueTask, AckTask, EndTask
  <2>3. PICK kind \in {"requeue", "ack"} :
          IF holder[t] = b THEN Send(b, <<<<kind, t>>>>) ELSE UNCHANGED wire
    BY <1>9 DEF RequeueTask, AckTask
  <2>4. stage'[b][t] = s /\ \A c \in Backends, u \in Tasks : c # b \/ u # t => stage'[c][u] = stage[c][u]
    BY <2>2 DEF TypeOK
  <2>5. kind \in FrameKinds
    BY DEF FrameKinds
  <2>6. CASE holder[t] = b
    <3>1. Connected(b) /\ Frames(b, SettleKinds, t) = {} /\ Send(b, <<<<kind, t>>>>)
      BY <1>b, <2>1, <2>3, <2>6 DEF HolderInv, SettledOnce
    <3>2. \A i, k \in Frames(b, SettleKinds, t)' : i = k
      BY <2>5, <3>1, SentFrame
    <3>3. \A c \in Backends, u \in Tasks : c # b \/ u # t =>
            \A k \in Frames(c, SettleKinds, u)' : k \in Frames(c, SettleKinds, u)
      BY <2>5, <3>1, SentFrame
    <3> QED
      BY <2>1, <2>4, <2>6, <3>1, <3>2, <3>3, SettleSent
  <2>7. CASE holder[t] # b
    <3>1. UNCHANGED wire
      BY <2>3, <2>7
    <3>2. \A c \in Backends, u \in Tasks : stage'[c][u] = "running" => stage[c][u] = "running"
      BY <2>4
    <3>3. loop[b] # "down"
      BY <1>c, <2>1
    <3>4. \A c \in Backends, u \in Tasks : loop'[c] = "down" => stage'[c][u] = "none"
      BY <1>c, <2>1, <2>4, <3>3
    <3> QED
      BY <1>b, <2>1, <3>1, <3>2, <3>4, FramesKept, SettleKept DEF SettleInv, Connected
  <2> QED
    BY <2>6, <2>7
<1>10. ASSUME NEW b \in Backends, WakeUp(b) \/ Restart(b)
       PROVE  SettleInv'
  <2>1. UNCHANGED <<wire, holder, stage>> /\ loop' = [loop EXCEPT ![b] = "consuming"]
    BY <1>10 DEF WakeUp, Restart
  <2>2. Connected(b) \/ \A u \in Tasks : stage[b][u] = "none"
    BY <1>c, <1>10 DEF WakeUp, Restart, Connected
  <2>3. ASSUME NEW c \in Backends, NEW u \in Tasks
        PROVE  /\ stage'[c][u] = "running" /\ Connected(c)' => stage[c][u] = "running" /\ Connected(c)
               /\ loop'[c] = "down" => stage'[c][u] = "none"
    BY <1>c, <2>1, <2>2 DEF Connected, TypeOK
  <2> QED
    BY <1>b, <2>1, <2>3, FramesKept, SettleKept DEF SettleInv
<1>11. ASSUME NEW b \in Backends, NEW t \in Tasks, StartTask(b, t)
       PROVE  SettleInv'
  <2>1. /\ UNCHANGED <<wire, holder, loop>> /\ stage' = [stage EXCEPT ![b][t] = "running"]
        /\ Buffered(b, t) /\ loop[b] = "consuming"
    BY <1>11 DEF StartTask
  <2>2. holder[t] = b /\ Frames(b, SettleKinds, t) = {}
    BY <2>1, BufferedIsHeld
  <2>3. stage'[b][t] = "running" /\ \A c \in Backends, u \in Tasks : c # b \/ u # t => stage'[c][u] = stage[c][u]
    BY <2>1 DEF TypeOK
  <2>4. ASSUME NEW c \in Backends, NEW u \in Tasks, c # b \/ u # t
        PROVE  SettledOnce(c, u)'
    BY <1>b, <1>c, <2>1, <2>3, <2>4, FramesKept, SettleKept DEF Connected
  <2>5. SettledOnce(b, t)'
    <3>1. \A k \in Frames(b, SettleKinds, t)' : FALSE
      BY <2>1, <2>2, FramesKept
    <3> QED
      BY <2>1, <2>2, <3>1 DEF SettledOnce
  <2> QED
    BY <2>4, <2>5 DEF SettleInv
<1>12. ASSUME NEW b \in Backends, Disconnect(b) \/ Crash(b)
       PROVE  SettleInv'
  <2>1. PICK answer \in {"broken", "dead"} : LoseConnection(b, answer)
    BY <1>12 DEF Disconnect, Crash
  <2>2. /\ \A c \in Backends, u \in Tasks : c # b => loop'[c] = loop[c] /\ stage'[c][u] = stage[c][u]
        /\ ~ Connected(b)'
        /\ loop'[b] = "down" => \A u \in Tasks : stage'[b][u] = "none"
    BY <1>12 DEF Disconnect, Crash, Connected, TypeOK
  <2>3. \A c \in Backends, u \in Tasks : \A k \in Frames(c, SettleKinds, u)' :
          c # b /\ k \in Frames(c, SettleKinds, u)
    BY <1>a, <2>1, Cleared DEF LoseConnection
  <2>4. \A u \in Tasks : holder[u] # b => holder'[u] = holder[u]
    BY <2>1 DEF LoseConnection, Held
  <2>5. ASSUME NEW u \in Tasks
        PROVE  SettledOnce(b, u)'
    BY <2>2, <2>3 DEF SettledOnce
  <2>6. ASSUME NEW c \in Backends, c # b, NEW u \in Tasks
        PROVE  SettledOnce(c, u)'
    <3>1. CASE holder[u] = b
      <4>1. ~ (stage[c][u] = "running" /\ Connected(c)) /\ \A k \in Frames(c, SettleKinds, u) : FALSE
        BY <1>b, <2>6, <3>1 DEF SettledOnce
      <4>2. ~ (stage[c][u] = "running" /\ Connected(c))' /\ \A k \in Frames(c, SettleKinds, u)' : FALSE
        BY <2>2, <2>3, <2>6, <4>1 DEF Connected
      <4> QED
        BY <1>c, <2>2, <2>6, <4>2 DEF SettledOnce
    <3>2. CASE holder[u] # b
      BY <1>b, <1>c, <2>2, <2>3, <2>4, <2>6, <3>2, SettleKept DEF Connected
    <3> QED
      BY <3>1, <3>2
  <2> QED
    BY <2>5, <2>6 DEF SettleInv
<1>13. CASE UNCHANGED vars
  <2>1. UNCHANGED <<wire, holder, stage, loop>>
    BY <1>13 DEF vars
  <2> QED
    BY <1>b, <1>c, <2>1, FramesKept, SettleKept DEF SettleInv, Connected
<1> HIDE DEF broker, work
<1> QED
  BY <1>a, <1>1, <1>2, <1>3, <1>4, <1>5, <1>6, <1>7, <1>8, <1>9, <1>10, <1>11, <1>12, <1>13 DEF Next

-----------------------------------------------------------------------------
(* Replies: OrderInv and OnceInv.                                          *)

LEMMA OrderKept ==
  ASSUME NEW r \in Requests, InOrder(r),
         queue[r] = "gone" => queue'[r] = "gone",
         http'[r] \in Answers \/ reply'[r].at # "none" \/ replies'[r] > 0 =>
           http[r] \in Answers \/ reply[r].at # "none" \/ replies[r] > 0,
         \A b \in Backends :
           /\ \A k \in Frames(b, Answers, r)' : k \in Frames(b, Answers, r)
           /\ Replying(b, r)' => Replying(b, r)
           /\ \/ \A i \in Frames(b, Removals, r) : i \in Frames(b, Removals, r)'
              \/ ~ Replying(b, r)' /\ \A k \in Frames(b, Answers, r)' : FALSE
  PROVE  InOrder(r)'
<1>1. ASSUME NEW b \in Backends, NEW k \in Frames(b, Answers, r)'
      PROVE  queue'[r] = "gone" \/ \E i \in Frames(b, Removals, r)' : i < k
  BY <1>1 DEF InOrder
<1>2. ASSUME NEW b \in Backends, Replying(b, r)'
      PROVE  queue'[r] = "gone" \/ Frames(b, Removals, r)' # {}
  BY <1>2 DEF InOrder
<1> QED
  BY <1>1, <1>2 DEF InOrder

LEMMA OnceKept ==
  ASSUME NEW r \in Requests, AnsweredOnce(r), replies'[r] = replies[r],
         \A b \in Backends :
           /\ \A k \in Frames(b, Answers, r)' : k \in Frames(b, Answers, r)
           /\ Replying(b, r)' => Replying(b, r)
  PROVE  AnsweredOnce(r)'
<1>1. ASSUME NEW b \in Backends, NEW k \in Frames(b, Answers, r)', NEW c \in Backends
      PROVE  replies'[r] = 0 /\ ~ Replying(c, r)' /\ \A i \in Frames(c, Answers, r)' : c = b /\ i = k
  BY <1>1 DEF AnsweredOnce
<1>2. ASSUME NEW b \in Backends, Replying(b, r)'
      PROVE  replies'[r] = 0 /\ \A c \in Backends : Replying(c, r)' => c = b
  BY <1>2 DEF AnsweredOnce
<1> QED
  BY <1>1, <1>2 DEF AnsweredOnce

\* While a request's task is held and not settled, nothing has answered it.
LEMMA NoReplyYet ==
  ASSUME TypeOK, HolderInv, SettleInv, NEW r \in Requests, InOrder(r),
         NEW b \in Backends, holder[r] = b, Frames(b, SettleKinds, r) = {}, NEW c \in Backends
  PROVE  /\ replies[r] = 0 /\ ~ Replying(c, r) /\ \A k \in Frames(c, Answers, r) : FALSE
         /\ http[r] \notin Answers /\ reply[r].at = "none"
<1>1. r \in Tasks /\ queue[r] = "unacked"
  BY DEF HolderInv, Tasks
<1>2. replies[r] = 0 /\ http[r] \notin Answers /\ reply[r].at = "none"
  BY <1>1 DEF InOrder, TypeOK
<1>3. \A i \in Frames(c, Removals, r) : FALSE
  <2>1. Frames(c, Removals, r) \subseteq Frames(c, SettleKinds, r)
    BY FramesSub DEF Removals, SettleKinds
  <2>2. \A i \in Frames(c, SettleKinds, r) : c = b
    BY <1>1 DEF SettleInv, SettledOnce
  <2> QED
    BY <2>1, <2>2
<1> QED
  BY <1>1, <1>2, <1>3 DEF InOrder

\* What handling a frame does to the replies of the request it is about.
LEMMA HandledReply ==
  ASSUME TypeOK, NEW b \in Backends, HandleFrame(b), NEW r \in Requests
  PROVE  /\ 1 \in Frames(b, Answers, r) => replies'[r] = replies[r] + 1
         /\ 1 \notin Frames(b, Answers, r) =>
              replies'[r] = replies[r] /\ reply'[r] \in {reply[r], NoReply}
<1> DEFINE kind == Head(wire[b])[1]
           t == Head(wire[b])[2]
<1>1. kind \in FrameKinds /\ t \in Tasks
  BY WireType, Handled DEF HandleFrame, FrameTypes
<1>2. 1 \in Frames(b, Answers, r) <=> kind \in Answers /\ t = r
  BY WireType, Handled DEF HandleFrame
<1>3. \/ kind \notin Answers /\ replies' = replies
      \/ kind \in Answers /\ replies' = [replies EXCEPT ![t] = @ + 1]
  BY DEF HandleFrame, Answers
<1>4. \/ kind \notin Answers /\ reply' \in {reply, [reply EXCEPT ![t] = NoReply]}
      \/ kind \in Answers /\ reply' \in {reply, [reply EXCEPT ![t] = [at |-> "queued", is |-> kind]]}
  BY DEF HandleFrame, Answers
<1>5. replies \in [Requests -> Nat] /\ DOMAIN reply = Requests
  BY DEF TypeOK
<1> HIDE DEF kind, t
<1>6. CASE 1 \in Frames(b, Answers, r)
  BY <1>2, <1>3, <1>5, <1>6
<1>7. CASE 1 \notin Frames(b, Answers, r)
  <2>1. replies'[r] = replies[r]
    BY <1>2, <1>3, <1>5, <1>7
  <2>2. reply'[r] \in {reply[r], NoReply}
    BY <1>2, <1>4, <1>5, <1>7
  <2> QED
    BY <1>7, <2>1, <2>2
<1> QED
  BY <1>6, <1>7

LEMMA HandledOrder ==
  ASSUME TypeOK, HolderInv, PublishInv, SettleInv, NEW r \in Requests, InOrder(r),
         NEW b \in Backends, HandleFrame(b)
  PROVE  InOrder(r)'
<1>a. r \in Tasks
  BY DEF Tasks
<1>1. UNCHANGED <<http, loop, stage>>
  BY DEF HandleFrame, work
<1>2. ASSUME NEW c \in Backends, NEW K, NEW k
      PROVE  k \in Frames(c, K, r)' <=>
               IF c = b THEN k \in Nat \ {0} /\ k + 1 \in Frames(b, K, r) ELSE k \in Frames(c, K, r)
  BY HandledFrame
<1>3. ASSUME NEW K, NEW k \in Frames(b, K, r), k # 1
      PROVE  k \in Nat /\ k - 1 \in Frames(b, K, r)'
  <2>1. k \in Nat \ {0}
    BY <1>3, HandledFrame
  <2>2. k - 1 \in Nat \ {0} /\ (k - 1) + 1 = k
    BY <1>3, <2>1
  <2> QED
    BY <1>2, <1>3, <2>1, <2>2
<1>4. CASE 1 \in Frames(b, Removals, r)
  <2>1. queue'[r] = "gone"
    BY <1>a, <1>4, HandledMessage DEF Removals
  <2> QED
    BY <2>1 DEF InOrder
<1>5. CASE 1 \notin Frames(b, Removals, r)
  <2>1. queue[r] = "gone" => queue'[r] = "gone"
    <3>1. SUFFICES ASSUME queue[r] = "gone" PROVE queue'[r] = "gone"
      OBVIOUS
    <3>2. 1 \notin Frames(b, {"publish"}, r)
      BY <1>a, <3>1 DEF PublishInv
    <3>3. 1 \notin Frames(b, SettleKinds, r)
      BY <1>a, <3>1 DEF HolderInv, SettleInv, SettledOnce
    <3>4. 1 \notin Frames(b, SettleKinds \union {"publish"}, r)
      BY <3>2, <3>3 DEF Frames
    <3> QED
      BY <1>a, <3>1, <3>4, HandledMessage
  <2>2. ASSUME NEW c \in Backends, NEW k \in Frames(c, Answers, r)'
        PROVE  queue'[r] = "gone" \/ \E i \in Frames(c, Removals, r)' : i < k
    <3>1. CASE c = b
      <4>1. k \in Nat \ {0} /\ k + 1 \in Frames(b, Answers, r)
        BY <1>2, <2>2, <3>1
      <4>2. queue[r] = "gone" \/ \E i \in Frames(b, Removals, r) : i < k + 1
        BY <4>1 DEF InOrder
      <4>3. ASSUME NEW i \in Frames(b, Removals, r), i < k + 1
            PROVE  \E j \in Frames(c, Removals, r)' : j < k
        <5>1. i \in Nat /\ i - 1 \in Frames(b, Removals, r)'
          BY <1>3, <1>5, <4>3
        <5>2. i - 1 < k
          BY <4>1, <4>3, <5>1
        <5> QED
          BY <3>1, <5>1, <5>2
      <4> QED
        BY <2>1, <4>2, <4>3
    <3>2. CASE c # b
      BY <1>2, <2>1, <2>2, <3>2 DEF InOrder
    <3> QED
      BY <3>1, <3>2
  <2>3. ASSUME NEW c \in Backends, Replying(c, r)'
        PROVE  queue'[r] = "gone" \/ Frames(c, Removals, r)' # {}
    <3>1. Replying(c, r)
      BY <1>1, <2>3 DEF Replying, Connected
    <3>2. ASSUME NEW i \in Frames(c, Removals, r)
          PROVE  Frames(c, Removals, r)' # {}
      BY <1>2, <1>3, <1>5, <3>2
    <3> QED
      BY <2>1, <3>1, <3>2 DEF InOrder
  <2>4. http'[r] \in Answers \/ reply'[r].at # "none" \/ replies'[r] > 0 => queue'[r] = "gone"
    <3>1. CASE 1 \in Frames(b, Answers, r)
      <4>1. queue[r] = "gone" \/ \E i \in Frames(b, Removals, r) : i < 1
        BY <3>1 DEF InOrder
      <4>2. \A i \in Frames(b, Removals, r) : i \in Nat \ {0}
        BY HandledFrame
      <4> QED
        BY <2>1, <4>1, <4>2
    <3>2. CASE 1 \notin Frames(b, Answers, r)
      <4>1. replies'[r] = replies[r] /\ reply'[r] \in {reply[r], NoReply} /\ http'[r] = http[r]
        BY <1>1, <3>2, HandledReply
      <4> QED
        BY <2>1, <4>1 DEF InOrder, NoReply
    <3> QED
      BY <3>1, <3>2
  <2> QED
    BY <2>2, <2>3, <2>4 DEF InOrder
<1> QED
  BY <1>4, <1>5

LEMMA HandledOnce ==
  ASSUME TypeOK, NEW r \in Requests, AnsweredOnce(r), NEW b \in Backends, HandleFrame(b)
  PROVE  AnsweredOnce(r)'
<1>1. \A c \in Backends : Replying(c, r)' = Replying(c, r)
  BY DEF HandleFrame, work, Replying, Connected
<1>2. ASSUME NEW c \in Backends, NEW k \in Frames(c, Answers, r)'
      PROVE  k \in Nat \ {0} /\ (IF c = b THEN k + 1 ELSE k) \in Frames(c, Answers, r)
  BY <1>2, HandledFrame
<1>3. CASE 1 \in Frames(b, Answers, r)
  <2>1. replies[r] = 0 /\ \A c \in Backends : ~ Replying(c, r)
    BY <1>3 DEF AnsweredOnce
  <2>2. ASSUME NEW c \in Backends, NEW k \in Frames(c, Answers, r)'
        PROVE  FALSE
    <3>1. k \in Nat \ {0} /\ (IF c = b THEN k + 1 ELSE k) \in Frames(c, Answers, r)
      BY <1>2, <2>2
    <3>2. c = b /\ (IF c = b THEN k + 1 ELSE k) = 1
      BY <1>3, <3>1 DEF AnsweredOnce
    <3> QED
      BY <3>1, <3>2
  <2>3. replies'[r] = 1
    BY <1>3, <2>1, HandledReply
  <2>4. \A c \in Backends : ~ Replying(c, r)'
    BY <1>1, <2>1
  <2> QED
    BY <2>2, <2>3, <2>4 DEF AnsweredOnce
<1>4. CASE 1 \notin Frames(b, Answers, r)
  <2>1. replies'[r] = replies[r]
    BY <1>4, HandledReply
  <2>2. ASSUME NEW d \in Backends, NEW k \in Frames(d, Answers, r)', NEW c \in Backends
        PROVE  replies'[r] = 0 /\ ~ Replying(c, r)' /\ \A i \in Frames(c, Answers, r)' : c = d /\ i = k
    <3> DEFINE at == IF d = b THEN k + 1 ELSE k
    <3>1. k \in Nat \ {0} /\ at \in Frames(d, Answers, r)
      BY <1>2, <2>2
    <3>2. replies[r] = 0 /\ ~ Replying(c, r) /\ \A i \in Frames(c, Answers, r) : c = d /\ i = at
      BY <3>1 DEF AnsweredOnce
    <3>3. ASSUME NEW i \in Frames(c, Answers, r)'
          PROVE  c = d /\ i = k
      <4>1. i \in Nat \ {0} /\ (IF c = b THEN i + 1 ELSE i) \in Frames(c, Answers, r)
        BY <1>2, <3>3
      <4> QED
        BY <3>1, <3>2, <4>1
    <3> QED
      BY <1>1, <2>1, <3>2, <3>3
  <2>3. ASSUME NEW c \in Backends, Replying(c, r)'
        PROVE  replies'[r] = 0 /\ \A d \in Backends : Replying(d, r)' => d = c
    BY <1>1, <2>1, <2>3 DEF AnsweredOnce
  <2> QED
    BY <2>1, <2>2, <2>3 DEF AnsweredOnce
<1> QED
  BY <1>3, <1>4

\* The steps that send nothing about replies, and nothing that settles.
LEMMA RepliesKept ==
  ASSUME OrderInv, OnceInv, UNCHANGED <<queue, replies>>,
         \A r \in Requests :
           http'[r] \in Answers \/ reply'[r].at # "none" =>
             http[r] \in Answers \/ reply[r].at # "none" \/ replies[r] > 0,
         \A r \in Requests, b \in Backends :
           /\ \A k \in Frames(b, Answers, r)' : k \in Frames(b, Answers, r)
           /\ \A i \in Frames(b, Removals, r) : i \in Frames(b, Removals, r)'
           /\ stage'[b][r] = "acked" /\ loop'[b] \in {"consuming", "sleeping"} => Replying(b, r)
  PROVE  OrderInv' /\ OnceInv'
<1>1. ASSUME NEW r \in Requests, NEW b \in Backends
      PROVE  Replying(b, r)' => Replying(b, r)
  BY DEF Replying, Connected
<1>2. ASSUME NEW r \in Requests
      PROVE  InOrder(r)' /\ AnsweredOnce(r)'
  BY <1>1, <1>2, OrderKept, OnceKept DEF OrderInv, OnceInv
<1> QED
  BY <1>2 DEF OrderInv, OnceInv

LEMMA RepliesNext ==
  ASSUME TypeOK, HolderInv, PublishInv, SettleInv, OrderInv, OnceInv, [Next]_vars
  PROVE  OrderInv' /\ OnceInv'
<1> USE DEF broker, work
<1>a. wire \in [Backends -> Seq(FrameTypes)] /\ Requests \subseteq Tasks /\ Bulk \subseteq Tasks
  BY WireType DEF Tasks
<1>b. \A r \in Requests : InOrder(r) /\ AnsweredOnce(r)
  BY DEF OrderInv, OnceInv
<1>c. {"publish", "requeue", "taken"} \subseteq FrameKinds /\ "ack" \in FrameKinds /\ "ok" \in FrameKinds
  BY DEF FrameKinds
<1>d. /\ "ack" \in Removals /\ "discard" \in Removals /\ "ok" \in Answers /\ "busy" \in Answers
      /\ Answers \intersect Removals = {}
      /\ {"publish", "requeue", "taken"} \intersect (Answers \union Removals) = {}
  BY DEF Answers, Removals
<1>e. \A b \in Backends, u \in Tasks : SettledOnce(b, u)
  BY DEF SettleInv
<1>1. ASSUME NEW r \in Requests, Refuse(r) \/ Consume(r) \/ DeliverReply(r)
      PROVE  OrderInv' /\ OnceInv'
  <2>1. UNCHANGED <<wire, queue, replies, stage, loop>>
    BY <1>1 DEF Refuse, Consume, DeliverReply
  <2>2. \A q \in Requests : http'[q] \in Answers => http[q] \in Answers
    BY <1>1 DEF Refuse, Consume, DeliverReply, TypeOK, Answers
  <2>3. \A q \in Requests : reply'[q].at # "none" => reply[q].at # "none"
    BY <1>1 DEF Refuse, Consume, DeliverReply, TypeOK
  <2> QED
    BY <2>1, <2>2, <2>3, FramesKept, RepliesKept DEF Replying, Connected
<1>2. ASSUME NEW b \in Backends, WakeUp(b) \/ Restart(b)
      PROVE  OrderInv' /\ OnceInv'
  <2>1. UNCHANGED <<wire, queue, replies, stage, http, reply>> /\ loop' = [loop EXCEPT ![b] = "consuming"]
    BY <1>2 DEF WakeUp, Restart
  <2>2. Connected(b) \/ \A u \in Tasks : stage[b][u] = "none"
    BY <1>e, <1>2 DEF WakeUp, Restart, Connected, SettledOnce
  <2>3. ASSUME NEW q \in Requests, NEW c \in Backends,
               stage'[c][q] = "acked" /\ loop'[c] \in {"consuming", "sleeping"}
        PROVE  Replying(c, q)
    BY <1>a, <2>1, <2>2, <2>3 DEF Replying, Connected, TypeOK
  <2> QED
    BY <2>1, <2>3, FramesKept, RepliesKept
<1>3. ASSUME NEW r \in Requests, TakeReply(r) \/ \E b \in Backends : Call(r, b) \/ CallFails(r, b)
      PROVE  OrderInv' /\ OnceInv'
  <2>1. UNCHANGED <<queue, replies, reply, stage, loop>>
    BY <1>3 DEF TakeReply, Call, CallFails
  <2>2. \A q \in Requests : http'[q] \in Answers => http[q] \in Answers \/ reply[q].at # "none"
    BY <1>3 DEF TakeReply, Call, CallFails, TypeOK, Answers
  <2>3. \/ UNCHANGED wire
        \/ \E b \in Backends, kind \in {"taken", "publish"} : Send(b, <<<<kind, r>>>>)
    BY <1>a, <1>3 DEF TakeReply, Call, CallFails, Send
  <2>4. ASSUME NEW q \in Requests, NEW c \in Backends
        PROVE  /\ \A k \in Frames(c, Answers, q)' : k \in Frames(c, Answers, q)
               /\ \A i \in Frames(c, Removals, q) : i \in Frames(c, Removals, q)'
    <3>1. CASE UNCHANGED wire
      BY <3>1, FramesKept
    <3>2. ASSUME NEW b \in Backends, NEW kind \in {"taken", "publish"}, Send(b, <<<<kind, r>>>>)
          PROVE  /\ \A k \in Frames(c, Answers, q)' : k \in Frames(c, Answers, q)
                 /\ \A i \in Frames(c, Removals, q) : i \in Frames(c, Removals, q)'
      <4>1. kind \in FrameKinds /\ kind \notin Answers
        BY <1>c, <1>d
      <4> QED
        BY <1>a, <3>2, <4>1, SentFrame
    <3> QED
      BY <2>3, <3>1, <3>2
  <2> QED
    BY <2>1, <2>2, <2>4, RepliesKept DEF Replying, Connected
<1>4. ASSUME NEW b \in Backends, HandleFrame(b)
      PROVE  OrderInv' /\ OnceInv'
  BY <1>b, <1>4, HandledOrder, HandledOnce DEF OrderInv, OnceInv
<1>5. ASSUME NEW b \in Backends, NEW t \in Tasks, Deliver(b, t)
      PROVE  OrderInv' /\ OnceInv'
  <2>1. UNCHANGED <<wire, http, reply, replies, stage, loop>>
    BY <1>5 DEF Deliver
  <2>2. \A r \in Requests : queue[r] = "gone" => queue'[r] = "gone"
    BY <1>a, <1>5 DEF Deliver, TypeOK
  <2>3. ASSUME NEW r \in Requests
        PROVE  InOrder(r)' /\ AnsweredOnce(r)'
    BY <1>b, <2>1, <2>2, FramesKept, OrderKept, OnceKept DEF Replying, Connected
  <2> QED
    BY <2>3 DEF OrderInv, OnceInv
<1>6. ASSUME NEW b \in Backends, NEW r \in Requests, ThrottleSingle(b, r)
      PROVE  OrderInv' /\ OnceInv'
  <2>1. /\ UNCHANGED <<queue, holder, replies, http, reply, stage, loop>> /\ Buffered(b, r)
        /\ Send(b, <<<<"discard", r>>, <<"busy", r>>>>)
    BY <1>6 DEF ThrottleSingle
  <2>2. holder[r] = b /\ Frames(b, SettleKinds, r) = {}
    BY <1>a, <2>1, BufferedIsHeld
  <2>3. /\ replies[r] = 0 /\ http[r] \notin Answers /\ reply[r].at = "none"
        /\ \A c \in Backends : ~ Replying(c, r) /\ \A k \in Frames(c, Answers, r) : FALSE
    BY <1>b, <2>2, NoReplyYet
  <2>4. \A c \in Backends, u \in Requests : Replying(c, u)' = Replying(c, u)
    BY <2>1 DEF Replying, Connected
  <2>5. /\ Len(wire[b]) \in Nat
        /\ Len(wire[b]) + 1 \in Frames(b, Removals, r)'
        /\ \A c \in Backends : \A k \in Frames(c, Answers, r)' : c = b /\ k = Len(wire[b]) + 2
    BY <1>d, <2>1, <2>3, SentRefusal
  <2>6. InOrder(r)'
    <3>1. \A c \in Backends : \A k \in Frames(c, Answers, r)' : \E i \in Frames(c, Removals, r)' : i < k
      BY <2>5
    <3>2. \A c \in Backends : ~ Replying(c, r)'
      BY <2>3, <2>4
    <3>3. ~ (http'[r] \in Answers \/ reply'[r].at # "none" \/ replies'[r] > 0)
      BY <2>1, <2>3
    <3> QED
      BY <3>1, <3>2, <3>3 DEF InOrder
  <2>7. AnsweredOnce(r)'
    BY <2>1, <2>3, <2>4, <2>5 DEF AnsweredOnce
  <2>8. ASSUME NEW u \in Requests, u # r
        PROVE  InOrder(u)' /\ AnsweredOnce(u)'
    <3>1. ASSUME NEW c \in Backends
          PROVE  /\ \A k \in Frames(c, Answers, u)' : k \in Frames(c, Answers, u)
                 /\ \A i \in Frames(c, Removals, u) : i \in Frames(c, Removals, u)'
      BY <2>1, <2>8, SentRefusal
    <3> QED
      BY <1>b, <2>1, <2>4, <3>1, OrderKept, OnceKept
  <2> QED
    BY <2>6, <2>7, <2>8 DEF OrderInv, OnceInv
<1>7. ASSUME NEW b \in Backends, NEW t \in Tasks,
             RequeueTask(b, t) \/ (t \in Bulk /\ ThrottleBulk(b, t))
      PROVE  OrderInv' /\ OnceInv'
  <2>1. UNCHANGED <<queue, replies, http, reply>>
    BY <1>7 DEF RequeueTask, ThrottleBulk
  <2>2. UNCHANGED wire \/ Send(b, <<<<"requeue", t>>>>)
    BY <1>7 DEF RequeueTask, ThrottleBulk
  <2>3. ASSUME NEW q \in Requests, NEW c \in Backends
        PROVE  /\ \A k \in Frames(c, Answers, q)' : k \in Frames(c, Answers, q)
               /\ \A i \in Frames(c, Removals, q) : i \in Frames(c, Removals, q)'
    <3>1. CASE UNCHANGED wire
      BY <3>1, FramesKept
    <3>2. CASE Send(b, <<<<"requeue", t>>>>)
      BY <1>c, <1>d, <3>2, SentFrame
    <3> QED
      BY <2>2, <3>1, <3>2
  <2>4. ASSUME NEW q \in Requests, NEW c \in Backends,
               stage'[c][q] = "acked" /\ loop'[c] \in {"consuming", "sleeping"}
        PROVE  Replying(c, q)
    <3>1. CASE RequeueTask(b, t)
      BY <1>a, <2>4, <3>1 DEF RequeueTask, EndTask, Replying, Connected, TypeOK
    <3>2. CASE ThrottleBulk(b, t)
      BY <1>a, <2>4, <3>2 DEF ThrottleBulk, Replying, Connected, TypeOK
    <3> QED
      BY <1>7, <3>1, <3>2
  <2> QED
    BY <2>1, <2>3, <2>4, RepliesKept
<1>8. ASSUME NEW b \in Backends, NEW t \in Tasks, StartTask(b, t)
      PROVE  OrderInv' /\ OnceInv'
  <2>1. UNCHANGED <<wire, queue, replies, http, reply, loop>> /\ stage' = [stage EXCEPT ![b][t] = "running"]
    BY <1>8 DEF StartTask
  <2>2. ASSUME NEW q \in Requests, NEW c \in Backends,
               stage'[c][q] = "acked" /\ loop'[c] \in {"consuming", "sleeping"}
        PROVE  Replying(c, q)
    BY <1>a, <2>1, <2>2 DEF Replying, Connected, TypeOK
  <2> QED
    BY <2>1, <2>2, FramesKept, RepliesKept
<1>9. ASSUME NEW b \in Backends, NEW t \in Bulk, AckTask(b, t)
      PROVE  OrderInv' /\ OnceInv'
  <2>1. UNCHANGED <<queue, replies, http, reply, loop>> /\ stage' = [stage EXCEPT ![b][t] = "none"]
    BY <1>9 DEF AckTask, EndTask
  <2>2. UNCHANGED wire \/ Send(b, <<<<"ack", t>>>>)
    BY <1>9 DEF AckTask
  <2>3. ASSUME NEW q \in Requests, NEW c \in Backends
        PROVE  /\ \A k \in Frames(c, Answers, q)' : k \in Frames(c, Answers, q)
               /\ \A i \in Frames(c, Removals, q) : i \in Frames(c, Removals, q)'
    <3>1. CASE UNCHANGED wire
      BY <3>1, FramesKept
    <3>2. CASE Send(b, <<<<"ack", t>>>>)
      BY <1>a, <1>c, <1>d, <3>2, SentFrame
    <3> QED
      BY <2>2, <3>1, <3>2
  <2>4. ASSUME NEW q \in Requests, NEW c \in Backends,
               stage'[c][q] = "acked" /\ loop'[c] \in {"consuming", "sleeping"}
        PROVE  Replying(c, q)
    BY <1>a, <2>1, <2>4 DEF Replying, Connected, TypeOK
  <2> QED
    BY <2>1, <2>3, <2>4, RepliesKept
<1>10. ASSUME NEW b \in Backends, NEW r \in Requests, AckTask(b, r)
       PROVE  OrderInv' /\ OnceInv'
  <2>1. /\ UNCHANGED <<queue, replies, http, reply, loop>>
        /\ stage[b][r] = "running" /\ stage' = [stage EXCEPT ![b][r] = "acked"]
        /\ IF holder[r] = b THEN Send(b, <<<<"ack", r>>>>) ELSE UNCHANGED wire
    BY <1>10 DEF AckTask
  <2>2. stage'[b][r] = "acked" /\ \A c \in Backends, u \in Tasks : c # b \/ u # r => stage'[c][u] = stage[c][u]
    BY <1>a, <2>1 DEF TypeOK
  <2>3. ASSUME NEW q \in Requests, NEW c \in Backends, c # b \/ q # r
        PROVE  Replying(c, q)' = Replying(c, q)
    BY <1>a, <2>1, <2>2, <2>3 DEF Replying, Connected
  <2>4. ASSUME NEW q \in Requests, NEW c \in Backends
        PROVE  /\ \A k \in Frames(c, Answers, q)' : k \in Frames(c, Answers, q)
               /\ \A i \in Frames(c, Removals, q) : i \in Frames(c, Removals, q)'
    <3>1. CASE UNCHANGED wire
      BY <3>1, FramesKept
    <3>2. CASE Send(b, <<<<"ack", r>>>>)
      BY <1>a, <1>c, <1>d, <3>2, SentFrame
    <3> QED
      BY <2>1, <3>1, <3>2
  <2>5. ASSUME NEW u \in Requests, u # r \/ ~ Replying(b, r)'
        PROVE  InOrder(u)' /\ AnsweredOnce(u)'
    BY <1>b, <2>1, <2>3, <2>4, <2>5, OrderKept, OnceKept
  <2>6. ASSUME Replying(b, r)'
        PROVE  InOrder(r)' /\ AnsweredOnce(r)'
    <3>1. Connected(b)
      BY <2>1, <2>6 DEF Replying, Connected
    <3>2. holder[r] = b /\ Frames(b, SettleKinds, r) = {}
      BY <1>a, <1>e, <2>1, <3>1 DEF SettledOnce
    <3>3. /\ replies[r] = 0 /\ http[r] \notin Answers /\ reply[r].at = "none"
          /\ \A c \in Backends : ~ Replying(c, r) /\ \A k \in Frames(c, Answers, r) : FALSE
      BY <1>b, <3>2, NoReplyYet
    <3>4. Len(wire[b]) + 1 \in Frames(b, Removals, r)'
      BY <1>a, <1>c, <1>d, <2>1, <3>2, SentFrame
    <3>5. /\ \A c \in Backends : \A k \in Frames(c, Answers, r)' : FALSE
          /\ \A c \in Backends : Replying(c, r)' => c = b
      BY <2>3, <2>4, <3>3
    <3>6. replies'[r] = 0 /\ ~ (http'[r] \in Answers \/ reply'[r].at # "none" \/ replies'[r] > 0)
      BY <2>1, <3>3
    <3>7. InOrder(r)'
      <4>1. ASSUME NEW c \in Backends, Replying(c, r)'
            PROVE  Frames(c, Removals, r)' # {}
        BY <3>4, <3>5, <4>1
      <4> QED
        BY <3>5, <3>6, <4>1 DEF InOrder
    <3>8. AnsweredOnce(r)'
      <4>1. ASSUME NEW c \in Backends, Replying(c, r)'
            PROVE  \A d \in Backends : Replying(d, r)' => d = c
        BY <3>5, <4>1
      <4> QED
        BY <3>5, <3>6, <4>1 DEF AnsweredOnce
    <3> QED
      BY <3>7, <3>8
  <2> QED
    BY <2>5, <2>6 DEF OrderInv, OnceInv
<1>11. ASSUME NEW b \in Backends, NEW r \in Requests, Reply(b, r)
       PROVE  OrderInv' /\ OnceInv'
  <2>1. /\ UNCHANGED <<queue, replies, http, reply, loop>>
        /\ stage[b][r] = "acked" /\ stage' = [stage EXCEPT ![b][r] = "none"]
        /\ IF Connected(b) THEN Send(b, <<<<"ok", r>>>>) ELSE UNCHANGED wire
    BY <1>11 DEF Reply, EndTask
  <2>2. stage'[b][r] = "none" /\ \A c \in Backends, u \in Tasks : c # b \/ u # r => stage'[c][u] = stage[c][u]
    BY <1>a, <2>1 DEF TypeOK
  <2>3. ASSUME NEW q \in Requests, NEW c \in Backends
        PROVE  Replying(c, q)' <=> (c # b \/ q # r) /\ Replying(c, q)
    BY <1>a, <2>1, <2>2 DEF Replying, Connected
  <2>4. CASE ~ Connected(b)
    BY <2>1, <2>3, <2>4, FramesKept, RepliesKept DEF Replying, Connected
  <2>5. CASE Connected(b)
    <3>1. Send(b, <<<<"ok", r>>>>) /\ Replying(b, r)
      BY <2>1, <2>5 DEF Replying
    <3>2. /\ replies[r] = 0 /\ \A c \in Backends : Replying(c, r) => c = b
          /\ \A c \in Backends : \A k \in Frames(c, Answers, r) : FALSE
      BY <1>b, <3>1 DEF AnsweredOnce
    <3>3. queue[r] = "gone" \/ Frames(b, Removals, r) # {}
      BY <1>b, <3>1 DEF InOrder
    <3>4. /\ \A c \in Backends : \A k \in Frames(c, Answers, r)' : c = b /\ k = Len(wire[b]) + 1
          /\ \A i \in Frames(b, Removals, r) : i \in Nat /\ i <= Len(wire[b]) /\ i \in Frames(b, Removals, r)'
          /\ Len(wire[b]) \in Nat
      BY <1>a, <1>c, <3>1, <3>2, SentFrame
    <3>5. \A c \in Backends : ~ Replying(c, r)'
      BY <2>3, <3>2
    <3>6. InOrder(r)'
      <4>1. ASSUME NEW c \in Backends, NEW k \in Frames(c, Answers, r)'
            PROVE  queue'[r] = "gone" \/ \E i \in Frames(c, Removals, r)' : i < k
        BY <2>1, <3>3, <3>4, <4>1
      <4>2. http'[r] \in Answers \/ reply'[r].at # "none" \/ replies'[r] > 0 => queue'[r] = "gone"
        BY <1>b, <2>1 DEF InOrder
      <4> QED
        BY <3>5, <4>1, <4>2 DEF InOrder
    <3>7. AnsweredOnce(r)'
      BY <2>1, <3>2, <3>4, <3>5 DEF AnsweredOnce
    <3>8. ASSUME NEW u \in Requests, u # r
          PROVE  InOrder(u)' /\ AnsweredOnce(u)'
      <4>1. ASSUME NEW c \in Backends
            PROVE  /\ \A k \in Frames(c, Answers, u)' : k \in Frames(c, Answers, u)
                   /\ \A i \in Frames(c, Removals, u) : i \in Frames(c, Removals, u)'
        BY <1>a, <1>c, <3>1, <3>8, SentFrame
      <4> QED
        BY <1>b, <2>1, <2>3, <3>8, <4>1, OrderKept, OnceKept
    <3> QED
      BY <3>6, <3>7, <3>8 DEF OrderInv, OnceInv
  <2> QED
    BY <2>4, <2>5
<1>12. ASSUME NEW b \in Backends, Disconnect(b) \/ Crash(b)
       PROVE  OrderInv' /\ OnceInv'
  <2>1. PICK answer \in {"broken", "dead"} : LoseConnection(b, answer)
    BY <1>12 DEF Disconnect, Crash
  <2>2. /\ \A c \in Backends, u \in Tasks : c # b => loop'[c] = loop[c] /\ stage'[c][u] = stage[c][u]
        /\ ~ Connected(b)' /\ replies' = replies
    BY <1>12 DEF Disconnect, Crash, Connected, TypeOK
  <2>3. ASSUME NEW c \in Backends, NEW K, NEW u, NEW k
        PROVE  k \in Frames(c, K, u)' <=> c # b /\ k \in Frames(c, K, u)
    BY <1>a, <2>1, Cleared DEF LoseConnection
  <2>4. \A u \in Tasks : queue[u] = "gone" => queue'[u] = "gone"
    BY <2>1 DEF LoseConnection, Held, HolderInv
  <2>5. ASSUME NEW r \in Requests, NEW c \in Backends
        PROVE  Replying(c, r)' => c # b /\ Replying(c, r)
    BY <1>a, <2>2 DEF Replying, Connected
  <2>6. ASSUME NEW r \in Requests
        PROVE  InOrder(r)' /\ AnsweredOnce(r)'
    <3>1. ASSUME NEW c \in Backends
          PROVE  /\ \A k \in Frames(c, Answers, r)' : k \in Frames(c, Answers, r)
                 /\ Replying(c, r)' => Replying(c, r)
                 /\ \/ \A i \in Frames(c, Removals, r) : i \in Frames(c, Removals, r)'
                    \/ ~ Replying(c, r)' /\ \A k \in Frames(c, Answers, r)' : FALSE
      BY <2>3, <2>5
    <3>2. /\ queue[r] = "gone" => queue'[r] = "gone"
          /\ replies'[r] = replies[r]
          /\ http'[r] \in Answers \/ reply'[r].at # "none" \/ replies'[r] > 0 =>
               http[r] \in Answers \/ reply[r].at # "none" \/ replies[r] > 0
      <4>1. (http'[r] \in Answers => http[r] \in Answers) /\ (reply'[r].at # "none" => reply[r].at # "none")
        BY <2>1 DEF LoseConnection, Answers, NoReply
      <4>2. replies' = replies /\ (queue[r] = "gone" => queue'[r] = "gone")
        BY <1>a, <2>2, <2>4
      <4> QED
        BY <4>1, <4>2
    <3>3. InOrder(r)'
      BY <1>b, <3>1, <3>2, OrderKept
    <3>4. AnsweredOnce(r)'
      BY <1>b, <3>1, <3>2, OnceKept
    <3> QED
      BY <3>3, <3>4
  <2> QED
    BY <2>6 DEF OrderInv, OnceInv
<1>13. CASE UNCHANGED vars
  <2>1. UNCHANGED <<wire, queue, replies, http, reply, stage, loop>>
    BY <1>13 DEF vars
  <2> QED
    BY <2>1, FramesKept, RepliesKept DEF Replying, Connected
<1> HIDE DEF broker, work
<1> QED
  BY <1>a, <1>1, <1>2, <1>3, <1>4, <1>5, <1>6, <1>7, <1>8, <1>9, <1>10, <1>11, <1>12, <1>13 DEF Next, Tasks

-----------------------------------------------------------------------------
(* The theorems.                                                           *)

LEMMA FramesInit ==
  ASSUME Init, NEW b \in Backends, NEW K, NEW t
  PROVE  Frames(b, K, t) = {}
  BY DEF Init, Frames

LEMMA InvInit ==
  ASSUME Init
  PROVE  IInv
<1>1. HolderInv
  BY DEF Init, HolderInv
<1>2. PublishInv
  BY FramesInit DEF Init, PublishInv, Tasks
<1>3. SettleInv
  BY FramesInit DEF Init, SettleInv, SettledOnce
<1>4. OrderInv /\ OnceInv
  <2>1. \A b \in Backends, r \in Requests : ~ Replying(b, r)
    BY DEF Init, Replying, Tasks
  <2>2. \A r \in Requests : http[r] = "new" /\ reply[r].at = "none" /\ replies[r] = 0
    BY DEF Init, NoReply
  <2> QED
    BY <2>1, <2>2, FramesInit DEF OrderInv, InOrder, OnceInv, AnsweredOnce, Answers
<1> QED
  BY TypeInit, <1>1, <1>2, <1>3, <1>4 DEF IInv

\* Each message is published once and settled once per delivery, over the
\* channel that holds it, and whatever answers a request is sent after what
\* removes its message, on the same channel: lost connections and restarts
\* change none of that.
THEOREM Invariant == Spec => []IInv
<1>1. Init => IInv
  BY InvInit
<1>2. IInv /\ [Next]_vars => IInv'
  BY TypeNext, HolderNext, PublishNext, SettleNext, RepliesNext DEF IInv
<1> QED
  BY <1>1, <1>2, PTL DEF Spec

\* The handlers, the loops, the channels and the queue keep their types.
THEOREM TypeCorrect == Spec => []TypeOK
<1>1. IInv => TypeOK
  BY DEF IInv
<1> QED
  BY <1>1, Invariant, PTL

\* handle_with_worker's "we only expect one reply": a request is answered at
\* most once, however often its task is delivered.
THEOREM AnsweredAtMostOnce == Spec => []AtMostOneReply
<1>1. IInv => AtMostOneReply
  BY DEF IInv, OnceInv, AnsweredOnce, AtMostOneReply
<1> QED
  BY <1>1, Invariant, PTL

\* An answered request's task is out of the queue for good.
THEOREM NothingIsVerifiedAgain == Spec => []AnsweredIsGone
<1>1. IInv => AnsweredIsGone
  BY DEF IInv, OrderInv, InOrder, AnsweredIsGone
<1> QED
  BY <1>1, Invariant, PTL

=============================================================================
