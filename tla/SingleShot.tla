----------------------------- MODULE SingleShot -----------------------------
(***************************************************************************)
(* POST /v1/check_email on a backend with a worker: a remote procedure     *)
(* call over RabbitMQ.  The handler publishes the task to "check_email",   *)
(* some backend's worker loop takes it and publishes the reply to an       *)
(* exclusive queue, which the handler consumes.  Bulk tasks share the      *)
(* queue, the loops and the channels.                                      *)
(*                                                                         *)
(* A backend has ONE channel for everything: what it sends (publish, ack,  *)
(* reject, reply) reaches the broker in order, and its prefetch limit      *)
(* counts tasks and replies alike.  The broker is external.  Whether a     *)
(* check is throttled is nondeterministic (see Throttle), and so is what a *)
(* verification finds.  Storing the result is left to BulkQueue.           *)
(***************************************************************************)
EXTENDS Naturals, Sequences, FiniteSets

CONSTANTS
  Requests,    \* the calls of POST /v1/check_email
  Bulk,        \* bulk tasks that are in the queue from the start
  Backends,
  Concurrency, \* the global prefetch of every channel
  Budget,      \* Budget[f]: how often an adverse event of kind f may happen
  NoBackend

Tasks == Requests \union Bulk
AdverseEvents == {"throttle", "crash", "disconnect"}

ASSUME TasksAssumption == Requests \intersect Bulk = {} /\ IsFiniteSet(Tasks)
ASSUME BackendsAssumption ==
  NoBackend \notin Backends /\ IsFiniteSet(Backends) /\ Concurrency \in Nat
ASSUME BudgetAssumption == Budget \in [AdverseEvents -> Nat]

VARIABLES
  http,        \* http[r]: where the handler of request r is, or its answer
  server,      \* server[r]: the backend that handles it
  wire,        \* wire[b]: the frames b has sent that the broker has not handled
  queue,       \* queue[t]: where the message of task t is
  redelivered, \* redelivered[t]: its redelivered flag
  holder,      \* holder[t]: the backend whose channel holds t unacknowledged
  reply,       \* reply[r]: where the reply to r is
  loop,        \* loop[b]: the worker loop of b
  stage,       \* stage[b][t]: the spawned do_check_email_work of t on b
  flagged,     \* flagged[b][t]: delivery.redelivered of its delivery
  replies,     \* history: the replies to r that the broker has taken
  used         \* used[f]: the adverse events of kind f so far

broker == <<queue, redelivered, holder, reply, replies>>
work == <<stage, flagged>>
vars == <<http, server, wire, queue, redelivered, holder, reply, loop, stage,
          flagged, replies, used>>

Answers == {"ok", "busy"}  \* a verification, or 429 from the worker
Pending == {"publishing", "waiting"}
FrameKinds == {"publish", "ack", "requeue", "discard", "ok", "busy", "taken"}

TypeOK ==
  /\ http \in [Requests -> {"new", "refused", "broken", "dead"} \union Pending \union Answers]
  /\ server \in [Requests -> Backends \union {NoBackend}]
  /\ wire \in [Backends -> Seq(FrameKinds \X Tasks)]
  /\ queue \in [Tasks -> {"absent", "ready", "unacked", "gone"}]
  /\ redelivered \in [Tasks -> BOOLEAN]
  /\ holder \in [Tasks -> Backends \union {NoBackend}]
  /\ reply \in [Requests -> [at : {"none", "queued", "unacked"}, is : Answers]]
  /\ loop \in [Backends -> {"consuming", "sleeping", "ended", "down"}]
  /\ stage \in [Backends -> [Tasks -> {"none", "running", "acked"}]]
  /\ flagged \in [Backends -> [Tasks -> BOOLEAN]]
  /\ replies \in [Requests -> Nat]
  /\ used \in [AdverseEvents -> Nat]

NoReply == [at |-> "none", is |-> "ok"]

Init ==
  /\ http = [r \in Requests |-> "new"]
  /\ server = [r \in Requests |-> NoBackend]
  /\ wire = [b \in Backends |-> <<>>]
  /\ queue = [t \in Tasks |-> IF t \in Bulk THEN "ready" ELSE "absent"]
  /\ redelivered = [t \in Tasks |-> FALSE]
  /\ holder = [t \in Tasks |-> NoBackend]
  /\ reply = [r \in Requests |-> NoReply]
  /\ loop = [b \in Backends |-> "consuming"]
  /\ stage = [b \in Backends |-> [t \in Tasks |-> "none"]]
  /\ flagged = [b \in Backends |-> [t \in Tasks |-> FALSE]]
  /\ replies = [r \in Requests |-> 0]
  /\ used = [f \in AdverseEvents |-> 0]

-----------------------------------------------------------------------------
(* Helpers. *)

Happens(f) == used[f] < Budget[f] /\ used' = [used EXCEPT ![f] = @ + 1]

Connected(b) == loop[b] \in {"consuming", "sleeping"}

\* What the prefetch limit of b's channel counts.
Held(b) == {t \in Tasks : holder[t] = b}
Load(b) ==
  Cardinality(Held(b))
    + Cardinality({r \in Requests : server[r] = b /\ reply[r].at = "unacked"})

Send(b, frames) == wire' = [wire EXCEPT ![b] = @ \o frames]

\* do_check_email_work of t returns on b.
EndTask(b, t) ==
  /\ stage' = [stage EXCEPT ![b][t] = "none"]
  /\ flagged' = [flagged EXCEPT ![b][t] = FALSE]

(* Operators named Mutant... are deliberate errors: substituted for the       *)
(* definition that follows, each makes a property below fail.               *)

-----------------------------------------------------------------------------
(* The HTTP handler. *)

\* The handler's own throttle check refuses.
Refuse(r) ==
  /\ http[r] = "new"
  /\ Happens("throttle")
  /\ http' = [http EXCEPT ![r] = "refused"]
  /\ UNCHANGED <<server, wire, broker, loop, work>>

\* handle_with_worker declares the reply queue and publishes the task ...
Call(r, b) ==
  /\ http[r] = "new"
  /\ Connected(b)
  /\ http' = [http EXCEPT ![r] = "publishing"]
  /\ server' = [server EXCEPT ![r] = b]
  /\ Send(b, <<<<"publish", r>>>>)
  /\ UNCHANGED <<broker, loop, work, used>>

\* ... or fails on a channel that is closed.
CallFails(r, b) ==
  /\ http[r] = "new"
  /\ loop[b] = "ended"
  /\ http' = [http EXCEPT ![r] = "broken"]
  /\ UNCHANGED <<server, wire, broker, loop, work, used>>

\* Then it consumes the reply queue; basic_consume-ok follows the publish.
Consume(r) ==
  /\ http[r] = "publishing"
  /\ queue[r] # "absent"
  /\ http' = [http EXCEPT ![r] = "waiting"]
  /\ UNCHANGED <<server, wire, broker, loop, work, used>>

\* The handler acknowledges its reply and answers the client.
TakeReply(r) ==
  /\ http[r] = "waiting"
  /\ reply[r].at = "unacked"
  /\ http' = [http EXCEPT ![r] = reply[r].is]
  /\ Send(server[r], <<<<"taken", r>>>>)
  /\ UNCHANGED <<server, broker, loop, work, used>>

-----------------------------------------------------------------------------
(* The broker. *)

HandleFrame(b) ==
  /\ wire[b] # <<>>
  /\ wire' = [wire EXCEPT ![b] = Tail(@)]
  /\ LET kind == Head(wire[b])[1]
         t == Head(wire[b])[2]
     IN
     \/ /\ kind = "publish"
        /\ queue' = [queue EXCEPT ![t] = "ready"]
        /\ UNCHANGED <<redelivered, holder, reply, replies>>
     \/ /\ kind \in {"ack", "discard"}
        /\ queue' = [queue EXCEPT ![t] = "gone"]
        /\ holder' = [holder EXCEPT ![t] = NoBackend]
        /\ UNCHANGED <<redelivered, reply, replies>>
     \/ /\ kind = "requeue"
        /\ queue' = [queue EXCEPT ![t] = "ready"]
        /\ holder' = [holder EXCEPT ![t] = NoBackend]
        /\ redelivered' = [redelivered EXCEPT ![t] = TRUE]
        /\ UNCHANGED <<reply, replies>>
     \/ \* A reply whose exclusive queue is gone with its connection is dropped.
        /\ kind \in Answers
        /\ replies' = [replies EXCEPT ![t] = @ + 1]
        /\ reply' = IF http[t] \in Pending
                      THEN [reply EXCEPT ![t] = [at |-> "queued", is |-> kind]] ELSE reply
        /\ UNCHANGED <<queue, redelivered, holder>>
     \/ /\ kind = "taken"
        /\ reply' = [reply EXCEPT ![t] = NoReply]
        /\ UNCHANGED <<queue, redelivered, holder, replies>>
  /\ UNCHANGED <<http, server, loop, work, used>>

\* Single-shot tasks have the highest priority.
Deliver(b, t) ==
  /\ queue[t] = "ready"
  /\ t \in Bulk => \A r \in Requests : queue[r] # "ready"
  /\ Connected(b)
  /\ Load(b) < Concurrency
  /\ queue' = [queue EXCEPT ![t] = "unacked"]
  /\ holder' = [holder EXCEPT ![t] = b]
  /\ UNCHANGED <<http, server, wire, redelivered, reply, loop, work, replies, used>>

DeliverReply(r) ==
  /\ reply[r].at = "queued"
  /\ http[r] = "waiting"
  /\ Load(server[r]) < Concurrency
  /\ reply' = [reply EXCEPT ![r].at = "unacked"]
  /\ UNCHANGED <<http, server, wire, queue, redelivered, holder, loop, work, replies, used>>

-----------------------------------------------------------------------------
(* The worker loop and do_check_email_work. *)

\* Delivered to b's consumer and not taken by the loop yet.
Buffered(b, t) ==
  /\ holder[t] = b
  /\ stage[b][t] = "none"
  /\ \A i \in DOMAIN wire[b] :
       wire[b][i][2] = t => wire[b][i][1] \notin {"ack", "requeue", "discard"}

\* Mutant: the task is requeued, as a bulk task would be, and answered.
MutantThrottleRequeues(b, r) ==
  /\ loop[b] = "consuming"
  /\ Buffered(b, r)
  /\ Happens("throttle")
  /\ Send(b, <<<<"requeue", r>>, <<"busy", r>>>>)
  /\ UNCHANGED <<http, server, broker, loop, work>>

\* Mutant: the task is discarded without an answer.
MutantThrottleSilent(b, r) ==
  /\ loop[b] = "consuming"
  /\ Buffered(b, r)
  /\ Happens("throttle")
  /\ Send(b, <<<<"discard", r>>>>)
  /\ UNCHANGED <<http, server, broker, loop, work>>

\* A throttled single-shot task is discarded and answered at once.
ThrottleSingle(b, r) ==
  /\ loop[b] = "consuming"
  /\ Buffered(b, r)
  /\ Happens("throttle")
  /\ Send(b, <<<<"discard", r>>, <<"busy", r>>>>)
  /\ UNCHANGED <<http, server, broker, loop, work>>

\* A throttled bulk task is requeued, and the loop sleeps.
ThrottleBulk(b, t) ==
  /\ loop[b] = "consuming"
  /\ Buffered(b, t)
  /\ Happens("throttle")
  /\ Send(b, <<<<"requeue", t>>>>)
  /\ loop' = [loop EXCEPT ![b] = "sleeping"]
  /\ UNCHANGED <<http, server, broker, work>>

WakeUp(b) ==
  /\ loop[b] = "sleeping"
  /\ loop' = [loop EXCEPT ![b] = "consuming"]
  /\ UNCHANGED <<http, server, wire, broker, work, used>>

StartTask(b, t) ==
  /\ loop[b] = "consuming"
  /\ Buffered(b, t)
  /\ stage' = [stage EXCEPT ![b][t] = "running"]
  /\ flagged' = [flagged EXCEPT ![b][t] = redelivered[t]]
  /\ UNCHANGED <<http, server, wire, broker, loop, used>>

\* The check is unknown on a first delivery: the task goes back.
RequeueTask(b, t) ==
  /\ stage[b][t] = "running"
  /\ ~ flagged[b][t]
  /\ EndTask(b, t)
  /\ IF holder[t] = b THEN Send(b, <<<<"requeue", t>>>>) ELSE UNCHANGED wire
  /\ UNCHANGED <<http, server, broker, loop, used>>

\* Mutant: the reply is sent before the ack.
MutantReplyFirst(b, t) ==
  /\ stage[b][t] = "running"
  /\ EndTask(b, t)
  /\ IF holder[t] = b
       THEN Send(b, IF t \in Requests THEN <<<<"ok", t>>, <<"ack", t>>>> ELSE <<<<"ack", t>>>>)
       ELSE UNCHANGED wire
  /\ UNCHANGED <<http, server, broker, loop, used>>

\* Otherwise it is acknowledged first (unheard, if the channel was lost) ...
AckTask(b, t) ==
  /\ stage[b][t] = "running"
  /\ IF t \in Requests
       THEN stage' = [stage EXCEPT ![b][t] = "acked"] /\ UNCHANGED flagged
       ELSE EndTask(b, t)
  /\ IF holder[t] = b THEN Send(b, <<<<"ack", t>>>>) ELSE UNCHANGED wire
  /\ UNCHANGED <<http, server, broker, loop, used>>

\* Mutant: the wrong value is sent.
MutantReplyStage(b, r) ==
  /\ stage[b][r] = "acked"
  /\ EndTask(b, r)
  /\ IF Connected(b) THEN Send(b, <<<<stage[b][r], r>>>>) ELSE UNCHANGED wire
  /\ UNCHANGED <<http, server, broker, loop, used>>

\* ... and then, for a single-shot task, the reply is sent.
Reply(b, r) ==
  /\ stage[b][r] = "acked"
  /\ EndTask(b, r)
  /\ IF Connected(b) THEN Send(b, <<<<"ok", r>>>>) ELSE UNCHANGED wire
  /\ UNCHANGED <<http, server, broker, loop, used>>

-----------------------------------------------------------------------------
(* Crashes, lost connections and restarts. *)

\* The frames in flight and the exclusive reply queues of b are gone, what its
\* channel holds goes back into the queue; handlers that wait end as given.
LoseConnection(b, answer) ==
  LET held == Held(b)
      own == {r \in Requests : server[r] = b /\ http[r] \in Pending}
  IN
  /\ wire' = [wire EXCEPT ![b] = <<>>]
  /\ queue' = [t \in Tasks |-> IF t \in held THEN "ready" ELSE queue[t]]
  /\ redelivered' = [t \in Tasks |-> redelivered[t] \/ t \in held]
  /\ holder' = [t \in Tasks |-> IF t \in held THEN NoBackend ELSE holder[t]]
  /\ reply' = [r \in Requests |-> IF server[r] = b THEN NoReply ELSE reply[r]]
  /\ http' = [r \in Requests |-> IF r \in own THEN answer ELSE http[r]]

Disconnect(b) ==
  /\ Connected(b)
  /\ Happens("disconnect")
  /\ LoseConnection(b, "broken")
  /\ loop' = [loop EXCEPT ![b] = "ended"]
  /\ UNCHANGED <<server, work, replies>>

Crash(b) ==
  /\ loop[b] # "down"
  /\ Happens("crash")
  /\ LoseConnection(b, "dead")
  /\ loop' = [loop EXCEPT ![b] = "down"]
  /\ stage' = [stage EXCEPT ![b] = [t \in Tasks |-> "none"]]
  /\ flagged' = [flagged EXCEPT ![b] = [t \in Tasks |-> FALSE]]
  /\ UNCHANGED <<server, replies>>

Restart(b) ==
  /\ loop[b] = "down"
  /\ loop' = [loop EXCEPT ![b] = "consuming"]
  /\ UNCHANGED <<http, server, wire, broker, work, used>>

-----------------------------------------------------------------------------
Next ==
  \/ \E r \in Requests : Refuse(r) \/ Consume(r) \/ TakeReply(r) \/ DeliverReply(r)
  \/ \E r \in Requests, b \in Backends :
       Call(r, b) \/ CallFails(r, b) \/ ThrottleSingle(b, r) \/ Reply(b, r)
  \/ \E t \in Bulk, b \in Backends : ThrottleBulk(b, t)
  \/ \E t \in Tasks, b \in Backends :
       Deliver(b, t) \/ StartTask(b, t) \/ RequeueTask(b, t) \/ AckTask(b, t)
  \/ \E b \in Backends :
       HandleFrame(b) \/ WakeUp(b) \/ Disconnect(b) \/ Crash(b) \/ Restart(b)

Spec == Init /\ [][Next]_vars

\* tokio runs what can run, checks and sleeps end, the broker handles what it
\* is sent and serves every message and reply that a free slot lets it deliver
\* again and again.
Run(b, t) == StartTask(b, t) \/ RequeueTask(b, t) \/ AckTask(b, t)

Fairness ==
  /\ \A r \in Requests : WF_vars(Consume(r)) /\ WF_vars(TakeReply(r)) /\ SF_vars(DeliverReply(r))
  /\ \A t \in Tasks : SF_vars(\E b \in Backends : Deliver(b, t))
  /\ \A b \in Backends, t \in Tasks : WF_vars(Run(b, t))
  /\ \A b \in Backends, r \in Requests : WF_vars(Reply(b, r))
  /\ \A b \in Backends : WF_vars(HandleFrame(b)) /\ WF_vars(WakeUp(b))

FairSpec == Spec /\ Fairness

-----------------------------------------------------------------------------
(* Properties. *)

\* handle_with_worker: "we only expect one reply".  A request is answered at
\* most once, although its task may be verified by several backends when
\* connections are lost.
AtMostOneReply == \A r \in Requests : replies[r] <= 1

\* Once a reply to it exists, the broker has dropped the task: a client that
\* has its answer never has its email verified again.
AnsweredIsGone ==
  \A r \in Requests :
    http[r] \in Answers \/ reply[r].at # "none" => queue[r] = "gone"

\* A handler waits for its reply without a timeout, and the replies share the
\* prefetch limit with the tasks, whose loop may be asleep.  It is answered all
\* the same, or ended with its own connection or process, except where a process or
\* connection was lost and the task is gone without a reply: nobody has it any more
\* then, and the handler waits for ever.
Answered ==
  \A r \in Requests :
    http[r] \in Pending ~>
      \/ http[r] \notin Pending
      \/ queue[r] = "gone" /\ replies[r] = 0 /\ used["crash"] + used["disconnect"] > 0
-----------------------------------------------------------------------------
(* The inductive invariant of SingleShotProofs.                            *)

\* The frames in flight from b that are of one of these kinds and about t, by
\* their places.
Frames(b, kinds, t) ==
  {k \in DOMAIN wire[b] : wire[b][k][1] \in kinds /\ wire[b][k][2] = t}
SettleKinds == {"ack", "requeue", "discard"}

\* A message is held over an open channel, or not at all.
HolderInv ==
  \A t \in Tasks :
    /\ holder[t] # NoBackend <=> queue[t] = "unacked"
    /\ \A b \in Backends : holder[t] = b => Connected(b)

\* Requests are published, once each.
PublishInv ==
  /\ \A r \in Requests : http[r] = "new" => queue[r] = "absent"
  /\ \A b \in Backends, t \in Tasks : \A k \in Frames(b, {"publish"}, t) :
       /\ t \in Requests /\ http[t] # "new" /\ queue[t] = "absent"
       /\ \A c \in Backends : \A i \in Frames(c, {"publish"}, t) : c = b /\ i = k

\* Each delivery is settled once, over the channel that holds it.
SettledOnce(b, t) ==
  /\ \A k \in Frames(b, SettleKinds, t) :
       holder[t] = b /\ \A i \in Frames(b, SettleKinds, t) : i = k
  /\ stage[b][t] = "running" /\ Connected(b) =>
       holder[t] = b /\ Frames(b, SettleKinds, t) = {}
  /\ loop[b] = "down" => stage[b][t] = "none"
SettleInv == \A b \in Backends, t \in Tasks : SettledOnce(b, t)

Removals == {"ack", "discard"}

\* Replies, be it an execution that is going to send one, a frame or an answer,
\* come after the end of their message: it is gone, or a frame that removes it
\* is ahead of them.
Replying(b, r) == stage[b][r] = "acked" /\ Connected(b)
InOrder(r) ==
  /\ \A b \in Backends :
       /\ \A k \in Frames(b, Answers, r) :
            queue[r] = "gone" \/ \E i \in Frames(b, Removals, r) : i < k
       /\ Replying(b, r) => queue[r] = "gone" \/ Frames(b, Removals, r) # {}
  /\ http[r] \in Answers \/ reply[r].at # "none" \/ replies[r] > 0 => queue[r] = "gone"
OrderInv == \A r \in Requests : InOrder(r)

\* And there is one of them.
AnsweredOnce(r) ==
  /\ replies[r] <= 1
  /\ \A b \in Backends :
       /\ \A k \in Frames(b, Answers, r) :
            /\ replies[r] = 0
            /\ \A c \in Backends :
                 ~ Replying(c, r) /\ \A i \in Frames(c, Answers, r) : c = b /\ i = k
       /\ Replying(b, r) =>
            replies[r] = 0 /\ \A c \in Backends : Replying(c, r) => c = b
OnceInv == \A r \in Requests : AnsweredOnce(r)

IInv == TypeOK /\ HolderInv /\ PublishInv /\ SettleInv /\ OrderInv /\ OnceInv
=============================================================================
