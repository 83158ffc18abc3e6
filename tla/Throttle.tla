------------------------------ MODULE Throttle ------------------------------
(***************************************************************************)
(* The request throttle of a backend (backend/src/throttle.rs) and the two *)
(* kinds of callers that share it: the RabbitMQ worker loop                *)
(* (worker/consume.rs) and the handlers of POST /v1/check_email            *)
(* (http/v1/check_email/post.rs).                                          *)
(*                                                                         *)
(* One fixed window per limit: a counter and the instant of its last       *)
(* reset, guarded by one mutex.  check_throttle takes the mutex, resets    *)
(* the windows that are over and compares the counters with the            *)
(* configured maxima; counting a request is a SEPARATE critical section,   *)
(* entered later.  Time is a clock in ticks that may advance between any   *)
(* two steps, in particular between the two clock reads of check_throttle. *)
(***************************************************************************)
EXTENDS Integers, FiniteSets

CONSTANTS
  Handlers,       \* concurrent requests on POST /v1/check_email
  Worker,         \* the worker loop of this backend
  WorkerEnabled,  \* config.worker.enable
  NumLimits,      \* 4 in the code: per second, minute, hour and day
  Width,          \* Width[k]: length in ticks of the window of limit k
  Max,            \* Max[k]: the configured maximum of limit k, or NoLimit
  NoLimit,
  MaxTime,        \* bound on the clock
  MaxStarts       \* bound on the verifications that are started

Limits == 1..NumLimits
Callers == IF WorkerEnabled THEN Handlers \union {Worker} ELSE Handlers

ASSUME CallersAssumption ==
  /\ Worker \notin Handlers
  /\ WorkerEnabled \in BOOLEAN
  /\ IsFiniteSet(Handlers) /\ Handlers # {}
ASSUME LimitsAssumption ==
  /\ NumLimits \in Nat
  /\ Width \in [Limits -> Nat \ {0}]
  /\ Max \in [Limits -> Nat \union {NoLimit}]
  /\ NoLimit \notin Nat
ASSUME BoundsAssumption == MaxTime \in Nat /\ MaxStarts \in Nat

VARIABLES
  now,       \* the monotonic clock (Instant::now)
  requests,  \* requests[k]: the counter requests_per_<k>
  last_reset,\* last_reset[k]: the instant last_reset_<k>
  holder,    \* who is inside check_throttle's critical section, or NoCaller
  pc,        \* pc[c]: where caller c is
  sleep,     \* the worker's tokio::time::sleep: its deadline and its cause
  starts,    \* history: the verifications started, as <<number, instant>>
  recent,    \* history: recent[k], the starts since the last reset of k
  before     \* history: before[k], the starts of the window before that one

NoCaller == "none"
ASSUME NoCallerAssumption == NoCaller \notin Handlers \union {Worker}

throttle == <<requests, last_reset>>
history == <<starts, recent, before>>
vars == <<now, requests, last_reset, holder, pc, sleep, starts, recent, before>>

TypeOK ==
  /\ now \in 0..MaxTime
  /\ requests \in [Limits -> Nat]
  /\ last_reset \in [Limits -> 0..MaxTime]
  /\ holder \in Callers \union {NoCaller}
  /\ pc \in [Callers -> {"idle", "locked", "allowed", "started", "sleeping"}]
  /\ sleep \in [deadline : Nat, limit : Limits \union {0}]
  /\ starts \in SUBSET ((1..MaxStarts) \X (0..MaxTime))
  /\ recent \in [Limits -> SUBSET starts]
  /\ before \in [Limits -> SUBSET starts]

Init ==
  /\ now = 0
  /\ requests = [k \in Limits |-> 0]
  /\ last_reset = [k \in Limits |-> 0]
  /\ holder = NoCaller
  /\ pc = [c \in Callers |-> "idle"]
  /\ sleep = [deadline |-> 0, limit |-> 0]
  /\ starts = {}
  /\ recent = [k \in Limits |-> {}]
  /\ before = [k \in Limits |-> {}]

-----------------------------------------------------------------------------
(* Throttle's own operations. *)

(* Operators named Mutant... are deliberate errors: substituted for the       *)
(* definition that follows, each makes a property below fail.               *)

\* Mutant: a window is over one tick late.
MutantOverLate(t) == {k \in Limits : t - last_reset[k] > Width[k]}

\* The windows that reset_if_needed finds over at instant t.
Over(t) == {k \in Limits : t - last_reset[k] >= Width[k]}

\* Mutant: the instant of the reset is not recorded.
MutantResetForgets ==
  LET over == Over(now) IN
  /\ requests' = [k \in Limits |-> IF k \in over THEN 0 ELSE requests[k]]
  /\ before' = [k \in Limits |-> IF k \in over THEN recent[k] ELSE before[k]]
  /\ recent' = [k \in Limits |-> IF k \in over THEN {} ELSE recent[k]]
  /\ UNCHANGED <<starts, last_reset>>

\* reset_if_needed, on one read of the clock.
ResetIfNeeded ==
  LET over == Over(now) IN
  /\ requests' = [k \in Limits |-> IF k \in over THEN 0 ELSE requests[k]]
  /\ last_reset' = [k \in Limits |-> IF k \in over THEN now ELSE last_reset[k]]
  /\ before' = [k \in Limits |-> IF k \in over THEN recent[k] ELSE before[k]]
  /\ recent' = [k \in Limits |-> IF k \in over THEN {} ELSE recent[k]]
  /\ UNCHANGED starts

\* Mutant: only the first configured limit is compared.
MutantExceededFirst ==
  {k \in Limits : /\ Max[k] # NoLimit /\ requests[k] >= Max[k]
                  /\ \A j \in Limits : Max[j] # NoLimit => k <= j}

\* The limits should_throttle finds used up; it reports the first of them.
Exceeded == {k \in Limits : Max[k] # NoLimit /\ requests[k] >= Max[k]}
IsFirst(k) == \A j \in Exceeded : k <= j

\* Mutant: the operands of the subtraction are swapped.
MutantDelaySwapped(k, t) == (t - last_reset[k]) - Width[k]

\* delay_until_reset: saturating_sub of the elapsed time.
DelayUntilReset(k, t) ==
  LET elapsed == t - last_reset[k]
  IN  IF elapsed >= Width[k] THEN 0 ELSE Width[k] - elapsed

\* increment_counters.
IncrementCounters ==
  /\ requests' = [k \in Limits |-> requests[k] + 1]
  /\ UNCHANGED last_reset

-----------------------------------------------------------------------------
(* The callers. *)

Goto(c, from, to) == pc[c] = from /\ pc' = [pc EXCEPT ![c] = to]

Tick ==
  /\ now < MaxTime
  /\ now' = now + 1
  /\ UNCHANGED <<throttle, holder, pc, sleep, history>>

\* check_throttle, first half: take the mutex and reset on a first clock read.
CheckResets(c) ==
  /\ holder = NoCaller
  /\ Goto(c, "idle", "locked")
  /\ holder' = c
  /\ ResetIfNeeded
  /\ UNCHANGED <<now, sleep>>

\* check_throttle, second half: no limit is used up.
CheckAllows(c) ==
  /\ Exceeded = {}
  /\ Goto(c, "locked", "allowed")
  /\ holder' = NoCaller
  /\ UNCHANGED <<now, throttle, sleep, history>>

\* check_throttle, second half, on a second clock read: a limit is used up.
\* A handler answers 429 and the worker answers a single-shot task with an
\* error: both are ready for their next check.
CheckRefuses(c) ==
  /\ Exceeded # {}
  /\ Goto(c, "locked", "idle")
  /\ holder' = NoCaller
  /\ UNCHANGED <<now, throttle, sleep, history>>

\* The same for a bulk task: the worker requeues it and sleeps for the delay.
CheckBacksOff ==
  /\ WorkerEnabled
  /\ Goto(Worker, "locked", "sleeping")
  /\ holder' = NoCaller
  /\ \E k \in Exceeded :
       /\ IsFirst(k)
       /\ sleep' = [deadline |-> now + DelayUntilReset(k, now), limit |-> k]
  /\ UNCHANGED <<now, throttle, history>>

WakeUp ==
  /\ WorkerEnabled
  /\ now >= sleep.deadline
  /\ Goto(Worker, "sleeping", "idle")
  /\ UNCHANGED <<now, throttle, holder, sleep, history>>

\* A verification begins: the worker spawns do_check_email_work, a handler of
\* a backend without worker calls check_email.
Counts(c) == WorkerEnabled => c = Worker

Start(c) ==
  /\ Counts(c)
  /\ Cardinality(starts) < MaxStarts
  /\ Goto(c, "allowed", "started")
  /\ LET new == <<Cardinality(starts) + 1, now>> IN
     /\ starts' = starts \union {new}
     /\ recent' = [k \in Limits |-> recent[k] \union {new}]
  /\ UNCHANGED <<now, throttle, holder, sleep, before>>

\* The caller counts it: the worker right after the spawn, a handler once
\* check_email has returned.
Count(c) ==
  /\ holder = NoCaller
  /\ Goto(c, "started", "idle")
  /\ IncrementCounters
  /\ UNCHANGED <<now, holder, sleep, history>>

\* With the worker enabled a handler that passed the check publishes the task
\* and counts nothing.
Forward(h) ==
  /\ WorkerEnabled
  /\ Goto(h, "allowed", "idle")
  /\ UNCHANGED <<now, throttle, holder, sleep, history>>

\* The client disconnects while check_email runs: the handler's future is
\* dropped and the request is never counted.
Disconnect(h) ==
  /\ Goto(h, "started", "idle")
  /\ UNCHANGED <<now, throttle, holder, sleep, history>>

Next ==
  \/ Tick
  \/ \E c \in Callers :
       CheckResets(c) \/ CheckAllows(c) \/ CheckRefuses(c) \/ Start(c) \/ Count(c)
  \/ \E h \in Handlers : Forward(h) \/ Disconnect(h)
  \/ CheckBacksOff
  \/ WakeUp

Spec == Init /\ [][Next]_vars

-----------------------------------------------------------------------------
(* Properties. *)

Limited == {k \in Limits : Max[k] # NoLimit}

\* The callers that passed the check and have not counted their request yet.
InFlight == {c \in Callers : Counts(c) /\ pc[c] \in {"allowed", "started"}}

\* A counter never passes its maximum: what "Throttle the maximum number of
\* requests per second, per minute, ..." of backend_config.toml promises.  It
\* is proved of the worker loop, which checks and counts alone; HTTP handlers that
\* count have only OverrunBound.
CounterWithinLimit == \A k \in Limited : requests[k] <= Max[k]

\* However the callers interleave check and count, a counter with the requests
\* still to be counted exceeds its maximum by less than the number of callers
\* that count.  The worker loop, being alone, never exceeds it at all.
OverrunBound ==
  \A k \in Limited :
    requests[k] + Cardinality(InFlight)
      < Max[k] + Cardinality({c \in Callers : Counts(c)})

\* In ANY interval as long as the window of a limit, the worker starts at most
\* twice the maximum, although HTTP requests may reset the window between the
\* loop's check and its count.
StartsWithin(t, d) == {s \in starts : t <= s[2] /\ s[2] < t + d}

BurstBound ==
  WorkerEnabled =>
    \A k \in Limited : \A t \in 0..MaxTime :
      Cardinality(StartsWithin(t, Width[k])) <= 2 * Max[k]

\* The delay is enough: once the deadline of the worker's sleep has passed, its
\* next check finds the limit that refused it free, whatever resets happened
\* meanwhile (a maximum of 0 is never free).
WakeMeansFree ==
  WorkerEnabled /\ pc[Worker] = "sleeping" /\ now >= sleep.deadline =>
    LET k == sleep.limit IN Max[k] = 0 \/ k \in Over(now) \/ requests[k] < Max[k]

-----------------------------------------------------------------------------
(* The inductive invariant behind them (proved in ThrottleProofs). *)

\* Who is inside the critical section, and that no reset is in the future.
LockInv ==
  /\ \A k \in Limits : last_reset[k] <= now
  /\ \A c \in Callers : pc[c] = "sleeping" => c = Worker
  /\ \A c \in Callers : pc[c] = "started" => Counts(c)

\* Of the starts attributed to a window at most the counter, and the one being
\* counted, are recent; older starts lie a full window before the last reset.
Pending == IF pc[Worker] = "started" THEN 1 ELSE 0

WindowInvAt(k) ==
  /\ Cardinality(recent[k]) <= requests[k] + Pending
  /\ Cardinality(before[k]) <= Max[k]
  /\ requests[k] <= Max[k]
  /\ pc[Worker] \in {"allowed", "started"} => requests[k] < Max[k]
  /\ \A s \in starts : s[2] <= now
  /\ \A s \in before[k] : s[2] <= last_reset[k]
  /\ \A s \in starts \ (recent[k] \union before[k]) :
       s[2] + Width[k] <= last_reset[k]

WindowInv == WorkerEnabled => \A k \in Limited : WindowInvAt(k)

\* A sleeping worker outsleeps the window that refused it, unless a request on
\* the HTTP side has reset that window already.
SleepInv ==
  WorkerEnabled /\ pc[Worker] = "sleeping" =>
    /\ sleep.limit \in Limited
    /\ \/ requests[sleep.limit] = 0
       \/ sleep.deadline >= last_reset[sleep.limit] + Width[sleep.limit]

IInv == TypeOK /\ LockInv /\ OverrunBound /\ WindowInv /\ SleepInv /\ BurstBound
=============================================================================
