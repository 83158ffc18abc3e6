--------------------------- MODULE ThrottleProofs ---------------------------
(***************************************************************************)
(* Proofs about Throttle: type correctness, the overrun bound for any      *)
(* number of concurrent callers, the burst bound and the sufficiency of    *)
(* the delay for the worker loop.                                          *)
(***************************************************************************)
EXTENDS Throttle, FiniteSetTheorems, TLAPS

USE CallersAssumption, LimitsAssumption, BoundsAssumption, NoCallerAssumption

-----------------------------------------------------------------------------
(* Facts about the helpers. *)

LEMMA StartsFinite ==
  ASSUME TypeOK
  PROVE  /\ IsFiniteSet(starts)
         /\ Cardinality(starts) \in Nat
         /\ \A S \in SUBSET starts : IsFiniteSet(S) /\ Cardinality(S) \in Nat
<1>1. IsFiniteSet((1..MaxStarts) \X (0..MaxTime))
  <2>1. IsFiniteSet(1..MaxStarts) /\ IsFiniteSet(0..MaxTime)
    BY FS_Interval
  <2> QED
    BY <2>1, FS_Product
<1>2. IsFiniteSet(starts)
  BY <1>1, FS_Subset DEF TypeOK
<1>3. ASSUME NEW S \in SUBSET starts
      PROVE  IsFiniteSet(S) /\ Cardinality(S) \in Nat
  BY <1>2, FS_Subset, FS_CardinalityType
<1> QED
  BY <1>2, <1>3, FS_CardinalityType

LEMMA CountersFinite ==
  LET C == {c \in Callers : Counts(c)}
  IN  /\ IsFiniteSet(C)
      /\ Cardinality(C) \in Nat \ {0}
      /\ WorkerEnabled => C = {Worker} /\ Cardinality(C) = 1
<1> DEFINE C == {c \in Callers : Counts(c)}
<1>1. IsFiniteSet(Callers)
  BY FS_AddElement DEF Callers
<1>2. IsFiniteSet(C) /\ Cardinality(C) \in Nat
  BY <1>1, FS_Subset, FS_CardinalityType
<1>3. C # {}
  BY DEF Callers, Counts
<1>4. WorkerEnabled => C = {Worker}
  BY DEF Callers, Counts
<1> QED
  BY <1>2, <1>3, <1>4, FS_EmptySet, FS_Singleton

-----------------------------------------------------------------------------
(* Type correctness. *)

LEMMA TypeInit == Init => TypeOK
  BY DEF Init, TypeOK

LEMMA TypeNext ==
  ASSUME TypeOK, [Next]_vars
  PROVE  TypeOK'
<1> USE DEF TypeOK
<1>1. CASE Tick
  BY <1>1 DEF Tick, throttle, history
<1>2. ASSUME NEW c \in Callers, CheckResets(c)
      PROVE  TypeOK'
  BY <1>2 DEF CheckResets, Goto, ResetIfNeeded
<1>3. ASSUME NEW c \in Callers, CheckAllows(c)
      PROVE  TypeOK'
  BY <1>3 DEF CheckAllows, Goto, throttle, history
<1>4. ASSUME NEW c \in Callers, CheckRefuses(c)
      PROVE  TypeOK'
  BY <1>4 DEF CheckRefuses, Goto, throttle, history
<1>5. ASSUME NEW c \in Callers, Start(c)
      PROVE  TypeOK'
  <2> DEFINE new == <<Cardinality(starts) + 1, now>>
  <2>1. new \in (1..MaxStarts) \X (0..MaxTime)
    BY <1>5, StartsFinite DEF Start
  <2>2. starts' \in SUBSET ((1..MaxStarts) \X (0..MaxTime)) /\ starts \subseteq starts'
    BY <1>5, <2>1 DEF Start
  <2>3. recent' \in [Limits -> SUBSET starts']
    BY <1>5, <2>1 DEF Start
  <2>4. before' \in [Limits -> SUBSET starts']
    BY <1>5, <2>2 DEF Start
  <2> QED
    BY <1>5, <2>2, <2>3, <2>4 DEF Start, Goto, throttle
<1>6. ASSUME NEW c \in Callers, Count(c)
      PROVE  TypeOK'
  BY <1>6 DEF Count, Goto, IncrementCounters, history
<1>7. ASSUME NEW h \in Handlers, Forward(h)
      PROVE  TypeOK'
  BY <1>7 DEF Forward, Goto, throttle, history, Callers
<1>8. ASSUME NEW h \in Handlers, Disconnect(h)
      PROVE  TypeOK'
  BY <1>8 DEF Disconnect, Goto, throttle, history, Callers
<1>9. CASE CheckBacksOff
  <2>1. PICK k \in Exceeded :
          sleep' = [deadline |-> now + DelayUntilReset(k, now), limit |-> k]
    BY <1>9 DEF CheckBacksOff
  <2>2. k \in Limits
    BY <2>1 DEF Exceeded
  <2>3. DelayUntilReset(k, now) \in Nat
    BY <2>2 DEF DelayUntilReset
  <2>4. sleep' \in [deadline : Nat, limit : Limits \union {0}]
    BY <2>1, <2>2, <2>3
  <2> QED
    BY <1>9, <2>4 DEF CheckBacksOff, Goto, throttle, history
<1>10. CASE WakeUp
  BY <1>10 DEF WakeUp, Goto, throttle, history
<1>11. CASE UNCHANGED vars
  BY <1>11 DEF vars
<1> QED
  BY <1>1, <1>2, <1>3, <1>4, <1>5, <1>6, <1>7, <1>8, <1>9, <1>10, <1>11 DEF Next

\* Type correctness of the throttle for any windows, maxima and callers.
THEOREM TypeCorrect == Spec => []TypeOK
<1> QED
  BY TypeInit, TypeNext, PTL DEF Spec

-----------------------------------------------------------------------------
(* The mutex and the clock. *)

LEMMA LockNext ==
  ASSUME TypeOK, LockInv, [Next]_vars
  PROVE  LockInv'
<1> USE DEF TypeOK, LockInv
<1>1. CASE Tick
  BY <1>1 DEF Tick, throttle, history
<1>2. ASSUME NEW c \in Callers, CheckResets(c)
      PROVE  LockInv'
  BY <1>2 DEF CheckResets, Goto, ResetIfNeeded
<1>3. ASSUME NEW c \in Callers, CheckAllows(c)
      PROVE  LockInv'
  BY <1>3 DEF CheckAllows, Goto, throttle, history
<1>4. ASSUME NEW c \in Callers, CheckRefuses(c)
      PROVE  LockInv'
  BY <1>4 DEF CheckRefuses, Goto, throttle, history
<1>5. ASSUME NEW c \in Callers, Start(c)
      PROVE  LockInv'
  BY <1>5 DEF Start, Goto, throttle
<1>6. ASSUME NEW c \in Callers, Count(c)
      PROVE  LockInv'
  BY <1>6 DEF Count, Goto, IncrementCounters, history
<1>7. ASSUME NEW h \in Handlers, Forward(h)
      PROVE  LockInv'
  BY <1>7 DEF Forward, Goto, throttle, history, Callers
<1>8. ASSUME NEW h \in Handlers, Disconnect(h)
      PROVE  LockInv'
  BY <1>8 DEF Disconnect, Goto, throttle, history, Callers
<1>9. CASE CheckBacksOff
  BY <1>9 DEF CheckBacksOff, Goto, throttle, history
<1>10. CASE WakeUp
  BY <1>10 DEF WakeUp, Goto, throttle, history
<1>11. CASE UNCHANGED vars
  BY <1>11 DEF vars
<1> QED
  BY <1>1, <1>2, <1>3, <1>4, <1>5, <1>6, <1>7, <1>8, <1>9, <1>10, <1>11 DEF Next

-----------------------------------------------------------------------------
(* The overrun bound.  Only an allowed check adds to InFlight, and it finds   *)
(* every counter below its maximum; a count moves one request from InFlight   *)
(* to the counter.                                                            *)

LEMMA InFlightFinite ==
  ASSUME NEW S \in SUBSET {c \in Callers : Counts(c)}
  PROVE  /\ IsFiniteSet(S)
         /\ Cardinality(S) \in Nat
         /\ Cardinality(S) <= Cardinality({c \in Callers : Counts(c)})
  BY CountersFinite, FS_Subset, FS_CardinalityType

LEMMA OverrunNext ==
  ASSUME TypeOK, LockInv, OverrunBound, [Next]_vars
  PROVE  OverrunBound'
<1> DEFINE C == {c \in Callers : Counts(c)}
<1>0. /\ IsFiniteSet(C) /\ Cardinality(C) \in Nat \ {0}
      /\ InFlight \subseteq C /\ InFlight' \subseteq C
      /\ IsFiniteSet(InFlight) /\ Cardinality(InFlight) \in Nat
      /\ IsFiniteSet(InFlight') /\ Cardinality(InFlight') \in Nat
  BY CountersFinite, InFlightFinite DEF InFlight
<1>a. \A k \in Limited : k \in Limits /\ Max[k] \in Nat
  BY DEF Limited
<1>b. ASSUME InFlight' \subseteq InFlight,
             \A k \in Limits : requests'[k] \in Nat /\ requests'[k] <= requests[k]
      PROVE  OverrunBound'
  <2>1. Cardinality(InFlight') <= Cardinality(InFlight)
    BY <1>0, <1>b, FS_Subset
  <2> QED
    BY <1>0, <1>a, <1>b, <2>1 DEF OverrunBound, TypeOK
<1>1. CASE Tick
  <2>1. InFlight' = InFlight
    BY <1>1 DEF Tick, InFlight
  <2> QED
    BY <1>1, <1>b, <2>1 DEF Tick, throttle, TypeOK
<1>2. ASSUME NEW c \in Callers, CheckResets(c)
      PROVE  OverrunBound'
  <2>1. InFlight' \subseteq InFlight
    BY <1>2 DEF CheckResets, Goto, InFlight, TypeOK
  <2> QED
    BY <1>2, <1>b, <2>1 DEF CheckResets, ResetIfNeeded, TypeOK
<1>3. ASSUME NEW c \in Callers, CheckAllows(c)
      PROVE  OverrunBound'
  <2>1. \A k \in Limited : requests'[k] < Max[k]
    BY <1>3, <1>a DEF CheckAllows, Exceeded, throttle, TypeOK, Limited
  <2>2. Cardinality(InFlight') <= Cardinality(C)
    BY <1>0, InFlightFinite
  <2>3. requests' \in [Limits -> Nat]
    BY <1>3 DEF CheckAllows, throttle, TypeOK
  <2> QED
    BY <1>0, <1>a, <2>1, <2>2, <2>3 DEF OverrunBound
<1>4. ASSUME NEW c \in Callers, CheckRefuses(c)
      PROVE  OverrunBound'
  <2>1. InFlight' \subseteq InFlight
    BY <1>4 DEF CheckRefuses, Goto, InFlight, TypeOK
  <2> QED
    BY <1>4, <1>b, <2>1 DEF CheckRefuses, throttle, TypeOK
<1>5. ASSUME NEW c \in Callers, Start(c)
      PROVE  OverrunBound'
  <2>1. InFlight' \subseteq InFlight
    BY <1>5 DEF Start, Goto, InFlight, TypeOK
  <2> QED
    BY <1>5, <1>b, <2>1 DEF Start, throttle, TypeOK
<1>6. ASSUME NEW c \in Callers, Count(c)
      PROVE  OverrunBound'
  <2>1. c \in InFlight
    BY <1>6 DEF Count, Goto, InFlight, LockInv
  <2>2. InFlight' = InFlight \ {c}
    BY <1>6 DEF Count, Goto, InFlight, TypeOK
  <2>3. Cardinality(InFlight') = Cardinality(InFlight) - 1
    BY <1>0, <2>1, <2>2, FS_RemoveElement
  <2>4. \A k \in Limits : requests'[k] = requests[k] + 1 /\ requests[k] \in Nat
    BY <1>6 DEF Count, IncrementCounters, TypeOK
  <2> QED
    BY <1>0, <1>a, <2>3, <2>4 DEF OverrunBound
<1>7. ASSUME NEW h \in Handlers, Forward(h)
      PROVE  OverrunBound'
  <2>1. InFlight' \subseteq InFlight
    BY <1>7 DEF Forward, Goto, InFlight, TypeOK
  <2> QED
    BY <1>7, <1>b, <2>1 DEF Forward, throttle, TypeOK
<1>8. ASSUME NEW h \in Handlers, Disconnect(h)
      PROVE  OverrunBound'
  <2>1. InFlight' \subseteq InFlight
    BY <1>8 DEF Disconnect, Goto, InFlight, TypeOK
  <2> QED
    BY <1>8, <1>b, <2>1 DEF Disconnect, throttle, TypeOK
<1>9. CASE CheckBacksOff
  <2>1. InFlight' \subseteq InFlight
    BY <1>9 DEF CheckBacksOff, Goto, InFlight, TypeOK
  <2> QED
    BY <1>9, <1>b, <2>1 DEF CheckBacksOff, throttle, TypeOK
<1>10. CASE WakeUp
  <2>1. InFlight' \subseteq InFlight
    BY <1>10 DEF WakeUp, Goto, InFlight, TypeOK
  <2> QED
    BY <1>10, <1>b, <2>1 DEF WakeUp, throttle, TypeOK
<1>11. CASE UNCHANGED vars
  <2>1. InFlight' = InFlight
    BY <1>11 DEF vars, InFlight
  <2> QED
    BY <1>11, <1>b, <2>1 DEF vars, TypeOK
<1> QED
  BY <1>1, <1>2, <1>3, <1>4, <1>5, <1>6, <1>7, <1>8, <1>9, <1>10, <1>11 DEF Next

-----------------------------------------------------------------------------
(* The windows of the worker loop.                                         *)

LEMMA WindowNext ==
  ASSUME TypeOK, LockInv, WindowInv, [Next]_vars
  PROVE  WindowInv'
<1> SUFFICES ASSUME WorkerEnabled, NEW k \in Limited
             PROVE  WindowInvAt(k)'
  BY DEF WindowInv, Limited, Limits
<1> USE DEF WindowInvAt, Pending
<1>a. /\ k \in Limits /\ Max[k] \in Nat /\ Width[k] \in Nat \ {0}
      /\ requests[k] \in Nat /\ last_reset[k] \in Nat /\ now \in Nat
      /\ last_reset[k] <= now
      /\ Worker \in Callers
      /\ recent[k] \subseteq starts /\ before[k] \subseteq starts
      /\ \A s \in starts : s[2] \in Nat
  BY DEF Limited, TypeOK, LockInv, Callers
<1>b. WindowInvAt(k)
  BY DEF WindowInv
<1>c. Cardinality(recent[k]) \in Nat /\ Cardinality(before[k]) \in Nat
  BY <1>a, StartsFinite
<1>d. ASSUME UNCHANGED <<throttle, history>>, now' = now,
             pc'[Worker] = pc[Worker] \/ pc'[Worker] \in {"idle", "locked", "sleeping"},
             pc[Worker] # "started" \/ pc'[Worker] = "started"
      PROVE  WindowInvAt(k)'
  BY <1>a, <1>b, <1>d DEF throttle, history
<1>1. CASE Tick
  BY <1>1, <1>a, <1>b DEF Tick, throttle, history, TypeOK
<1>2. ASSUME NEW c \in Callers, CheckResets(c)
      PROVE  WindowInvAt(k)'
  <2>1. /\ now' = now /\ starts' = starts
        /\ pc'[Worker] = pc[Worker] \/ (pc[Worker] = "idle" /\ pc'[Worker] = "locked")
    BY <1>2, <1>a DEF CheckResets, ResetIfNeeded, Goto, TypeOK
  <2>2. CASE k \in Over(now)
    <3>1. /\ requests'[k] = 0 /\ last_reset'[k] = now
          /\ before'[k] = recent[k] /\ recent'[k] = {}
          /\ now - last_reset[k] >= Width[k]
      BY <1>2, <1>a, <2>2 DEF CheckResets, ResetIfNeeded, Over
    <3>2. Cardinality(recent'[k]) = 0
      BY <3>1, FS_EmptySet
    <3>3. Cardinality(before'[k]) <= Max[k]
      BY <1>a, <1>b, <1>c, <3>1
    <3>4. \A s \in starts' \ (recent'[k] \union before'[k]) :
            s[2] + Width[k] <= last_reset'[k]
      BY <1>a, <1>b, <2>1, <3>1
    <3> QED
      BY <1>a, <1>b, <2>1, <3>1, <3>2, <3>3, <3>4
  <2>3. CASE k \notin Over(now)
    <3>1. /\ requests'[k] = requests[k] /\ last_reset'[k] = last_reset[k]
          /\ before'[k] = before[k] /\ recent'[k] = recent[k]
      BY <1>2, <1>a, <2>3 DEF CheckResets, ResetIfNeeded
    <3> QED
      BY <1>a, <1>b, <2>1, <3>1
  <2> QED
    BY <2>2, <2>3
<1>3. ASSUME NEW c \in Callers, CheckAllows(c)
      PROVE  WindowInvAt(k)'
  <2>1. /\ requests[k] < Max[k]
        /\ pc[Worker] = "started" <=> pc'[Worker] = "started"
        /\ UNCHANGED <<now, throttle, history>>
    BY <1>3, <1>a DEF CheckAllows, Goto, Exceeded, Limited, TypeOK
  <2> QED
    BY <1>a, <1>b, <2>1 DEF throttle, history
<1>4. ASSUME NEW c \in Callers, CheckRefuses(c)
      PROVE  WindowInvAt(k)'
  BY <1>4, <1>a, <1>d DEF CheckRefuses, Goto, TypeOK
<1>5. ASSUME NEW c \in Callers, Start(c)
      PROVE  WindowInvAt(k)'
  <2> DEFINE new == <<Cardinality(starts) + 1, now>>
  <2>1. /\ c = Worker /\ pc[Worker] = "allowed" /\ pc'[Worker] = "started"
        /\ now' = now /\ UNCHANGED <<throttle, before>>
        /\ starts' = starts \union {new}
        /\ recent'[k] = recent[k] \union {new}
    BY <1>5, <1>a DEF Start, Counts, Goto, TypeOK
  <2>2. new[2] = now
    OBVIOUS
  <2> HIDE DEF new
  <2>3. IsFiniteSet(recent[k])
    BY <1>a, StartsFinite
  <2>4. /\ Cardinality(recent'[k]) <= Cardinality(recent[k]) + 1
        /\ Cardinality(recent'[k]) \in Nat
    <3>1. Cardinality(recent[k] \union {new})
            = IF new \in recent[k] THEN Cardinality(recent[k])
              ELSE Cardinality(recent[k]) + 1
      BY <2>3, FS_AddElement
    <3> QED
      BY <1>c, <2>1, <3>1
  <2>5. \A s \in starts' : s[2] <= now'
    BY <1>b, <2>1, <2>2, <1>a
  <2>6. Cardinality(recent'[k]) <= requests'[k] + Pending'
    BY <1>a, <1>b, <1>c, <2>1, <2>4 DEF throttle
  <2> QED
    BY <1>a, <1>b, <2>1, <2>5, <2>6 DEF throttle
<1>6. ASSUME NEW c \in Callers, Count(c)
      PROVE  WindowInvAt(k)'
  <2>1. /\ c = Worker /\ pc[Worker] = "started" /\ pc'[Worker] = "idle"
        /\ now' = now /\ requests'[k] = requests[k] + 1
        /\ UNCHANGED <<last_reset, history>>
    BY <1>6, <1>a DEF Count, Counts, Goto, IncrementCounters, LockInv, TypeOK
  <2> QED
    BY <1>a, <1>b, <1>c, <2>1 DEF history
<1>7. ASSUME NEW h \in Handlers, Forward(h)
      PROVE  WindowInvAt(k)'
  BY <1>7, <1>a, <1>d DEF Forward, Goto, TypeOK
<1>8. ASSUME NEW h \in Handlers, Disconnect(h)
      PROVE  WindowInvAt(k)'
  BY <1>8, <1>a, <1>d DEF Disconnect, Goto, TypeOK
<1>9. CASE CheckBacksOff
  BY <1>9, <1>a, <1>d DEF CheckBacksOff, Goto, TypeOK
<1>10. CASE WakeUp
  BY <1>10, <1>a, <1>d DEF WakeUp, Goto, TypeOK
<1>11. CASE UNCHANGED vars
  BY <1>11, <1>d DEF vars, throttle, history
<1> QED
  BY <1>1, <1>2, <1>3, <1>4, <1>5, <1>6, <1>7, <1>8, <1>9, <1>10, <1>11 DEF Next

LEMMA SleepNext ==
  ASSUME TypeOK, LockInv, SleepInv, [Next]_vars
  PROVE  SleepInv'
<1> SUFFICES ASSUME WorkerEnabled, pc'[Worker] = "sleeping"
             PROVE  /\ sleep'.limit \in Limited
                    /\ \/ requests'[sleep'.limit] = 0
                       \/ sleep'.deadline >= last_reset'[sleep'.limit]
                                               + Width[sleep'.limit]
  BY DEF SleepInv, Limited, Limits
<1>a. Worker \in Callers
  BY DEF Callers
<1>b. ASSUME UNCHANGED <<throttle, sleep>>, pc[Worker] = "sleeping"
      PROVE  /\ sleep'.limit \in Limited
             /\ \/ requests'[sleep'.limit] = 0
                \/ sleep'.deadline >= last_reset'[sleep'.limit] + Width[sleep'.limit]
  BY <1>b DEF SleepInv, throttle
<1>1. CASE Tick
  BY <1>1, <1>b DEF Tick
<1>2. ASSUME NEW c \in Callers, CheckResets(c)
      PROVE  /\ sleep'.limit \in Limited
             /\ \/ requests'[sleep'.limit] = 0
                \/ sleep'.deadline >= last_reset'[sleep'.limit] + Width[sleep'.limit]
  <2>1. pc[Worker] = "sleeping" /\ sleep' = sleep
    BY <1>2, <1>a DEF CheckResets, Goto, TypeOK
  <2>2. sleep.limit \in Limits /\ sleep.limit \in Limited
    BY <2>1 DEF SleepInv, Limited
  <2>3. \/ requests'[sleep.limit] = 0
        \/ /\ requests'[sleep.limit] = requests[sleep.limit]
           /\ last_reset'[sleep.limit] = last_reset[sleep.limit]
    BY <1>2, <2>2 DEF CheckResets, ResetIfNeeded
  <2> QED
    BY <2>1, <2>2, <2>3 DEF SleepInv
<1>3. ASSUME NEW c \in Callers, CheckAllows(c) \/ CheckRefuses(c) \/ Start(c)
      PROVE  pc[Worker] = "sleeping" /\ UNCHANGED <<throttle, sleep>>
  BY <1>3, <1>a DEF CheckAllows, CheckRefuses, Start, Goto, TypeOK
<1>6. ASSUME NEW c \in Callers, Count(c)
      PROVE  FALSE
  <2>1. c = Worker
    BY <1>6 DEF Count, Goto, LockInv, Counts
  <2> QED
    BY <1>6, <1>a, <2>1 DEF Count, Goto, TypeOK
<1>7. ASSUME NEW h \in Handlers, Forward(h) \/ Disconnect(h)
      PROVE  pc[Worker] = "sleeping" /\ UNCHANGED <<throttle, sleep>>
  BY <1>7, <1>a DEF Forward, Disconnect, Goto, TypeOK
<1>9. CASE CheckBacksOff
  <2>1. PICK k \in Exceeded :
          sleep' = [deadline |-> now + DelayUntilReset(k, now), limit |-> k]
    BY <1>9 DEF CheckBacksOff
  <2>2. /\ k \in Limited /\ now \in Nat /\ last_reset[k] \in Nat
        /\ Width[k] \in Nat
    BY <2>1 DEF Exceeded, Limited, TypeOK
  <2>3. now + DelayUntilReset(k, now) >= last_reset[k] + Width[k]
    BY <2>2 DEF DelayUntilReset
  <2> QED
    BY <1>9, <2>1, <2>2, <2>3 DEF CheckBacksOff, throttle
<1>10. CASE WakeUp
  BY <1>10, <1>a DEF WakeUp, Goto, TypeOK
<1>11. CASE UNCHANGED vars
  BY <1>11, <1>b DEF vars, throttle
<1> QED
  BY <1>b, <1>1, <1>2, <1>3, <1>6, <1>7, <1>9, <1>10, <1>11 DEF Next

-----------------------------------------------------------------------------
(* The burst bound.  A new start only enters intervals that contain the       *)
(* present, and those reach back over at most two windows.                    *)

LEMMA BurstNext ==
  ASSUME TypeOK, LockInv, WindowInv, WindowInv', BurstBound, TypeOK', [Next]_vars
  PROVE  BurstBound'
<1> SUFFICES ASSUME WorkerEnabled, NEW k \in Limited, NEW t \in 0..MaxTime
             PROVE  Cardinality(StartsWithin(t, Width[k])') <= 2 * Max[k]
  BY DEF BurstBound, Limited, Limits
<1>a. /\ k \in Limits /\ Max[k] \in Nat /\ Width[k] \in Nat
      /\ recent[k] \subseteq starts /\ before[k] \subseteq starts
      /\ last_reset[k] \in Nat /\ now \in Nat /\ last_reset[k] <= now
      /\ \A s \in starts : s[2] \in Nat
      /\ requests[k] \in Nat
  BY DEF Limited, TypeOK, LockInv
<1>b. Cardinality(StartsWithin(t, Width[k])) <= 2 * Max[k]
  BY DEF BurstBound
<1>1. CASE starts' = starts
  BY <1>1, <1>b DEF StartsWithin
<1>2. ASSUME NEW c \in Callers, Start(c)
      PROVE  Cardinality(StartsWithin(t, Width[k])') <= 2 * Max[k]
  <2> DEFINE new == <<Cardinality(starts) + 1, now>>
  <2>1. /\ starts' = starts \union {new} /\ new[2] = now
        /\ recent'[k] = recent[k] \union {new} /\ before' = before
        /\ UNCHANGED <<now, throttle>>
    BY <1>2, <1>a DEF Start
  <2> HIDE DEF new
  <2>2. CASE ~ (t <= now /\ now < t + Width[k])
    <3>1. StartsWithin(t, Width[k])' = StartsWithin(t, Width[k])
      BY <2>1, <2>2 DEF StartsWithin
    <3> QED
      BY <3>1, <1>b
  <2>3. CASE t <= now /\ now < t + Width[k]
    <3>1. \A s \in starts \ (recent[k] \union before[k]) :
            s[2] + Width[k] <= last_reset[k]
      BY DEF WindowInv, WindowInvAt
    <3>2. StartsWithin(t, Width[k])' \subseteq recent'[k] \union before'[k]
      BY <1>a, <2>1, <2>3, <3>1 DEF StartsWithin
    <3>3. /\ Cardinality(recent'[k]) <= Max[k]
          /\ Cardinality(before'[k]) <= Max[k]
      <4>1. /\ Cardinality(recent'[k]) <= requests'[k] + Pending'
            /\ Cardinality(before'[k]) <= Max[k]
            /\ pc'[Worker] \in {"allowed", "started"} => requests'[k] < Max[k]
            /\ requests'[k] <= Max[k]
        BY DEF WindowInv, WindowInvAt
      <4>2. recent'[k] \in SUBSET starts' /\ requests'[k] \in Nat
        BY <1>a DEF TypeOK
      <4>3. Cardinality(recent'[k]) \in Nat
        <5>1. IsFiniteSet(recent[k])
          BY <1>a, StartsFinite
        <5> QED
          BY <2>1, <5>1, FS_AddElement, FS_CardinalityType
      <4>4. requests'[k] + Pending' <= Max[k]
        BY <1>a, <4>1, <4>2 DEF Pending
      <4> QED
        BY <1>a, <4>1, <4>2, <4>3, <4>4 DEF Pending
    <3>4. IsFiniteSet(recent'[k]) /\ IsFiniteSet(before'[k])
      <4>1. IsFiniteSet(recent[k]) /\ IsFiniteSet(before[k])
        BY <1>a, StartsFinite
      <4>2. IsFiniteSet(recent[k] \union {new})
        BY <4>1, FS_AddElement
      <4> QED
        BY <2>1, <4>1, <4>2
    <3>5. /\ Cardinality(recent'[k]) \in Nat /\ Cardinality(before'[k]) \in Nat
          /\ Cardinality(recent'[k] \cap before'[k]) \in Nat
      BY <3>4, FS_CardinalityType, FS_Intersection
    <3>6. /\ IsFiniteSet(recent'[k] \union before'[k])
          /\ Cardinality(recent'[k] \union before'[k]) <= 2 * Max[k]
          /\ Cardinality(recent'[k] \union before'[k]) \in Nat
      <4>1. /\ IsFiniteSet(recent'[k] \union before'[k])
            /\ Cardinality(recent'[k] \union before'[k])
                 = Cardinality(recent'[k]) + Cardinality(before'[k])
                     - Cardinality(recent'[k] \cap before'[k])
        BY <3>4, FS_Union
      <4>2. Cardinality(recent'[k] \union before'[k]) \in Nat
        BY <4>1, FS_CardinalityType
      <4> QED
        BY <1>a, <3>3, <3>5, <4>1, <4>2
    <3>7. /\ Cardinality(StartsWithin(t, Width[k])')
               <= Cardinality(recent'[k] \union before'[k])
          /\ Cardinality(StartsWithin(t, Width[k])') \in Nat
      BY <3>2, <3>6, FS_Subset, FS_CardinalityType
    <3> QED
      BY <1>a, <3>6, <3>7
  <2> QED
    BY <2>2, <2>3
<1> QED
  BY <1>1, <1>2
     DEF Next, Tick, CheckResets, ResetIfNeeded, CheckAllows, CheckRefuses, Count,
         Forward, Disconnect, CheckBacksOff, WakeUp, history, vars

-----------------------------------------------------------------------------
(* The inductive invariant and the theorems. *)

LEMMA InvInit == Init => IInv
<1> SUFFICES ASSUME Init
             PROVE  IInv
  OBVIOUS
<1>1. TypeOK
  BY TypeInit
<1>2. LockInv
  BY DEF Init, LockInv
<1>3. OverrunBound
  <2>1. InFlight = {}
    BY DEF Init, InFlight
  <2>2. Cardinality(InFlight) = 0
    BY <2>1, FS_EmptySet
  <2> QED
    BY <2>2, CountersFinite DEF OverrunBound, Init, Limited
<1>4. WindowInv
  <2> SUFFICES ASSUME WorkerEnabled, NEW k \in Limited
               PROVE  WindowInvAt(k)
    BY DEF WindowInv
  <2>1. k \in Limits /\ Max[k] \in Nat /\ Worker \in Callers
    BY DEF Limited, Callers
  <2> QED
    BY <2>1, FS_EmptySet DEF WindowInvAt, Init, Pending
<1>5. SleepInv
  BY DEF SleepInv, Init, Callers
<1>6. BurstBound
  <2> SUFFICES ASSUME NEW k \in Limited, NEW t \in 0..MaxTime
               PROVE  Cardinality(StartsWithin(t, Width[k])) <= 2 * Max[k]
    BY DEF BurstBound
  <2>1. StartsWithin(t, Width[k]) = {}
    BY DEF StartsWithin, Init
  <2> QED
    BY <2>1, FS_EmptySet DEF Limited
<1> QED
  BY <1>1, <1>2, <1>3, <1>4, <1>5, <1>6 DEF IInv

LEMMA InvNext == IInv /\ [Next]_vars => IInv'
  BY TypeNext, LockNext, OverrunNext, WindowNext, SleepNext, BurstNext DEF IInv

LEMMA Invariance == Spec => []IInv
  BY InvInit, InvNext, PTL DEF Spec

\* For any number of callers, counters and requests in flight stay below the
\* maximum plus the number of callers that count.
THEOREM OverrunIsBounded == Spec => []OverrunBound
<1>1. IInv => OverrunBound
  BY DEF IInv
<1> QED
  BY <1>1, Invariance, PTL

\* With the worker loop as the only caller that counts, no counter ever passes
\* its configured maximum.
THEOREM WorkerStaysWithinLimit == Spec => [](WorkerEnabled => CounterWithinLimit)
<1>1. IInv => (WorkerEnabled => CounterWithinLimit)
  BY DEF IInv, WindowInv, WindowInvAt, CounterWithinLimit
<1> QED
  BY <1>1, Invariance, PTL

\* In any interval as long as a window the worker starts at most twice the
\* maximum of that window, whatever the HTTP handlers do to it.
THEOREM BurstIsBounded == Spec => []BurstBound
<1>1. IInv => BurstBound
  BY DEF IInv
<1> QED
  BY <1>1, Invariance, PTL

\* When the worker's sleep is over, the limit that refused it is free.
THEOREM DelaySuffices == Spec => []WakeMeansFree
<1>1. IInv => WakeMeansFree
  <2> SUFFICES ASSUME IInv, WorkerEnabled, pc[Worker] = "sleeping",
                      now >= sleep.deadline
               PROVE  LET k == sleep.limit
                      IN  Max[k] = 0 \/ k \in Over(now) \/ requests[k] < Max[k]
    BY DEF WakeMeansFree
  <2> DEFINE k == sleep.limit
  <2>1. /\ k \in Limited
        /\ requests[k] = 0 \/ sleep.deadline >= last_reset[k] + Width[k]
    BY DEF IInv, SleepInv
  <2>2. /\ k \in Limits /\ Max[k] \in Nat /\ Width[k] \in Nat
        /\ last_reset[k] \in Nat /\ now \in Nat /\ sleep.deadline \in Nat
    BY <2>1 DEF Limited, IInv, TypeOK
  <2> QED
    BY <2>1, <2>2 DEF Over
<1> QED
  BY <1>1, Invariance, PTL
=============================================================================
