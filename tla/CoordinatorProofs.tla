--------------------------- MODULE CoordinatorProofs ---------------------------
(***************************************************************************)
(* Proofs about Coordinator: type correctness, that an email keeps one     *)
(* row, that results and progress do not go back, that a completed job is  *)
(* complete but for its failed batches and had its unknown emails seen by  *)
(* two servers, and that a restart leaves nothing under way, for any       *)
(* number of emails, servers, retry rounds and restarts and any size of a  *)
(* batch.                                                                  *)
(***************************************************************************)
EXTENDS Coordinator, FiniteSetTheorems, TLAPS

USE SizesAssumption, SettingsAssumption

-----------------------------------------------------------------------------
(* Numbers and sets.                                                       *)

LEMMA ModRange ==
  ASSUME NEW a \in Int
  PROVE  a % NumServers \in Servers
  BY DEF Servers

LEMMA QuotientIsUnique ==
  ASSUME NEW p \in Int, NEW q \in Int, NEW r \in Servers, NEW t \in Servers,
         NumServers * p + r = NumServers * q + t
  PROVE  r = t
<1>1. /\ NumServers * (p - q) = t - r /\ NumServers * (q - p) = r - t
      /\ r \in 0..(NumServers - 1) /\ t \in 0..(NumServers - 1)
  BY DEF Servers
<1>2. CASE p - q >= 1
  <2>1. NumServers * (p - q) >= NumServers
    BY <1>2
  <2> QED
    BY <1>1, <2>1
<1>3. CASE q - p >= 1
  <2>1. NumServers * (q - p) >= NumServers
    BY <1>3
  <2> QED
    BY <1>1, <2>1
<1>4. CASE p = q
  BY <1>1, <1>4
<1> QED
  BY <1>2, <1>3, <1>4

LEMMA Remainder ==
  ASSUME NEW a \in Int
  PROVE  \E q \in Int, t \in Servers : t = a % NumServers /\ a = NumServers * q + t
<1> DEFINE q == a \div NumServers
           t == a % NumServers
<1>1. q \in Int /\ t \in Servers /\ a = NumServers * q + t
  BY DEF Servers
<1>2. t = a % NumServers
  OBVIOUS
<1> HIDE DEF q, t
<1> QED
  BY <1>1, <1>2

\* A step around the ring leaves the server, unless it goes around as a whole.
LEMMA ModMoves ==
  ASSUME NEW s \in Servers, NEW a \in Nat
  PROVE  (s + a) % NumServers = s <=> a % NumServers = 0
<1>1. a \in Int /\ s + a \in Int /\ s \in Int /\ 0 \in Servers
  BY DEF Servers
<1>2. PICK q \in Int, t \in Servers : t = a % NumServers /\ a = NumServers * q + t
  BY <1>1, Remainder
<1>3. PICK p \in Int, r \in Servers :
         r = (s + a) % NumServers /\ s + a = NumServers * p + r
  BY <1>1, Remainder
<1>4. ASSUME r = s
      PROVE  t = 0
  <2>1. NumServers * q + t = NumServers * p + 0
    BY <1>1, <1>2, <1>3, <1>4
  <2> QED
    BY <1>1, <2>1, QuotientIsUnique
<1>5. ASSUME t = 0
      PROVE  r = s
  <2>1. NumServers * p + r = NumServers * q + s
    BY <1>1, <1>2, <1>3, <1>5
  <2> QED
    BY <2>1, QuotientIsUnique
<1> QED
  BY <1>2, <1>3, <1>4, <1>5

\* The image of a finite set under a function.
LEMMA FiniteImage ==
  ASSUME NEW S, IsFiniteSet(S), NEW f, f = [x \in S |-> f[x]]
  PROVE  /\ IsFiniteSet({f[x] : x \in S})
         /\ Cardinality({f[x] : x \in S}) <= Cardinality(S)
<1>1. f \in Surjection(S, {f[x] : x \in S})
  BY DEF Surjection
<1> QED
  BY <1>1, FS_Surjection

TickSet(subs, is) == UNION {{i} \X (1..subs[i].processed) : i \in is}

LEMMA TicksType ==
  ASSUME NEW subs \in Seq(Subjobs), NEW is \in SUBSET DOMAIN subs
  PROVE  IsFiniteSet(TickSet(subs, is)) /\ Ticks(subs, is) \in Nat
<1>1. IsFiniteSet(is)
  <2>1. DOMAIN subs = 1..Len(subs) /\ Len(subs) \in Nat
    OBVIOUS
  <2>2. IsFiniteSet(1..Len(subs))
    BY <2>1, FS_Interval
  <2> QED
    BY <2>1, <2>2, FS_Subset
<1> DEFINE f == [i \in is |-> {i} \X (1..subs[i].processed)]
<1>2. \A i \in is : IsFiniteSet(f[i])
  <2> TAKE i \in is
  <2>1. subs[i].processed \in Nat
    <3>1. subs[i] \in Subjobs
      OBVIOUS
    <3> QED
      BY <3>1 DEF Subjobs
  <2>2. IsFiniteSet({i})
    BY FS_Singleton
  <2>3. IsFiniteSet(1..subs[i].processed)
    BY <2>1, FS_Interval
  <2>4. IsFiniteSet({i} \X (1..subs[i].processed))
    BY <2>2, <2>3, FS_Product
  <2> QED
    BY <2>4
<1>3. IsFiniteSet({f[i] : i \in is})
  <2>1. f = [i \in is |-> f[i]]
    OBVIOUS
  <2> HIDE DEF f
  <2> QED
    BY <1>1, <2>1, FiniteImage
<1>4. IsFiniteSet(UNION {f[i] : i \in is})
  <2> HIDE DEF f
  <2>1. \A T \in {f[i] : i \in is} : IsFiniteSet(T)
    BY <1>2
  <2> QED
    BY <1>3, <2>1, FS_UNION
<1>5. UNION {f[i] : i \in is} = TickSet(subs, is)
  BY DEF TickSet
<1> QED
  BY <1>4, <1>5, FS_CardinalityType DEF Ticks, TickSet

LEMMA RowsFinite ==
  ASSUME NEW n \in Nat, NEW rs, DOMAIN rs \subseteq 1..n
  PROVE  /\ IsFiniteSet(DOMAIN rs) /\ Cardinality(DOMAIN rs) \in Nat
         /\ \A v : IsFiniteSet(WithVerdict(rs, v)) /\ Cardinality(WithVerdict(rs, v)) \in Nat
<1>1. IsFiniteSet(DOMAIN rs)
  <2>1. IsFiniteSet(1..n)
    BY FS_Interval
  <2> QED
    BY <2>1, FS_Subset
<1>2. \A v : WithVerdict(rs, v) \in SUBSET DOMAIN rs
  BY DEF WithVerdict
<1> QED
  BY <1>1, <1>2, FS_Subset, FS_CardinalityType

CountsType == [processed : 0..NumEmails, known : Nat, unknown : Nat]

LEMMA RefreshedType ==
  ASSUME NEW subs \in Seq(Subjobs), NEW n \in Nat, NEW rs, DOMAIN rs \subseteq 1..n
  PROVE  Refreshed(subs, rs) \in CountsType
<1>1. Ticks(subs, DOMAIN subs) \in Nat
  BY TicksType
<1>2. Cardinality(DOMAIN rs) \in Nat
  BY RowsFinite
<1>3. Cardinality(WithVerdict(rs, "known")) \in Nat /\ Cardinality(WithVerdict(rs, "unknown")) \in Nat
  BY RowsFinite
<1>4. Min2(NumEmails, Max2(Ticks(subs, DOMAIN subs), Cardinality(DOMAIN rs))) \in 0..NumEmails
  BY <1>1, <1>2 DEF Min2, Max2
<1> QED
  BY <1>3, <1>4 DEF Refreshed, CountsType

-----------------------------------------------------------------------------
(* The steps, by what they do to the tables and the lanes.                 *)

\* insert_results.
LEMMA InsertedRows ==
  ASSUME TypeOK, NEW new, Len(new) \in Nat, InsertResults(new)
  PROVE  /\ last_id' = last_id + Len(new)
         /\ \A i \in DOMAIN rows' :
              \/ i \in DOMAIN rows /\ rows[i].email \notin EmailsIn(new) /\ rows'[i] = rows[i]
              \/ \E k \in 1..Len(new) : i = last_id + k /\ rows'[i] = new[k]
         /\ \A i \in DOMAIN rows :
              rows[i].email \notin EmailsIn(new) => i \in DOMAIN rows' /\ rows'[i] = rows[i]
         /\ \A k \in 1..Len(new) :
              last_id + k \in DOMAIN rows' /\ rows'[last_id + k] = new[k]
<1> DEFINE kept == {i \in DOMAIN rows : rows[i].email \notin EmailsIn(new)}
<1>1. last_id \in Nat /\ \A i \in DOMAIN rows : i \in Nat /\ i <= last_id
  BY DEF TypeOK
<1>2. /\ DOMAIN rows' = kept \union (last_id + 1)..(last_id + Len(new))
      /\ \A i \in DOMAIN rows' : rows'[i] = IF i \in kept THEN rows[i] ELSE new[i - last_id]
      /\ last_id' = last_id + Len(new)
  BY DEF InsertResults, Inserted
<1>3. ASSUME NEW i \in DOMAIN rows', i \notin kept
      PROVE  \E k \in 1..Len(new) : i = last_id + k /\ rows'[i] = new[k]
  <2>1. i \in (last_id + 1)..(last_id + Len(new)) /\ rows'[i] = new[i - last_id]
    BY <1>2, <1>3
  <2>2. i - last_id \in 1..Len(new) /\ i = last_id + (i - last_id)
    BY <1>1, <2>1
  <2> QED
    BY <2>1, <2>2
<1>4. ASSUME NEW k \in 1..Len(new)
      PROVE  last_id + k \in DOMAIN rows' /\ rows'[last_id + k] = new[k]
  <2>1. last_id + k \in (last_id + 1)..(last_id + Len(new)) /\ (last_id + k) - last_id = k
    BY <1>1
  <2>2. last_id + k \notin kept
    BY <1>1
  <2> QED
    BY <1>2, <2>1, <2>2
<1> QED
  BY <1>2, <1>3, <1>4

LEMMA InsertedType ==
  ASSUME TypeOK, NEW new \in Seq(Rows), InsertResults(new)
  PROVE  last_id' \in Nat /\ DOMAIN rows' \subseteq 1..last_id' /\ rows' \in [DOMAIN rows' -> Rows]
<1>1. Len(new) \in Nat /\ \A k \in 1..Len(new) : new[k] \in Rows
  OBVIOUS
<1>2. last_id \in Nat /\ \A i \in DOMAIN rows : i \in 1..last_id /\ rows[i] \in Rows
  BY DEF TypeOK
<1>3. last_id' \in Nat
  BY <1>1, <1>2, InsertedRows
<1>4. ASSUME NEW i \in DOMAIN rows'
      PROVE  i \in 1..last_id' /\ rows'[i] \in Rows
  <2>1. last_id' = last_id + Len(new)
    BY <1>1, InsertedRows
  <2>2. CASE i \in DOMAIN rows /\ rows'[i] = rows[i]
    BY <1>1, <1>2, <2>1, <2>2
  <2>3. CASE \E k \in 1..Len(new) : i = last_id + k /\ rows'[i] = new[k]
    BY <1>1, <1>2, <2>1, <2>3
  <2> QED
    BY <1>1, <2>2, <2>3, InsertedRows
<1>5. rows' = [i \in DOMAIN rows' |-> rows'[i]]
  BY DEF InsertResults, Inserted
<1> QED
  BY <1>3, <1>4, <1>5

LEMMA FetchedType ==
  ASSUME TypeOK, LaneInv, RemoteInv, NEW s \in Servers, lane[s].pc \in Busy
  PROVE  /\ Fetched(s) \in Seq(Rows)
         /\ Len(Fetched(s)) = Len(remote[s]) /\ Len(remote[s]) \in Nat
         /\ DOMAIN remote[s] = 1..Len(remote[s])
         /\ \A k \in DOMAIN remote[s] :
              /\ remote[s][k].place \in lane[s].batch
              /\ remote[s][k].place \in DOMAIN assignments
              /\ Fetched(s)[k].email = assignments[remote[s][k].place].email
              /\ Fetched(s)[k].verdict = remote[s][k].verdict
              /\ Fetched(s)[k].backend = IF s \in Named THEN s ELSE Foreign
<1>1. remote[s] \in Seq(Listed)
  BY DEF TypeOK
<1>2. Len(remote[s]) \in Nat /\ DOMAIN remote[s] = 1..Len(remote[s])
  BY <1>1
<1>3. ASSUME NEW k \in DOMAIN remote[s]
      PROVE  /\ remote[s][k].place \in lane[s].batch
             /\ remote[s][k].place \in DOMAIN assignments
             /\ remote[s][k].verdict \in Verdicts
             /\ assignments[remote[s][k].place].email \in Emails
  <2>1. remote[s][k] \in Listed
    BY <1>1, <1>2
  <2>2. remote[s][k].place \in lane[s].batch
    BY <1>3 DEF RemoteInv, RemoteOK
  <2>3. remote[s][k].place \in DOMAIN assignments
    BY <2>2 DEF LaneInv, LaneOK, PlacesOf
  <2> QED
    BY <2>1, <2>2, <2>3 DEF TypeOK, Listed
<1>4. \A k \in DOMAIN remote[s] : Fetched(s)[k] \in Rows
  BY <1>3 DEF Fetched, Rows
<1>5. Fetched(s) \in [1..Len(remote[s]) -> Rows]
  BY <1>2, <1>4 DEF Fetched
<1>6. Fetched(s) \in Seq(Rows) /\ Len(Fetched(s)) = Len(remote[s])
  BY <1>2, <1>5
<1> QED
  BY <1>2, <1>3, <1>6 DEF Fetched

\* What becomes of one subjob.
LEMMA SubjobSet ==
  ASSUME NEW subs \in Seq(Subjobs), NEW i \in DOMAIN subs, NEW x \in Subjobs
  PROVE  LET new == [subs EXCEPT ![i] = x] IN
         /\ new \in Seq(Subjobs) /\ DOMAIN new = DOMAIN subs /\ Len(new) = Len(subs)
         /\ new[i] = x /\ \A k \in DOMAIN subs : k # i => new[k] = subs[k]
<1>1. Len(subs) \in Nat /\ DOMAIN subs = 1..Len(subs) /\ subs \in [1..Len(subs) -> Subjobs]
  OBVIOUS
<1>2. [subs EXCEPT ![i] = x] \in [1..Len(subs) -> Subjobs]
  BY <1>1
<1> QED
  BY <1>1, <1>2

LEMMA SubjobParts ==
  ASSUME TypeOK, NEW i \in DOMAIN subjobs
  PROVE  /\ subjobs[i] \in Subjobs
         /\ subjobs[i].server \in Servers /\ subjobs[i].emails \subseteq Emails
         /\ subjobs[i].total \in Nat /\ subjobs[i].processed \in Nat
<1>1. subjobs[i] \in Subjobs
  BY DEF TypeOK
<1> QED
  BY <1>1 DEF Subjobs

LEMMA OneUpdate ==
  ASSUME NEW r \in Subjobs, NEW st
  PROVE  [r EXCEPT !.status = st]
           = [server |-> r.server, emails |-> r.emails, total |-> r.total,
              processed |-> r.processed, status |-> st]
  BY DEF Subjobs

LEMMA LaneParts ==
  ASSUME TypeOK, NEW s \in Servers
  PROVE  /\ lane[s] \in Lanes
         /\ lane[s].batch \in SUBSET Nat /\ lane[s].todo \in SUBSET Nat /\ lane[s].sub \in Nat
<1>1. lane[s] \in Lanes
  BY DEF TypeOK
<1> QED
  BY <1>1 DEF Lanes

LEMMA IdleType == Idle \in Lanes
  BY DEF Idle, Lanes

\* Only the lane of s has changed; only the subjob i has, in its status and
\* progress.
OnlyLane(s) ==
  /\ lane' \in [Servers -> Lanes]
  /\ \A u \in Servers : u # s => lane'[u] = lane[u]
OnlySubjob(i) ==
  /\ i \in DOMAIN subjobs
  /\ subjobs' \in Seq(Subjobs) /\ DOMAIN subjobs' = DOMAIN subjobs
  /\ \A k \in DOMAIN subjobs : k # i => subjobs'[k] = subjobs[k]
  /\ subjobs'[i].server = subjobs[i].server /\ subjobs'[i].emails = subjobs[i].emails
  /\ subjobs'[i].total = subjobs[i].total

\* A lane that goes on with the same batch.
GoesOn(s, pc) ==
  lane'[s] = [pc |-> pc, batch |-> lane[s].batch, todo |-> lane[s].todo, sub |-> lane[s].sub]

LEMMA GoesOnIf ==
  ASSUME TypeOK, NEW s \in Servers, NEW pc \in {"ready", "submitting", "polling", "fetching"},
         lane' = [lane EXCEPT ![s].pc = pc]
  PROVE  OnlyLane(s) /\ GoesOn(s, pc)
<1>1. lane \in [Servers -> Lanes]
  BY DEF TypeOK
<1>2. lane'[s] = [lane[s] EXCEPT !.pc = pc] /\ \A u \in Servers : u # s => lane'[u] = lane[u]
  BY <1>1
<1>3. ASSUME NEW r \in Lanes
      PROVE  /\ [r EXCEPT !.pc = pc]
                  = [pc |-> pc, batch |-> r.batch, todo |-> r.todo, sub |-> r.sub]
             /\ [r EXCEPT !.pc = pc] \in Lanes
  BY DEF Lanes
<1>4. GoesOn(s, pc) /\ lane'[s] \in Lanes
  BY <1>1, <1>2, <1>3 DEF GoesOn
<1>5. lane' \in [Servers -> Lanes]
  BY <1>1, <1>4
<1> QED
  BY <1>2, <1>4, <1>5 DEF OnlyLane

\* A lane that leaves its batch.
Leaves(s) ==
  /\ lane'[s].batch = {} /\ lane'[s].sub = 0 /\ lane'[s].todo = lane[s].todo
  /\ lane'[s].pc \in {"idle", "pacing"}
  /\ lane'[s].pc = "idle" => lane'[s] = Idle
  /\ lane'[s] = [pc |-> lane'[s].pc, batch |-> {}, todo |-> lane[s].todo, sub |-> 0]

LEMMA LeavesIf ==
  ASSUME TypeOK, NEW s \in Servers, LeaveBatch(s)
  PROVE  OnlyLane(s) /\ Leaves(s)
<1> DEFINE next == IF lane[s].todo = {} THEN Idle
                   ELSE [pc |-> "pacing", batch |-> {}, todo |-> lane[s].todo, sub |-> 0]
<1>1. lane \in [Servers -> Lanes]
  BY DEF TypeOK
<1>2. lane' = [lane EXCEPT ![s] = next]
  BY DEF LeaveBatch
<1>3. next \in Lanes
  BY LaneParts, IdleType DEF Lanes
<1>4. /\ next.batch = {} /\ next.sub = 0 /\ next.todo = lane[s].todo
      /\ next.pc \in {"idle", "pacing"} /\ (next.pc = "idle" => next = Idle)
      /\ next = [pc |-> next.pc, batch |-> {}, todo |-> lane[s].todo, sub |-> 0]
  BY DEF Idle
<1> HIDE DEF next
<1>5. lane'[s] = next /\ (\A u \in Servers : u # s => lane'[u] = lane[u])
      /\ lane' \in [Servers -> Lanes]
  BY <1>1, <1>2, <1>3
<1> QED
  BY <1>4, <1>5 DEF OnlyLane, Leaves

\* A subjob that takes over a status and a progress.
LEMMA OnlySubjobIf ==
  ASSUME TypeOK, NEW i \in DOMAIN subjobs, NEW n \in Nat,
         NEW st \in {"submitting", "running", "completed", "failed"},
         subjobs' = [subjobs EXCEPT ![i] = [server |-> subjobs[i].server,
                       emails |-> subjobs[i].emails, total |-> subjobs[i].total,
                       processed |-> n, status |-> st]]
  PROVE  OnlySubjob(i) /\ subjobs'[i].processed = n /\ subjobs'[i].status = st
<1> DEFINE x == [server |-> subjobs[i].server, emails |-> subjobs[i].emails,
                 total |-> subjobs[i].total, processed |-> n, status |-> st]
<1>1. x \in Subjobs
  BY SubjobParts DEF Subjobs
<1>2. /\ x.server = subjobs[i].server /\ x.emails = subjobs[i].emails
      /\ x.total = subjobs[i].total /\ x.processed = n /\ x.status = st
  OBVIOUS
<1>3. subjobs \in Seq(Subjobs) /\ subjobs' = [subjobs EXCEPT ![i] = x]
  BY DEF TypeOK
<1> HIDE DEF x
<1> QED
  BY <1>1, <1>2, <1>3, SubjobSet DEF OnlySubjob

LEMMA AcceptedStep ==
  ASSUME TypeOK, LaneInv, NEW s \in Servers, Accepted(s)
  PROVE  /\ OnlyLane(s) /\ GoesOn(s, "polling") /\ lane[s].pc = "submitting"
         /\ OnlySubjob(lane[s].sub)
         /\ subjobs'[lane[s].sub].processed = subjobs[lane[s].sub].processed
         /\ subjobs'[lane[s].sub].status = "running"
<1> DEFINE i == lane[s].sub
<1>1. lane[s].pc = "submitting" /\ i \in DOMAIN subjobs
  BY DEF Accepted, Goto, LaneInv, LaneOK, Busy
<1>2. OnlyLane(s) /\ GoesOn(s, "polling")
  BY GoesOnIf DEF Accepted, Goto
<1>3. subjobs' = [subjobs EXCEPT ![i] = [server |-> subjobs[i].server,
                       emails |-> subjobs[i].emails, total |-> subjobs[i].total,
                       processed |-> subjobs[i].processed, status |-> "running"]]
  <2>1. subjobs' = [subjobs EXCEPT ![i] = [subjobs[i] EXCEPT !.status = "running"]]
    BY DEF Accepted
  <2>2. [subjobs[i] EXCEPT !.status = "running"]
          = [server |-> subjobs[i].server, emails |-> subjobs[i].emails,
             total |-> subjobs[i].total, processed |-> subjobs[i].processed, status |-> "running"]
    BY <1>1, SubjobParts, OneUpdate
  <2> QED
    BY <2>1, <2>2
<1>4. subjobs[i].processed \in Nat
  BY <1>1, SubjobParts
<1> HIDE DEF i
<1>5. OnlySubjob(i) /\ subjobs'[i].processed = subjobs[i].processed /\ subjobs'[i].status = "running"
  BY <1>1, <1>3, <1>4, OnlySubjobIf
<1> QED
  BY <1>1, <1>2, <1>5 DEF i

LEMMA TwoUpdates ==
  ASSUME NEW r \in Subjobs, NEW n \in Nat, NEW st
  PROVE  [r EXCEPT !.processed = n, !.status = st]
           = [server |-> r.server, emails |-> r.emails, total |-> r.total,
              processed |-> n, status |-> st]
<1> DEFINE q == [r EXCEPT !.processed = n]
<1>1. /\ q \in Subjobs /\ q.server = r.server /\ q.emails = r.emails
      /\ q.total = r.total /\ q.processed = n
  BY DEF Subjobs
<1>2. [r EXCEPT !.processed = n, !.status = st] = [q EXCEPT !.status = st]
  OBVIOUS
<1> HIDE DEF q
<1> QED
  BY <1>1, <1>2, OneUpdate

LEMMA PollStep ==
  ASSUME TypeOK, LaneInv, NEW s \in Servers, Poll(s)
  PROVE  LET seen == IF RemoteCompleted(s) THEN "completed" ELSE "running"
             pc == IF RemoteCompleted(s) THEN "fetching" ELSE "polling"
         IN  /\ OnlyLane(s) /\ GoesOn(s, pc) /\ lane[s].pc = "polling"
             /\ OnlySubjob(lane[s].sub)
             /\ subjobs'[lane[s].sub].processed = Len(remote[s])
             /\ subjobs'[lane[s].sub].status = seen
<1> DEFINE i == lane[s].sub
           seen == IF RemoteCompleted(s) THEN "completed" ELSE "running"
           pc == IF RemoteCompleted(s) THEN "fetching" ELSE "polling"
<1>1. lane[s].pc = "polling" /\ i \in DOMAIN subjobs
  BY DEF Poll, LaneInv, LaneOK, Busy
<1>2. lane' = [lane EXCEPT ![s].pc = pc]
  <2>1. lane' = [lane EXCEPT ![s].pc = IF seen = "completed" THEN "fetching" ELSE @]
    BY DEF Poll
  <2>2. CASE RemoteCompleted(s)
    BY <2>1, <2>2
  <2>3. CASE ~ RemoteCompleted(s)
    BY <1>1, <2>1, <2>3
  <2> QED
    BY <2>2, <2>3
<1>3. OnlyLane(s) /\ GoesOn(s, pc)
  <2>1. pc \in {"polling", "fetching"}
    OBVIOUS
  <2> HIDE DEF pc
  <2> QED
    BY <1>2, <2>1, GoesOnIf
<1>4. subjobs' = [subjobs EXCEPT ![i] =
                    [subjobs[i] EXCEPT !.processed = Len(remote[s]), !.status = seen]]
  BY DEF Poll
<1>5. Len(remote[s]) \in Nat /\ seen \in {"running", "completed"}
  BY DEF TypeOK
<1> HIDE DEF i, seen, pc
<1>6. OnlySubjob(i) /\ subjobs'[i].processed = Len(remote[s]) /\ subjobs'[i].status = seen
  <2>1. subjobs' = [subjobs EXCEPT ![i] = [server |-> subjobs[i].server,
                      emails |-> subjobs[i].emails, total |-> subjobs[i].total,
                      processed |-> Len(remote[s]), status |-> seen]]
    BY <1>1, <1>4, <1>5, SubjobParts, TwoUpdates
  <2>2. seen \in {"submitting", "running", "completed", "failed"}
    BY <1>5
  <2> QED
    BY <1>1, <1>5, <2>1, <2>2, OnlySubjobIf
<1> QED
  BY <1>1, <1>3, <1>6 DEF i, seen, pc

LEMMA FetchStep ==
  ASSUME TypeOK, LaneInv, NEW s \in Servers, Fetch(s)
  PROVE  /\ OnlyLane(s) /\ Leaves(s) /\ lane[s].pc = "fetching"
         /\ OnlySubjob(lane[s].sub)
         /\ subjobs'[lane[s].sub].processed = subjobs[lane[s].sub].total
         /\ subjobs'[lane[s].sub].status = "completed"
<1> DEFINE i == lane[s].sub
<1>1. lane[s].pc = "fetching" /\ i \in DOMAIN subjobs
  BY DEF Fetch, LaneInv, LaneOK, Busy
<1>2. OnlyLane(s) /\ Leaves(s)
  BY LeavesIf DEF Fetch
<1>3. subjobs' = [subjobs EXCEPT ![i] =
                    [subjobs[i] EXCEPT !.processed = subjobs[i].total, !.status = "completed"]]
  BY DEF Fetch
<1>4. subjobs[i].total \in Nat
  BY <1>1, SubjobParts
<1> HIDE DEF i
<1>5. /\ OnlySubjob(i) /\ subjobs'[i].processed = subjobs[i].total
      /\ subjobs'[i].status = "completed"
  <2>1. subjobs' = [subjobs EXCEPT ![i] = [server |-> subjobs[i].server,
                      emails |-> subjobs[i].emails, total |-> subjobs[i].total,
                      processed |-> subjobs[i].total, status |-> "completed"]]
    BY <1>1, <1>3, SubjobParts, TwoUpdates
  <2> QED
    BY <1>1, <1>4, <2>1, OnlySubjobIf
<1> QED
  BY <1>1, <1>2, <1>5 DEF i

LEMMA FailStep ==
  ASSUME TypeOK, LaneInv, NEW s \in Servers, BatchFails(s)
  PROVE  /\ OnlyLane(s) /\ Leaves(s) /\ lane[s].pc \in Busy
         /\ OnlySubjob(lane[s].sub)
         /\ subjobs'[lane[s].sub].processed = subjobs[lane[s].sub].processed
         /\ subjobs'[lane[s].sub].status = "failed"
<1> DEFINE i == lane[s].sub
<1>1. lane[s].pc \in Busy /\ i \in DOMAIN subjobs
  BY DEF BatchFails, LaneInv, LaneOK, Busy
<1>2. OnlyLane(s) /\ Leaves(s)
  BY LeavesIf DEF BatchFails
<1>3. subjobs' = [subjobs EXCEPT ![i] = [server |-> subjobs[i].server,
                       emails |-> subjobs[i].emails, total |-> subjobs[i].total,
                       processed |-> subjobs[i].processed, status |-> "failed"]]
  <2>1. subjobs' = [subjobs EXCEPT ![i] = [subjobs[i] EXCEPT !.status = "failed"]]
    BY DEF BatchFails
  <2>2. [subjobs[i] EXCEPT !.status = "failed"]
          = [server |-> subjobs[i].server, emails |-> subjobs[i].emails,
             total |-> subjobs[i].total, processed |-> subjobs[i].processed, status |-> "failed"]
    BY <1>1, SubjobParts, OneUpdate
  <2> QED
    BY <2>1, <2>2
<1>4. subjobs[i].processed \in Nat
  BY <1>1, SubjobParts
<1> HIDE DEF i
<1>5. OnlySubjob(i) /\ subjobs'[i].processed = subjobs[i].processed /\ subjobs'[i].status = "failed"
  BY <1>1, <1>3, <1>4, OnlySubjobIf
<1> QED
  BY <1>1, <1>2, <1>5 DEF i

\* A lane submits its next places as a new subjob.
LEMMA SubmitStep ==
  ASSUME TypeOK, LaneInv, NEW s \in Servers, Submit(s)
  PROVE  LET n == Len(subjobs) + 1
             batch == NextBatch(s)
         IN  /\ OnlyLane(s) /\ lane[s].pc = "ready"
             /\ lane'[s] = [pc |-> "submitting", batch |-> batch,
                            todo |-> lane[s].todo \ batch, sub |-> n]
             /\ batch \subseteq lane[s].todo /\ IsFiniteSet(batch) /\ Cardinality(batch) \in Nat
             /\ subjobs' \in Seq(Subjobs)
             /\ n \notin DOMAIN subjobs /\ n > 0 /\ DOMAIN subjobs' = DOMAIN subjobs \union {n}
             /\ \A k \in DOMAIN subjobs : subjobs'[k] = subjobs[k]
             /\ subjobs'[n] = [server |-> s, emails |-> {assignments[p].email : p \in batch},
                               total |-> Cardinality(batch), processed |-> 0,
                               status |-> "submitting"]
<1> DEFINE n == Len(subjobs) + 1
           batch == NextBatch(s)
           x == [server |-> s, emails |-> {assignments[p].email : p \in batch},
                 total |-> Cardinality(batch), processed |-> 0, status |-> "submitting"]
           l == [pc |-> "submitting", batch |-> batch, todo |-> lane[s].todo \ batch, sub |-> n]
<1>1. batch \subseteq lane[s].todo
  BY DEF NextBatch
<1>2. lane[s].todo \subseteq DOMAIN assignments /\ IsFiniteSet(DOMAIN assignments)
  BY DEF LaneInv, LaneOK, PlacesOf, TypeOK
<1>3. IsFiniteSet(batch) /\ Cardinality(batch) \in Nat
  BY <1>1, <1>2, FS_Subset, FS_CardinalityType
<1>4. Len(subjobs) \in Nat /\ DOMAIN subjobs = 1..Len(subjobs) /\ subjobs \in Seq(Subjobs)
  BY DEF TypeOK
<1>5. x \in Subjobs
  <2>1. \A p \in batch : assignments[p].email \in Emails
    BY <1>1, <1>2 DEF TypeOK
  <2> HIDE DEF batch
  <2> QED
    BY <1>3, <2>1 DEF Subjobs
<1>6. subjobs' = Append(subjobs, x) /\ lane' = [lane EXCEPT ![s] = l] /\ lane[s].pc = "ready"
  BY DEF Submit
<1>7. l \in Lanes
  <2>1. batch \in SUBSET Nat /\ lane[s].todo \ batch \in SUBSET Nat /\ n \in Nat
    BY <1>1, <1>4, LaneParts
  <2> HIDE DEF batch, n
  <2> QED
    BY <2>1 DEF Lanes
<1>8. lane \in [Servers -> Lanes]
  BY DEF TypeOK
<1> HIDE DEF x, l
<1>9. OnlyLane(s) /\ lane'[s] = l
  BY <1>6, <1>7, <1>8 DEF OnlyLane
<1>10. /\ subjobs' \in Seq(Subjobs) /\ n \notin DOMAIN subjobs /\ n > 0
       /\ DOMAIN subjobs' = DOMAIN subjobs \union {n}
       /\ (\A k \in DOMAIN subjobs : subjobs'[k] = subjobs[k])
       /\ subjobs'[n] = x
  BY <1>4, <1>5, <1>6
<1> QED
  BY <1>1, <1>3, <1>6, <1>9, <1>10 DEF x, l

-----------------------------------------------------------------------------
(* Type correctness.                                                       *)

LEMMA EmailsType == IsFiniteSet(Emails) /\ Cardinality(Emails) = NumEmails
<1>1. IsFiniteSet(1..NumEmails) /\ Cardinality(1..NumEmails) = NumEmails
  BY FS_Interval
<1> QED
  BY <1>1 DEF Emails

Assigned == [email : Emails, server : Servers]
AssignmentsType(asg) ==
  /\ DOMAIN asg \subseteq Nat /\ IsFiniteSet(DOMAIN asg)
  /\ asg \in [DOMAIN asg -> Assigned]

LEMMA FirstType == AssignmentsType(FirstAssignments)
<1>1. \A e \in Emails : (e - 1) % NumServers \in Servers
  BY ModRange DEF Emails
<1> QED
  BY <1>1, EmailsType DEF FirstAssignments, AssignmentsType, Assigned, Emails

LEMMA UnknownsParts ==
  ASSUME TypeOK
  PROVE  /\ Unknowns \subseteq DOMAIN rows /\ Unknowns \subseteq Nat /\ IsFiniteSet(Unknowns)
         /\ Cardinality(Unknowns) \in Nat
         /\ \A i \in DOMAIN rows : i \in Unknowns <=> rows[i].verdict = "unknown"
         /\ \A i \in DOMAIN rows : rows[i] \in Rows
<1>1. last_id \in Nat /\ DOMAIN rows \subseteq 1..last_id
  BY DEF TypeOK
<1>2. IsFiniteSet(Unknowns) /\ Cardinality(Unknowns) \in Nat
  BY <1>1, RowsFinite DEF Unknowns
<1> QED
  BY <1>1, <1>2 DEF Unknowns, WithVerdict, TypeOK

LEMMA LastServerType ==
  ASSUME TypeOK, NEW i \in Unknowns
  PROVE  LastServer(i) \in Nat
<1>1. IsFiniteSet({k \in Unknowns : k < i}) /\ Cardinality({k \in Unknowns : k < i}) \in Nat
  BY UnknownsParts, FS_Subset, FS_CardinalityType
<1> QED
  BY <1>1 DEF LastServer, Servers

LEMMA UnknownType ==
  ASSUME TypeOK, NEW a \in Nat
  PROVE  /\ AssignmentsType(UnknownAssignments(a)) /\ DOMAIN UnknownAssignments(a) = Unknowns
         /\ \A i \in Unknowns :
              /\ UnknownAssignments(a)[i].email = rows[i].email
              /\ UnknownAssignments(a)[i].server = (LastServer(i) + a) % NumServers
<1>1. ASSUME NEW i \in Unknowns
      PROVE  rows[i].email \in Emails /\ (LastServer(i) + a) % NumServers \in Servers
  <2>1. LastServer(i) + a \in Int
    BY LastServerType
  <2> QED
    BY <1>1, <2>1, ModRange, UnknownsParts DEF Rows
<1>2. DOMAIN UnknownAssignments(a) = Unknowns
  BY DEF UnknownAssignments
<1> QED
  BY <1>1, <1>2, UnknownsParts DEF UnknownAssignments, AssignmentsType, Assigned

LEMMA EmptyType == AssignmentsType(<<>>) /\ DOMAIN <<>> = {}
  BY FS_EmptySet DEF AssignmentsType

\* The lanes that a round starts.
LEMMA DispatchStep ==
  ASSUME NEW asg, AssignmentsType(asg), Dispatch(asg)
  PROVE  /\ lane' \in [Servers -> Lanes] /\ assignments' = asg /\ phase' = "round"
         /\ \A s \in Servers :
              /\ lane'[s].batch = {} /\ lane'[s].sub = 0 /\ lane'[s].todo = PlacesOf(asg, s)
              /\ lane'[s].pc \in {"idle", "ready"}
              /\ lane'[s].pc = "idle" => lane'[s] = Idle
<1>1. \A s \in Servers : PlacesOf(asg, s) \in SUBSET Nat
  BY DEF PlacesOf, AssignmentsType
<1> DEFINE l(s) == IF PlacesOf(asg, s) = {} THEN Idle
                   ELSE [pc |-> "ready", batch |-> {}, todo |-> PlacesOf(asg, s), sub |-> 0]
<1>2. ASSUME NEW s \in Servers
      PROVE  /\ l(s) \in Lanes /\ l(s).batch = {} /\ l(s).sub = 0
             /\ l(s).todo = PlacesOf(asg, s) /\ l(s).pc \in {"idle", "ready"}
             /\ l(s).pc = "idle" => l(s) = Idle
  <2>1. CASE PlacesOf(asg, s) = {}
    BY <2>1, IdleType DEF Idle
  <2>2. CASE PlacesOf(asg, s) # {}
    BY <1>1, <2>2 DEF Lanes
  <2> QED
    BY <2>1, <2>2
<1>3. lane' = [s \in Servers |-> l(s)] /\ assignments' = asg /\ phase' = "round"
  BY DEF Dispatch
<1> HIDE DEF l
<1> QED
  BY <1>2, <1>3

\* A restart.
LEMMA SweepStep ==
  ASSUME TypeOK, Sweep
  PROVE  /\ subjobs' \in Seq(Subjobs) /\ DOMAIN subjobs' = DOMAIN subjobs
         /\ \A k \in DOMAIN subjobs :
              /\ subjobs'[k].status \in {"completed", "failed"}
              /\ subjobs'[k].status = "completed" <=> subjobs[k].status = "completed"
              /\ subjobs'[k].emails = subjobs[k].emails
              /\ subjobs'[k].processed = subjobs[k].processed
         /\ \A s \in Servers : lane'[s] = Idle
         /\ lane' \in [Servers -> Lanes]
<1>1. Len(subjobs) \in Nat /\ DOMAIN subjobs = 1..Len(subjobs)
  BY DEF TypeOK
<1> DEFINE x(k) == IF subjobs[k].status \in {"submitting", "running"}
                     THEN [subjobs[k] EXCEPT !.status = "failed"] ELSE subjobs[k]
<1>2. ASSUME NEW k \in DOMAIN subjobs
      PROVE  /\ x(k) \in Subjobs
             /\ x(k).status \in {"completed", "failed"}
             /\ x(k).status = "completed" <=> subjobs[k].status = "completed"
             /\ x(k).emails = subjobs[k].emails /\ x(k).processed = subjobs[k].processed
  <2>1. ASSUME NEW r \in Subjobs
        PROVE  LET y == IF r.status \in {"submitting", "running"}
                          THEN [r EXCEPT !.status = "failed"] ELSE r
               IN  /\ y \in Subjobs
                   /\ y.status \in {"completed", "failed"}
                   /\ y.status = "completed" <=> r.status = "completed"
                   /\ y.emails = r.emails /\ y.processed = r.processed
    BY DEF Subjobs
  <2> QED
    BY <1>2, <2>1, SubjobParts
<1>3. subjobs' = [k \in DOMAIN subjobs |-> x(k)] /\ lane' = [s \in Servers |-> Idle]
  BY DEF Sweep
<1> HIDE DEF x
<1>4. subjobs' \in [1..Len(subjobs) -> Subjobs]
  BY <1>1, <1>2, <1>3
<1> QED
  BY <1>1, <1>2, <1>3, <1>4, IdleType

LEMMA ItemsType ==
  ASSUME TypeOK, NEW items \in ApifyItems
  PROVE  /\ items \in Seq(Rows) /\ Len(items) \in Nat /\ DOMAIN items = 1..Len(items)
         /\ \A k \in DOMAIN items :
              /\ items[k].email \in {rows[i].email : i \in Unknowns}
              /\ items[k].backend = Foreign
         /\ \A k, l \in DOMAIN items : items[k].email = items[l].email => k = l
<1>1. PICK n \in 0..Cardinality(Unknowns) :
        /\ items \in [1..n -> [email : {rows[i].email : i \in Unknowns},
                               verdict : Verdicts, backend : {Foreign}]]
        /\ \A k, l \in 1..n : items[k].email = items[l].email => k = l
  BY DEF ApifyItems
<1>2. n \in Nat
  BY UnknownsParts
<1>3. {rows[i].email : i \in Unknowns} \subseteq Emails
  BY UnknownsParts DEF Rows
<1>4. ASSUME NEW k \in 1..n
      PROVE  items[k].email \in {rows[i].email : i \in Unknowns} /\ items[k].backend = Foreign
             /\ items[k] \in Rows
  BY <1>1, <1>3, <1>4 DEF Rows
<1>5. items \in [1..n -> Rows]
  BY <1>1, <1>4
<1>6. items \in Seq(Rows) /\ Len(items) = n /\ DOMAIN items = 1..n
  BY <1>2, <1>5
<1> QED
  BY <1>1, <1>2, <1>4, <1>6

\* The parts of TypeOK.
JobType ==
  /\ status \in {"none", "queued", "running", "retrying", "completed", "failed"}
  /\ phase \in {"none", "created", "round", "apify", "waiting"}
  /\ attempt \in 0..Attempts
  /\ waiter.pc \in {"none", "waiting", "answered", "timed_out"}
HistoryType ==
  /\ apify \in {"unused", "answered", "failed"}
  /\ failed \subseteq 0..Attempts
  /\ duplicates \in 0..MaxDuplicates
  /\ crashes \in 0..MaxCrashes
RowsType == last_id \in Nat /\ DOMAIN rows \subseteq 1..last_id /\ rows \in [DOMAIN rows -> Rows]
LaneType == lane \in [Servers -> Lanes]
RemoteType == remote \in [Servers -> Seq(Listed)]
SubjobsType == subjobs \in Seq(Subjobs)

LEMMA TypeParts ==
  TypeOK <=> /\ JobType /\ HistoryType /\ RowsType /\ LaneType /\ RemoteType
             /\ SubjobsType /\ counts \in CountsType /\ AssignmentsType(assignments)
  BY DEF TypeOK, JobType, HistoryType, RowsType, LaneType, RemoteType, SubjobsType, CountsType,
         AssignmentsType, Assigned

LEMMA TypeInit == Init => TypeOK
<1> SUFFICES ASSUME Init PROVE TypeOK
  OBVIOUS
<1>1. JobType /\ HistoryType
  BY DEF Init, JobType, HistoryType, NoWaiter
<1>2. RowsType
  BY DEF Init, RowsType
<1>3. LaneType
  BY IdleType DEF Init, LaneType
<1>4. RemoteType /\ SubjobsType
  BY DEF Init, RemoteType, SubjobsType
<1>5. counts \in CountsType
  BY DEF Init, CountsType
<1>6. AssignmentsType(assignments)
  BY EmptyType DEF Init
<1> QED
  BY <1>1, <1>2, <1>3, <1>4, <1>5, <1>6, TypeParts

\* The rounds of retries.
LEMMA RetryType ==
  ASSUME TypeOK, NEW a \in 1..(Attempts + 1), RetryRound(a)
  PROVE  /\ status' \in {"completed", "retrying"} /\ phase' \in {"none", "waiting"}
         /\ attempt' \in 0..Attempts /\ AssignmentsType(assignments')
<1>1. CASE a > Attempts \/ Unknowns = {}
  BY <1>1, EmptyType DEF RetryRound, TypeOK
<1>2. CASE ~ (a > Attempts \/ Unknowns = {})
  BY <1>2, UnknownType DEF RetryRound
<1> QED
  BY <1>1, <1>2

LEMMA RefreshedTypeNext ==
  ASSUME RowsType', SubjobsType'
  PROVE  Refreshed(subjobs', rows') \in CountsType
  BY RefreshedType DEF RowsType, SubjobsType

LEMMA TypeNext ==
  ASSUME TypeOK, LaneInv, RemoteInv, [Next]_vars
  PROVE  TypeOK'
<1> USE DEF results, tables, job, history
<1>0. /\ JobType /\ HistoryType /\ RowsType /\ LaneType /\ RemoteType
      /\ SubjobsType /\ counts \in CountsType /\ AssignmentsType(assignments)
  BY TypeParts
<1>1. ASSUME JobType', HistoryType', RowsType', LaneType', RemoteType', SubjobsType',
             counts' \in CountsType, AssignmentsType(assignments')
      PROVE  TypeOK'
  BY <1>1 DEF TypeOK, JobType, HistoryType, RowsType, LaneType, RemoteType, SubjobsType,
              CountsType, AssignmentsType, Assigned
\* What most steps leave alone.
<1>2. /\ UNCHANGED <<rows, last_id>> => RowsType'
      /\ UNCHANGED <<status, phase, attempt, waiter>> => JobType'
      /\ UNCHANGED <<apify, failed, duplicates, crashes>> => HistoryType'
      /\ UNCHANGED lane => LaneType'
      /\ UNCHANGED remote => RemoteType'
      /\ UNCHANGED subjobs => SubjobsType'
  BY <1>0 DEF JobType, HistoryType, RowsType, LaneType, RemoteType, SubjobsType
<1>3. CASE CreateJob
  <2>1. JobType'
    BY <1>0, <1>3 DEF CreateJob, JobType, NoWaiter
  <2> QED
    BY <1>0, <1>1, <1>2, <1>3, <2>1 DEF CreateJob
<1>4. CASE RunJob
  <2>1. JobType'
    BY <1>0, <1>4 DEF RunJob, Dispatch, JobType
  <2>2. LaneType' /\ AssignmentsType(assignments')
    BY <1>4, FirstType, DispatchStep DEF RunJob, LaneType
  <2> QED
    BY <1>0, <1>1, <1>2, <1>4, <2>1, <2>2 DEF RunJob
<1>5. CASE EndRound
  <2>1. attempt + 1 \in 1..(Attempts + 1)
    BY <1>0 DEF JobType
  <2>2. /\ status' \in {"completed", "retrying"} /\ phase' \in {"none", "waiting"}
        /\ attempt' \in 0..Attempts /\ AssignmentsType(assignments')
    BY <1>5, <2>1, RetryType DEF EndRound
  <2>3. JobType'
    BY <1>0, <1>5, <2>2 DEF EndRound, JobType
  <2> QED
    BY <1>0, <1>1, <1>2, <1>5, <2>2, <2>3 DEF EndRound
<1>6. CASE CallApify
  <2>1. JobType'
    BY <1>0, <1>6 DEF CallApify, JobType
  <2> QED
    BY <1>0, <1>1, <1>2, <1>6, <2>1 DEF CallApify
<1>7. CASE ApifyAnswers
  <2>1. JobType' /\ HistoryType'
    BY <1>0, <1>7 DEF ApifyAnswers, JobType, HistoryType
  <2>2. PICK items \in ApifyItems :
          /\ InsertResults(items)
          /\ counts' = IF items = <<>> THEN counts ELSE Refreshed(subjobs, rows')
    BY <1>7 DEF ApifyAnswers
  <2>3. RowsType'
    BY <2>2, ItemsType, InsertedType DEF RowsType
  <2>4. subjobs' = subjobs
    BY <1>7 DEF ApifyAnswers
  <2>5. counts' \in CountsType
    BY <1>0, <1>2, <2>2, <2>3, <2>4, RefreshedTypeNext
  <2> QED
    BY <1>0, <1>1, <1>2, <1>7, <2>1, <2>3, <2>5 DEF ApifyAnswers
<1>8. CASE ApifyFails
  <2>1. /\ status' \in {"completed", "retrying"} /\ phase' \in {"none", "waiting"}
        /\ attempt' \in 0..Attempts /\ AssignmentsType(assignments')
    <3>1. 1 \in 1..(Attempts + 1)
      OBVIOUS
    <3> QED
      BY <1>8, <3>1, RetryType DEF ApifyFails
  <2>2. JobType' /\ HistoryType'
    BY <1>0, <1>8, <2>1 DEF ApifyFails, JobType, HistoryType
  <2> QED
    BY <1>0, <1>1, <1>2, <1>8, <2>1, <2>2 DEF ApifyFails
<1>9. CASE WakeUp
  <2>1. JobType'
    BY <1>0, <1>9 DEF WakeUp, Dispatch, JobType
  <2>2. LaneType' /\ AssignmentsType(assignments')
    BY <1>0, <1>9, DispatchStep DEF WakeUp, LaneType
  <2> QED
    BY <1>0, <1>1, <1>2, <1>9, <2>1, <2>2 DEF WakeUp
<1>10. ASSUME NEW s \in Servers, Submit(s)
       PROVE  TypeOK'
  <2>1. LaneType' /\ SubjobsType'
    BY <1>10, SubmitStep DEF LaneType, SubjobsType, OnlyLane
  <2>2. RemoteType'
    BY <1>0, <1>10 DEF Submit, RemoteType
  <2> QED
    BY <1>0, <1>1, <1>2, <1>10, <2>1, <2>2 DEF Submit
<1>11. ASSUME NEW s \in Servers, Accepted(s)
       PROVE  TypeOK'
  <2>1. LaneType' /\ SubjobsType'
    BY <1>11, AcceptedStep DEF LaneType, SubjobsType, OnlyLane, OnlySubjob
  <2> QED
    BY <1>0, <1>1, <1>2, <1>11, <2>1 DEF Accepted
<1>12. ASSUME NEW s \in Servers, Fetch(s)
       PROVE  TypeOK'
  <2>1. LaneType' /\ SubjobsType'
    BY <1>12, FetchStep DEF LaneType, SubjobsType, OnlyLane, OnlySubjob
  <2>2. RowsType'
    BY <1>12, FetchedType, InsertedType DEF Fetch, Busy, RowsType
  <2>3. counts' \in CountsType
    BY <1>12, <2>1, <2>2, RefreshedTypeNext DEF Fetch
  <2> QED
    BY <1>0, <1>1, <1>2, <1>12, <2>1, <2>2, <2>3 DEF Fetch
<1>13. ASSUME NEW s \in Servers, BatchFails(s)
       PROVE  TypeOK'
  <2>1. LaneType' /\ SubjobsType'
    BY <1>13, FailStep DEF LaneType, SubjobsType, OnlyLane, OnlySubjob
  <2>2. RowsType' /\ rows' = rows
    BY <1>2, <1>13 DEF BatchFails
  <2>3. counts' \in CountsType
    BY <1>13, <2>1, <2>2, RefreshedTypeNext DEF BatchFails
  <2>4. HistoryType'
    BY <1>0, <1>13 DEF BatchFails, HistoryType, JobType
  <2> QED
    BY <1>0, <1>1, <1>2, <1>13, <2>1, <2>2, <2>3, <2>4 DEF BatchFails
<1>14. ASSUME NEW s \in Servers, EndPacing(s)
       PROVE  TypeOK'
  <2>1. LaneType'
    BY <1>14, GoesOnIf DEF EndPacing, Goto, LaneType, OnlyLane
  <2> QED
    BY <1>0, <1>1, <1>2, <1>14, <2>1 DEF EndPacing
<1>15. ASSUME NEW s \in Servers, Poll(s)
       PROVE  TypeOK'
  <2>1. LaneType' /\ SubjobsType'
    BY <1>15, PollStep DEF LaneType, SubjobsType, OnlyLane, OnlySubjob
  <2>2. RowsType' /\ rows' = rows
    BY <1>2, <1>15 DEF Poll
  <2>3. counts' \in CountsType
    BY <1>15, <2>1, <2>2, RefreshedTypeNext DEF Poll
  <2> QED
    BY <1>0, <1>1, <1>2, <1>15, <2>1, <2>2, <2>3 DEF Poll
<1>16. ASSUME Sweep, RowsType', counts' \in CountsType
       PROVE  TypeOK'
  <2>1. LaneType' /\ SubjobsType'
    BY <1>16, SweepStep DEF LaneType, SubjobsType
  <2>2. JobType' /\ HistoryType'
    BY <1>0, <1>16 DEF Sweep, JobType, HistoryType, NoWaiter
  <2>3. AssignmentsType(assignments')
    BY <1>16, EmptyType DEF Sweep
  <2> QED
    BY <1>0, <1>1, <1>2, <1>16, <2>1, <2>2, <2>3 DEF Sweep
<1>17. ASSUME NEW s \in Servers, RestartAfterInsert(s)
       PROVE  TypeOK'
  <2>1. RowsType'
    BY <1>17, FetchedType, InsertedType DEF RestartAfterInsert, Busy, RowsType
  <2> QED
    BY <1>0, <1>16, <1>17, <2>1 DEF RestartAfterInsert
<1>18. CASE Restart
  BY <1>0, <1>2, <1>16, <1>18 DEF Restart
<1>19. ASSUME NEW s \in Servers, NEW v \in Verdicts, NEW p \in lane[s].batch, RemoteStores(s, p, v)
       PROVE  TypeOK'
  <2>1. [place |-> p, verdict |-> v] \in Listed
    BY LaneParts DEF Listed
  <2>2. RemoteType'
    <3>1. \A x \in Listed : Append(remote[s], x) \in Seq(Listed)
      BY <1>0 DEF RemoteType
    <3>2. Append(remote[s], [place |-> p, verdict |-> v]) \in Seq(Listed)
      BY <2>1, <3>1
    <3> QED
      BY <1>0, <1>19, <3>2 DEF RemoteStores, RemoteType
  <2>3. HistoryType'
    BY <1>0, <1>19 DEF RemoteStores, HistoryType
  <2> QED
    BY <1>0, <1>1, <1>2, <1>19, <2>2, <2>3 DEF RemoteStores
<1>20. CASE WaiterAnswers
  <2>1. JobType'
    BY <1>0, <1>20 DEF WaiterAnswers, Answer, JobType
  <2> QED
    BY <1>0, <1>1, <1>2, <1>20, <2>1 DEF WaiterAnswers
<1>21. CASE WaiterTimesOut
  <2>1. JobType'
    BY <1>0, <1>21 DEF WaiterTimesOut, NoWaiter, JobType
  <2> QED
    BY <1>0, <1>1, <1>2, <1>21, <2>1 DEF WaiterTimesOut
<1>22. CASE UNCHANGED vars
  BY <1>0, <1>1, <1>2, <1>22 DEF vars
<1>23. CASE ApifyRaises
  <2>1. JobType' /\ HistoryType'
    BY <1>0, <1>23 DEF ApifyRaises, JobType, HistoryType
  <2> QED
    BY <1>0, <1>1, <1>2, <1>23, <2>1 DEF ApifyRaises
<1>24. CASE RestartAfterApify
  <2>1. PICK items \in ApifyItems : InsertResults(items)
    BY <1>24 DEF RestartAfterApify
  <2>2. RowsType'
    BY <2>1, ItemsType, InsertedType DEF RowsType
  <2>3. SubjobsType'
    BY <1>24, SweepStep DEF RestartAfterApify, SubjobsType
  <2>4. counts' \in CountsType
    BY <1>0, <1>24, <2>2, <2>3, RefreshedTypeNext DEF RestartAfterApify
  <2> QED
    BY <1>16, <1>24, <2>2, <2>4 DEF RestartAfterApify
<1> HIDE DEF results, tables, job, history
<1> QED
  BY <1>3, <1>4, <1>5, <1>6, <1>7, <1>8, <1>9, <1>10, <1>11, <1>12, <1>13, <1>14, <1>15, <1>17,
     <1>18, <1>19, <1>20, <1>21, <1>22, <1>23, <1>24
     DEF Next, Job, Apify, Lane

-----------------------------------------------------------------------------
(* The lanes and their subjobs.                                            *)

\* A lane whose state is left alone.
LEMMA LaneFrame ==
  ASSUME NEW u \in Servers, LaneOK(u), phase' = phase, lane'[u] = lane[u],
         assignments' = assignments,
         remote[u] \in Seq(Listed), remote'[u] \in Seq(Listed),
         Len(remote'[u]) >= Len(remote[u]),
         lane[u].pc \in Busy =>
           /\ lane[u].sub \in DOMAIN subjobs' /\ subjobs[lane[u].sub].processed \in Nat
           /\ subjobs'[lane[u].sub] = subjobs[lane[u].sub]
  PROVE  LaneOK(u)'
<1>1. Len(remote'[u]) \in Nat /\ Len(remote[u]) \in Nat
  OBVIOUS
<1>2. CASE lane[u].pc \in Busy
  <2>1. subjobs'[lane[u].sub].processed <= Len(remote'[u])
    BY <1>1, <1>2 DEF LaneOK
  <2> QED
    BY <1>2, <2>1 DEF LaneOK
<1>3. CASE lane[u].pc \notin Busy
  BY <1>3 DEF LaneOK
<1> QED
  BY <1>2, <1>3

LEMMA RemoteFrame ==
  ASSUME NEW u \in Servers, RemoteOK(u), lane'[u] = lane[u], remote'[u] = remote[u],
         duplicates' = 0 => duplicates = 0
  PROVE  RemoteOK(u)'
  BY DEF RemoteOK, RemoteCompleted

LEMMA LanesIdle ==
  ASSUME \A s \in Servers : lane'[s] = Idle
  PROVE  LaneInv' /\ RemoteInv'
  BY DEF LaneInv, LaneOK, RemoteInv, RemoteOK, Idle, Busy

\* No two lanes share a subjob.
LEMMA DistinctSubs ==
  ASSUME LaneInv, NEW s \in Servers, NEW u \in Servers, s # u,
         lane[s].pc \in Busy, lane[u].pc \in Busy
  PROVE  lane[s].sub # lane[u].sub
  BY DEF LaneInv, LaneOK

\* A step of the lane s in which it goes on with its batch.
LEMMA LaneGoesOn ==
  ASSUME TypeOK, LaneInv, RemoteInv, SubjobsInv, NEW s \in Servers, lane[s].pc \in Busy,
         NEW pc \in Busy, OnlyLane(s), GoesOn(s, pc), OnlySubjob(lane[s].sub),
         UNCHANGED <<phase, assignments, remote, duplicates>>,
         subjobs'[lane[s].sub].status = StatusAt[pc],
         subjobs'[lane[s].sub].processed <= Len(remote[s]),
         pc = "fetching" => RemoteCompleted(s)
  PROVE  LaneInv' /\ RemoteInv' /\ SubjobsInv'
<1> DEFINE i == lane[s].sub
<1>1. /\ lane'[s].pc = pc /\ lane'[s].batch = lane[s].batch /\ lane'[s].todo = lane[s].todo
      /\ lane'[s].sub = i
  BY DEF GoesOn
<1>2. \A u \in Servers : remote[u] \in Seq(Listed) /\ Len(remote[u]) \in Nat
  BY DEF TypeOK
<1>3. pc \in {"submitting", "polling", "fetching"} /\ i \in DOMAIN subjobs
  BY DEF Busy, OnlySubjob
<1>4. LaneOK(s)'
  <2>1. phase = "round"
    BY DEF LaneInv, LaneOK, Idle, Busy
  <2>2. /\ lane[s].batch \union lane[s].todo \subseteq PlacesOf(assignments, s)
        /\ lane[s].batch \intersect lane[s].todo = {}
        /\ subjobs[i].server = s
        /\ subjobs[i].emails = {assignments[p].email : p \in lane[s].batch}
        /\ subjobs[i].total = Cardinality(lane[s].batch)
    BY DEF LaneInv, LaneOK
  <2>3. /\ subjobs'[i].server = subjobs[i].server /\ subjobs'[i].emails = subjobs[i].emails
        /\ subjobs'[i].total = subjobs[i].total /\ i \in DOMAIN subjobs'
    BY DEF OnlySubjob
  <2>4. lane'[s].pc \in Busy /\ lane'[s].pc # "idle"
    BY <1>1 DEF Busy
  <2> HIDE DEF i
  <2>5. /\ phase' = "round" /\ assignments' = assignments /\ remote'[s] = remote[s]
        /\ PlacesOf(assignments, s)' = PlacesOf(assignments, s)
    BY <2>1 DEF PlacesOf
  <2>6. lane'[s].sub = i /\ subjobs'[lane'[s].sub] = subjobs'[i]
    BY <1>1
  <2> QED
    BY <1>1, <2>1, <2>2, <2>3, <2>4, <2>5, <2>6 DEF LaneOK, i
<1>5. ASSUME NEW u \in Servers, u # s
      PROVE  LaneOK(u)' /\ RemoteOK(u)'
  <2>1. lane'[u] = lane[u] /\ remote'[u] = remote[u]
    BY <1>5 DEF OnlyLane
  <2>2. lane[u].pc \in Busy =>
           /\ lane[u].sub \in DOMAIN subjobs' /\ subjobs[lane[u].sub].processed \in Nat
           /\ subjobs'[lane[u].sub] = subjobs[lane[u].sub]
    <3> SUFFICES ASSUME lane[u].pc \in Busy
                 PROVE  /\ lane[u].sub \in DOMAIN subjobs' /\ subjobs[lane[u].sub].processed \in Nat
                        /\ subjobs'[lane[u].sub] = subjobs[lane[u].sub]
      OBVIOUS
    <3>1. lane[u].sub \in DOMAIN subjobs
      BY DEF LaneInv, LaneOK
    <3>2. lane[u].sub # i
      BY <1>5, DistinctSubs
    <3> QED
      BY <3>1, <3>2, SubjobParts DEF OnlySubjob
  <2>3. LaneOK(u)'
    BY <1>2, <2>1, <2>2, LaneFrame DEF LaneInv
  <2> QED
    BY <2>1, <2>3, RemoteFrame DEF RemoteInv
<1>6. RemoteOK(s)'
  <2>1. remote'[s] = remote[s] /\ duplicates' = duplicates
    OBVIOUS
  <2> QED
    BY <1>1, <2>1 DEF RemoteInv, RemoteOK, RemoteCompleted
<1>7. SubjobsInv'
  <2> SUFFICES ASSUME NEW k \in DOMAIN subjobs', subjobs'[k].status \in {"submitting", "running"}
               PROVE  \E u \in Servers :
                        lane'[u].sub = k /\ lane'[u].pc \in {"submitting", "polling"}
    BY DEF SubjobsInv
  <2>1. CASE k = i
    <3>1. pc \in {"submitting", "polling"}
      BY <1>3, <2>1 DEF StatusAt
    <3> QED
      BY <1>1, <2>1, <3>1
  <2>2. CASE k # i
    <3>1. k \in DOMAIN subjobs /\ subjobs'[k] = subjobs[k]
      BY <2>2 DEF OnlySubjob
    <3>2. PICK u \in Servers : lane[u].sub = k /\ lane[u].pc \in {"submitting", "polling"}
      BY <3>1 DEF SubjobsInv
    <3>3. u # s
      BY <2>2, <3>2
    <3> QED
      BY <3>2, <3>3 DEF OnlyLane
  <2> QED
    BY <2>1, <2>2
<1> QED
  BY <1>4, <1>5, <1>6, <1>7 DEF LaneInv, RemoteInv

\* The other lanes in a step of the lane s that changes at most its own subjob.
LEMMA OtherLanes ==
  ASSUME TypeOK, LaneInv, RemoteInv, NEW s \in Servers, OnlyLane(s),
         UNCHANGED <<phase, assignments>>, duplicates' = 0 => duplicates = 0,
         \A k \in DOMAIN subjobs : lane[s].pc \notin Busy \/ k # lane[s].sub =>
           k \in DOMAIN subjobs' /\ subjobs'[k] = subjobs[k],
         NEW u \in Servers, u # s, remote'[u] = remote[u]
  PROVE  LaneOK(u)' /\ RemoteOK(u)'
<1>1. lane'[u] = lane[u] /\ remote'[u] = remote[u]
  BY DEF OnlyLane
<1>2. remote[u] \in Seq(Listed) /\ Len(remote[u]) \in Nat
  BY DEF TypeOK
<1>3. lane[u].pc \in Busy =>
         /\ lane[u].sub \in DOMAIN subjobs' /\ subjobs[lane[u].sub].processed \in Nat
         /\ subjobs'[lane[u].sub] = subjobs[lane[u].sub]
  <2> SUFFICES ASSUME lane[u].pc \in Busy
               PROVE  /\ lane[u].sub \in DOMAIN subjobs' /\ subjobs[lane[u].sub].processed \in Nat
                      /\ subjobs'[lane[u].sub] = subjobs[lane[u].sub]
    OBVIOUS
  <2>1. lane[u].sub \in DOMAIN subjobs
    BY DEF LaneInv, LaneOK
  <2>2. lane[s].pc \notin Busy \/ lane[u].sub # lane[s].sub
    BY DistinctSubs
  <2> QED
    BY <2>1, <2>2, SubjobParts
<1>4. LaneOK(u)'
  BY <1>1, <1>2, <1>3, LaneFrame DEF LaneInv
<1> QED
  BY <1>1, <1>4, RemoteFrame DEF RemoteInv

\* A step in which the lane s leaves its batch.
LEMMA LaneLeaves ==
  ASSUME TypeOK, LaneInv, RemoteInv, SubjobsInv, NEW s \in Servers, lane[s].pc \in Busy,
         OnlyLane(s), Leaves(s), OnlySubjob(lane[s].sub),
         UNCHANGED <<phase, assignments, remote, duplicates>>,
         subjobs'[lane[s].sub].status \in {"completed", "failed"}
  PROVE  LaneInv' /\ RemoteInv' /\ SubjobsInv'
<1> DEFINE i == lane[s].sub
<1>1. phase = "round"
  BY DEF LaneInv, LaneOK, Idle, Busy
<1>2. LaneOK(s)' /\ RemoteOK(s)'
  <2>1. lane[s].todo \subseteq PlacesOf(assignments, s)
    BY DEF LaneInv, LaneOK
  <2>2. /\ lane'[s].batch = {} /\ lane'[s].sub = 0 /\ lane'[s].todo = lane[s].todo
        /\ lane'[s].pc \notin Busy
        /\ lane'[s].pc = "idle" => lane'[s] = Idle
    BY DEF Leaves, Busy
  <2>3. PlacesOf(assignments, s)' = PlacesOf(assignments, s)
    BY DEF PlacesOf
  <2> QED
    BY <1>1, <2>1, <2>2, <2>3 DEF LaneOK, RemoteOK
<1>3. \A u \in Servers : u # s => LaneOK(u)' /\ RemoteOK(u)'
  <2>1. \A k \in DOMAIN subjobs : lane[s].pc \notin Busy \/ k # lane[s].sub =>
           k \in DOMAIN subjobs' /\ subjobs'[k] = subjobs[k]
    BY DEF OnlySubjob
  <2> QED
    BY <2>1, OtherLanes
<1>4. SubjobsInv'
  <2> SUFFICES ASSUME NEW k \in DOMAIN subjobs', subjobs'[k].status \in {"submitting", "running"}
               PROVE  \E u \in Servers :
                        lane'[u].sub = k /\ lane'[u].pc \in {"submitting", "polling"}
    BY DEF SubjobsInv
  <2>1. k \in DOMAIN subjobs /\ k # lane[s].sub /\ subjobs'[k] = subjobs[k]
    BY DEF OnlySubjob
  <2>2. PICK u \in Servers : lane[u].sub = k /\ lane[u].pc \in {"submitting", "polling"}
    BY <2>1 DEF SubjobsInv
  <2>3. u # s
    BY <2>1, <2>2
  <2> QED
    BY <2>2, <2>3 DEF OnlyLane
<1> QED
  BY <1>2, <1>3, <1>4 DEF LaneInv, RemoteInv

LEMMA LaneSubmits ==
  ASSUME TypeOK, LaneInv, RemoteInv, SubjobsInv, NEW s \in Servers, Submit(s)
  PROVE  LaneInv' /\ RemoteInv' /\ SubjobsInv'
<1> USE DEF job, history, results
<1> DEFINE n == Len(subjobs) + 1
           batch == NextBatch(s)
<1>1. lane[s].pc = "ready" /\ phase = "round"
  BY DEF Submit, LaneInv, LaneOK, Idle
<1>2. /\ OnlyLane(s)
      /\ lane'[s].pc = "submitting" /\ lane'[s].batch = batch
      /\ lane'[s].todo = lane[s].todo \ batch /\ lane'[s].sub = n
      /\ batch \subseteq lane[s].todo
      /\ n \notin DOMAIN subjobs /\ DOMAIN subjobs' = DOMAIN subjobs \union {n}
      /\ \A k \in DOMAIN subjobs : subjobs'[k] = subjobs[k]
      /\ subjobs'[n].server = s /\ subjobs'[n].emails = {assignments[p].email : p \in batch}
      /\ subjobs'[n].total = Cardinality(batch) /\ subjobs'[n].processed = 0
      /\ subjobs'[n].status = "submitting"
  <2>1. lane'[s] = [pc |-> "submitting", batch |-> batch, todo |-> lane[s].todo \ batch, sub |-> n]
    BY SubmitStep
  <2>2. subjobs'[n] = [server |-> s, emails |-> {assignments[p].email : p \in batch},
                       total |-> Cardinality(batch), processed |-> 0, status |-> "submitting"]
    BY SubmitStep
  <2>3. /\ OnlyLane(s) /\ batch \subseteq lane[s].todo
        /\ n \notin DOMAIN subjobs /\ DOMAIN subjobs' = DOMAIN subjobs \union {n}
        /\ \A k \in DOMAIN subjobs : subjobs'[k] = subjobs[k]
    BY SubmitStep
  <2> HIDE DEF n, batch
  <2> QED
    BY <2>1, <2>2, <2>3
<1>3. UNCHANGED <<phase, assignments, duplicates>> /\ remote'[s] = <<>>
      /\ \A u \in Servers : u # s => remote'[u] = remote[u]
  BY DEF Submit, TypeOK
<1> HIDE DEF n, batch
<1>4. LaneOK(s)'
  <2>1. lane[s].todo \subseteq PlacesOf(assignments, s)
    BY DEF LaneInv, LaneOK
  <2>2. PlacesOf(assignments, s)' = PlacesOf(assignments, s)
    BY <1>3 DEF PlacesOf
  <2>3. subjobs'[n].processed <= Len(remote'[s])
    BY <1>2, <1>3
  <2>4. lane'[s].pc \in Busy /\ subjobs'[n].status = StatusAt[lane'[s].pc]
    BY <1>2 DEF Busy, StatusAt
  <2>5. phase' = "round" /\ lane'[s].pc # "idle"
    BY <1>1, <1>2, <1>3
  <2>6. subjobs'[n].emails = {assignments'[p].email : p \in lane'[s].batch}
    BY <1>2, <1>3
  <2>7. n \in DOMAIN subjobs'
    BY <1>2
  <2> QED
    BY <1>2, <2>1, <2>2, <2>3, <2>4, <2>5, <2>6, <2>7 DEF LaneOK
<1>5. RemoteOK(s)'
  <2>1. DOMAIN remote'[s] = {}
    BY <1>3
  <2> QED
    BY <1>2, <2>1 DEF RemoteOK
<1>6. \A u \in Servers : u # s => LaneOK(u)' /\ RemoteOK(u)'
  <2>1. \A k \in DOMAIN subjobs : k \in DOMAIN subjobs' /\ subjobs'[k] = subjobs[k]
    BY <1>2
  <2> QED
    BY <1>2, <1>3, <2>1, OtherLanes
<1>7. SubjobsInv'
  <2> SUFFICES ASSUME NEW k \in DOMAIN subjobs', subjobs'[k].status \in {"submitting", "running"}
               PROVE  \E u \in Servers :
                        lane'[u].sub = k /\ lane'[u].pc \in {"submitting", "polling"}
    BY DEF SubjobsInv
  <2>1. CASE k = n
    BY <1>2, <2>1
  <2>2. CASE k # n
    <3>1. k \in DOMAIN subjobs /\ subjobs'[k] = subjobs[k]
      BY <1>2, <2>2
    <3>2. PICK u \in Servers : lane[u].sub = k /\ lane[u].pc \in {"submitting", "polling"}
      BY <3>1 DEF SubjobsInv
    <3>3. u # s
      BY <1>1, <3>2
    <3> QED
      BY <1>2, <3>2, <3>3 DEF OnlyLane
  <2> QED
    BY <2>1, <2>2
<1> QED
  BY <1>4, <1>5, <1>6, <1>7 DEF LaneInv, RemoteInv

\* The server stores a row.
LEMMA RemoteStoresStep ==
  ASSUME TypeOK, LaneInv, NEW s \in Servers, NEW v \in Verdicts, NEW p \in lane[s].batch,
         RemoteStores(s, p, v)
  PROVE  /\ lane[s].pc \in Busy /\ lane[s].pc # "submitting"
         /\ remote[s] \in Seq(Listed) /\ remote'[s] \in Seq(Listed)
         /\ Len(remote[s]) \in Nat /\ Len(remote'[s]) = Len(remote[s]) + 1
         /\ DOMAIN remote[s] = 1..Len(remote[s])
         /\ DOMAIN remote'[s] = DOMAIN remote[s] \union {Len(remote[s]) + 1}
         /\ \A k \in DOMAIN remote[s] : remote'[s][k] = remote[s][k]
         /\ remote'[s][Len(remote[s]) + 1].place = p
         /\ \A u \in Servers : u # s => remote'[u] = remote[u]
         /\ duplicates' = 0 => duplicates = 0 /\ \A k \in DOMAIN remote[s] : remote[s][k].place # p
<1> DEFINE x == [place |-> p, verdict |-> v]
<1>1. remote[s] \in Seq(Listed) /\ remote \in [Servers -> Seq(Listed)]
  BY DEF TypeOK
<1>2. x \in Listed /\ x.place = p
  BY LaneParts DEF Listed
<1>3. remote' = [remote EXCEPT ![s] = Append(remote[s], x)]
  BY DEF RemoteStores
<1>4. lane[s].pc \in {"polling", "fetching"}
  BY DEF RemoteStores
<1>5. duplicates \in Nat
  BY DEF TypeOK
<1>6. duplicates' = 0 => duplicates = 0 /\ \A k \in DOMAIN remote[s] : remote[s][k].place # p
  BY <1>5 DEF RemoteStores
<1> HIDE DEF x
<1> QED
  BY <1>1, <1>2, <1>3, <1>4, <1>6 DEF Busy

LEMMA LaneStores ==
  ASSUME TypeOK, LaneInv, RemoteInv, SubjobsInv, NEW s \in Servers, NEW v \in Verdicts,
         NEW p \in lane[s].batch, RemoteStores(s, p, v)
  PROVE  LaneInv' /\ RemoteInv' /\ SubjobsInv'
<1> USE DEF job, tables, results
<1>1. UNCHANGED <<phase, assignments, lane, subjobs>>
  BY DEF RemoteStores
<1>2. SubjobsInv'
  BY <1>1 DEF SubjobsInv
<1>3. ASSUME NEW u \in Servers
      PROVE  LaneOK(u)'
  <2>1. /\ remote[u] \in Seq(Listed) /\ remote'[u] \in Seq(Listed)
        /\ Len(remote'[u]) >= Len(remote[u])
    <3>1. remote[u] \in Seq(Listed) /\ Len(remote[u]) \in Nat
      BY DEF TypeOK
    <3> QED
      BY <3>1, RemoteStoresStep
  <2>2. lane[u].pc \in Busy =>
          lane[u].sub \in DOMAIN subjobs /\ subjobs[lane[u].sub].processed \in Nat
    BY SubjobParts DEF LaneInv, LaneOK
  <2> QED
    BY <1>1, <2>1, <2>2, LaneFrame DEF LaneInv
<1>4. ASSUME NEW u \in Servers, u # s
      PROVE  RemoteOK(u)'
  BY <1>1, <1>4, RemoteStoresStep, RemoteFrame DEF RemoteInv
<1>5. RemoteOK(s)'
  <2> SUFFICES /\ \A k \in DOMAIN remote'[s] : remote'[s][k].place \in lane[s].batch
               /\ duplicates' = 0 =>
                    \A k, l \in DOMAIN remote'[s] : remote'[s][k].place = remote'[s][l].place => k = l
               /\ lane[s].pc = "fetching" => Len(remote'[s]) >= Cardinality(lane[s].batch)
    BY <1>1 DEF RemoteOK, RemoteCompleted
  <2>1. \A k \in DOMAIN remote[s] : remote[s][k].place \in lane[s].batch
    BY RemoteStoresStep DEF RemoteInv, RemoteOK
  <2>2. \A k \in DOMAIN remote'[s] : remote'[s][k].place \in lane[s].batch
    BY <2>1, RemoteStoresStep
  <2>3. duplicates = 0 =>
          \A k, l \in DOMAIN remote[s] : remote[s][k].place = remote[s][l].place => k = l
    BY RemoteStoresStep DEF RemoteInv, RemoteOK
  <2>4. duplicates' = 0 =>
          \A k, l \in DOMAIN remote'[s] : remote'[s][k].place = remote'[s][l].place => k = l
    BY <2>3, RemoteStoresStep
  <2>5. lane[s].pc = "fetching" => Len(remote'[s]) >= Cardinality(lane[s].batch)
    <3>1. lane[s].pc = "fetching" => Len(remote[s]) >= Cardinality(lane[s].batch)
      BY RemoteStoresStep DEF RemoteInv, RemoteOK, RemoteCompleted
    <3>2. lane[s].batch \subseteq DOMAIN assignments /\ IsFiniteSet(DOMAIN assignments)
      BY DEF LaneInv, LaneOK, PlacesOf, TypeOK
    <3>3. Cardinality(lane[s].batch) \in Nat
      BY <3>2, FS_Subset, FS_CardinalityType
    <3> QED
      BY <3>1, <3>3, RemoteStoresStep
  <2> QED
    BY <2>2, <2>4, <2>5
<1> QED
  BY <1>2, <1>3, <1>4, <1>5 DEF LaneInv, RemoteInv

\* The pacing sleep is over.
LEMMA LanePaces ==
  ASSUME TypeOK, LaneInv, RemoteInv, SubjobsInv, NEW s \in Servers, EndPacing(s)
  PROVE  LaneInv' /\ RemoteInv' /\ SubjobsInv'
<1> USE DEF job, tables, history, results
<1>1. /\ lane[s].pc = "pacing" /\ OnlyLane(s) /\ GoesOn(s, "ready")
      /\ UNCHANGED <<phase, assignments, subjobs, remote, duplicates>>
  BY GoesOnIf DEF EndPacing, Goto
<1>2. /\ lane'[s].pc = "ready" /\ lane'[s].batch = {} /\ lane'[s].sub = 0
      /\ lane'[s].todo = lane[s].todo /\ lane[s].todo \subseteq PlacesOf(assignments, s)
      /\ phase = "round"
  BY <1>1 DEF GoesOn, LaneInv, LaneOK, Busy, Idle
<1>3. LaneOK(s)' /\ RemoteOK(s)'
  <2>1. PlacesOf(assignments, s)' = PlacesOf(assignments, s)
    BY <1>1 DEF PlacesOf
  <2> QED
    BY <1>1, <1>2, <2>1 DEF LaneOK, RemoteOK, Busy
<1>4. \A u \in Servers : u # s => LaneOK(u)' /\ RemoteOK(u)'
  <2>1. \A k \in DOMAIN subjobs : k \in DOMAIN subjobs' /\ subjobs'[k] = subjobs[k]
    BY <1>1
  <2> QED
    BY <1>1, <2>1, OtherLanes
<1>5. SubjobsInv'
  <2> SUFFICES ASSUME NEW k \in DOMAIN subjobs, subjobs[k].status \in {"submitting", "running"}
               PROVE  \E u \in Servers :
                        lane'[u].sub = k /\ lane'[u].pc \in {"submitting", "polling"}
    BY <1>1 DEF SubjobsInv
  <2>1. PICK u \in Servers : lane[u].sub = k /\ lane[u].pc \in {"submitting", "polling"}
    BY DEF SubjobsInv
  <2>2. u # s
    BY <1>1, <2>1
  <2> QED
    BY <1>1, <2>1, <2>2 DEF OnlyLane
<1> QED
  BY <1>3, <1>4, <1>5 DEF LaneInv, RemoteInv

\* No lane runs, and none is started.
LEMMA LanesRest ==
  ASSUME LaneInv, SubjobsInv, \A s \in Servers : lane[s].pc = "idle", UNCHANGED <<lane, subjobs>>
  PROVE  LaneInv' /\ RemoteInv' /\ SubjobsInv'
<1>1. \A s \in Servers : lane'[s] = Idle
  BY DEF LaneInv, LaneOK
<1>2. SubjobsInv'
  BY DEF SubjobsInv
<1> QED
  BY <1>1, <1>2, LanesIdle

LEMMA LanesStay ==
  ASSUME LaneInv, RemoteInv, SubjobsInv,
         UNCHANGED <<phase, assignments, lane, subjobs, remote, duplicates>>
  PROVE  LaneInv' /\ RemoteInv' /\ SubjobsInv'
<1>1. SubjobsInv'
  BY DEF SubjobsInv
<1>2. LaneInv'
  BY DEF LaneInv, LaneOK, PlacesOf
<1>3. RemoteInv'
  BY DEF RemoteInv, RemoteOK, RemoteCompleted
<1> QED
  BY <1>1, <1>2, <1>3

\* No lane runs, and the lanes of a round start.
LEMMA LanesStart ==
  ASSUME LaneInv, SubjobsInv, phase # "round", NEW asg, AssignmentsType(asg), Dispatch(asg),
         subjobs' = subjobs
  PROVE  LaneInv' /\ RemoteInv' /\ SubjobsInv'
<1>1. \A s \in Servers : lane[s].pc = "idle"
  BY DEF LaneInv, LaneOK, Idle
<1>2. \A k \in DOMAIN subjobs : subjobs[k].status \notin {"submitting", "running"}
  BY <1>1 DEF SubjobsInv
<1>3. SubjobsInv'
  BY <1>2 DEF SubjobsInv
<1>4. ASSUME NEW s \in Servers
      PROVE  LaneOK(s)' /\ RemoteOK(s)'
  <2>1. /\ phase' = "round" /\ assignments' = asg
        /\ lane'[s].batch = {} /\ lane'[s].sub = 0 /\ lane'[s].todo = PlacesOf(asg, s)
        /\ lane'[s].pc \in {"idle", "ready"}
        /\ lane'[s].pc = "idle" => lane'[s] = Idle
    BY DispatchStep
  <2>2. PlacesOf(assignments, s)' = PlacesOf(asg, s)
    BY <2>1 DEF PlacesOf
  <2> QED
    BY <2>1, <2>2 DEF LaneOK, RemoteOK, Busy
<1> QED
  BY <1>3, <1>4 DEF LaneInv, RemoteInv

\* A restart ends the lanes and what was under way.
LEMMA LanesEnd ==
  ASSUME TypeOK, Sweep
  PROVE  LaneInv' /\ RemoteInv' /\ SubjobsInv'
<1>1. \A s \in Servers : lane'[s] = Idle
  BY SweepStep
<1>2. SubjobsInv'
  BY SweepStep DEF SubjobsInv
<1> QED
  BY <1>1, <1>2, LanesIdle

LEMMA LaneNext ==
  ASSUME TypeOK, JobInv, LaneInv, RemoteInv, SubjobsInv, [Next]_vars
  PROVE  LaneInv' /\ RemoteInv' /\ SubjobsInv'
<1> USE DEF results, tables, job, history
<1>1. phase # "round" => \A s \in Servers : lane[s].pc = "idle"
  BY DEF LaneInv, LaneOK, Idle
<1>2. CASE CreateJob
  <2>1. phase # "round"
    BY <1>2 DEF CreateJob, JobInv
  <2> QED
    BY <1>1, <1>2, <2>1, LanesRest DEF CreateJob
<1>3. CASE CallApify \/ EndRound
  BY <1>3, LanesRest DEF CallApify, EndRound, RoundDone
<1>4. CASE Apify
  <2>1. phase # "round" /\ UNCHANGED <<lane, subjobs>>
    BY <1>4 DEF Apify, ApifyAnswers, ApifyFails, ApifyRaises
  <2> QED
    BY <1>1, <2>1, LanesRest
<1>5. CASE RunJob
  BY <1>5, FirstType, LanesStart DEF RunJob
<1>6. CASE WakeUp
  BY <1>6, TypeParts, LanesStart DEF WakeUp
<1>7. ASSUME NEW s \in Servers, Submit(s)
      PROVE  LaneInv' /\ RemoteInv' /\ SubjobsInv'
  BY <1>7, LaneSubmits
<1>8. ASSUME NEW s \in Servers, Accepted(s)
      PROVE  LaneInv' /\ RemoteInv' /\ SubjobsInv'
  <2>1. /\ OnlyLane(s) /\ GoesOn(s, "polling") /\ lane[s].pc = "submitting"
        /\ OnlySubjob(lane[s].sub)
        /\ subjobs'[lane[s].sub].processed = subjobs[lane[s].sub].processed
        /\ subjobs'[lane[s].sub].status = "running"
    BY <1>8, AcceptedStep
  <2>2. UNCHANGED <<phase, assignments, remote, duplicates>>
    BY <1>8 DEF Accepted
  <2>3. lane[s].pc \in Busy /\ "polling" \in Busy /\ StatusAt["polling"] = "running"
    BY <2>1 DEF Busy, StatusAt
  <2>4. subjobs'[lane[s].sub].processed <= Len(remote[s])
    BY <2>1, <2>3 DEF LaneInv, LaneOK
  <2> QED
    BY <2>1, <2>2, <2>3, <2>4, LaneGoesOn
<1>9. ASSUME NEW s \in Servers, Poll(s)
      PROVE  LaneInv' /\ RemoteInv' /\ SubjobsInv'
  <2> DEFINE pc == IF RemoteCompleted(s) THEN "fetching" ELSE "polling"
  <2>1. /\ OnlyLane(s) /\ GoesOn(s, pc) /\ lane[s].pc = "polling"
        /\ OnlySubjob(lane[s].sub)
        /\ subjobs'[lane[s].sub].processed = Len(remote[s])
        /\ subjobs'[lane[s].sub].status = IF RemoteCompleted(s) THEN "completed" ELSE "running"
    BY <1>9, PollStep
  <2>2. UNCHANGED <<phase, assignments, remote, duplicates>>
    BY <1>9 DEF Poll
  <2>3. /\ lane[s].pc \in Busy /\ pc \in Busy
        /\ StatusAt[pc] = IF RemoteCompleted(s) THEN "completed" ELSE "running"
        /\ pc = "fetching" => RemoteCompleted(s)
    BY <2>1 DEF Busy, StatusAt
  <2>4. subjobs'[lane[s].sub].processed <= Len(remote[s])
    <3>1. Len(remote[s]) \in Nat
      BY DEF TypeOK
    <3> QED
      BY <2>1, <3>1
  <2> HIDE DEF pc
  <2> QED
    BY <2>1, <2>2, <2>3, <2>4, LaneGoesOn
<1>10. ASSUME NEW s \in Servers, Fetch(s)
       PROVE  LaneInv' /\ RemoteInv' /\ SubjobsInv'
  <2>1. UNCHANGED <<phase, assignments, remote, duplicates>>
    BY <1>10 DEF Fetch
  <2>2. lane[s].pc \in Busy
    BY <1>10 DEF Fetch, Busy
  <2> QED
    BY <1>10, <2>1, <2>2, FetchStep, LaneLeaves
<1>11. ASSUME NEW s \in Servers, BatchFails(s)
       PROVE  LaneInv' /\ RemoteInv' /\ SubjobsInv'
  <2>1. UNCHANGED <<phase, assignments, remote, duplicates>>
    BY <1>11 DEF BatchFails
  <2> QED
    BY <1>11, <2>1, FailStep, LaneLeaves
<1>12. ASSUME NEW s \in Servers, EndPacing(s)
       PROVE  LaneInv' /\ RemoteInv' /\ SubjobsInv'
  BY <1>12, LanePaces
<1>13. ASSUME NEW s \in Servers, RestartAfterInsert(s)
       PROVE  LaneInv' /\ RemoteInv' /\ SubjobsInv'
  BY <1>13, LanesEnd DEF RestartAfterInsert
<1>14. CASE Restart \/ RestartAfterApify
  BY <1>14, LanesEnd DEF Restart, RestartAfterApify
<1>15. ASSUME NEW s \in Servers, NEW v \in Verdicts, NEW p \in lane[s].batch, RemoteStores(s, p, v)
       PROVE  LaneInv' /\ RemoteInv' /\ SubjobsInv'
  BY <1>15, LaneStores
<1>16. CASE WaiterAnswers \/ WaiterTimesOut \/ UNCHANGED vars
  BY <1>16, LanesStay DEF WaiterAnswers, WaiterTimesOut, vars
<1> HIDE DEF results, tables, job, history
<1> QED
  BY <1>2, <1>3, <1>4, <1>5, <1>6, <1>7, <1>8, <1>9, <1>10, <1>11, <1>12, <1>13, <1>14, <1>15,
     <1>16
     DEF Next, Job, Apify, Lane

-----------------------------------------------------------------------------
(* The job, its coroutine and who waits for it.                            *)

LEMMA RefreshedAgrees ==
  ASSUME NEW subs, counts' = Refreshed(subs, rows')
  PROVE  CountsAgree'
  BY DEF CountsAgree, Refreshed, Verdicts

LEMMA CountsStay ==
  ASSUME CountsAgree, rows' = rows, counts' = counts
  PROVE  CountsAgree'
  BY DEF CountsAgree, WithVerdict

LEMMA NothingInserted ==
  ASSUME TypeOK, InsertResults(<<>>)
  PROVE  rows' = rows
<1>1. last_id \in Nat /\ (last_id + 1)..(last_id + Len(<<>>)) = {}
  BY DEF TypeOK
<1>2. EmailsIn(<<>>) = {}
  BY DEF EmailsIn
<1>3. rows' = [i \in DOMAIN rows |-> rows[i]]
  BY <1>1, <1>2 DEF InsertResults, Inserted
<1>4. rows = [i \in DOMAIN rows |-> rows[i]]
  BY DEF TypeOK
<1> QED
  BY <1>3, <1>4

\* A step of a round, which does not end it.
LEMMA JobInRound ==
  ASSUME JobInv, phase = "round", UNCHANGED <<phase, status, waiter>>,
         CountsAgree => CountsAgree'
  PROVE  JobInv'
  BY DEF JobInv, Ended

LEMMA JobNext ==
  ASSUME TypeOK, JobInv, LaneInv, [Next]_vars
  PROVE  JobInv'
<1> USE DEF results, tables, job, history
<1>1. /\ status \in {"none", "queued", "running", "retrying", "completed", "failed"}
      /\ phase \in {"none", "created", "round", "apify", "waiting"}
  BY DEF TypeOK
<1>2. phase # "none" => waiter.pc # "answered"
  BY DEF JobInv
<1>3. ASSUME NEW s \in Servers, lane[s].pc # "idle"
      PROVE  phase = "round"
  BY <1>3 DEF LaneInv, LaneOK, Idle
<1>4. CASE CreateJob
  <2>1. CountsAgree /\ CountsAgree'
    BY <1>4, CountsStay DEF CreateJob, JobInv
  <2>2. waiter'.pc \in {"none", "waiting"}
    BY <1>4 DEF CreateJob, NoWaiter
  <2>3. subjobs' = <<>> /\ DOMAIN rows' = {} /\ attempt' = 0
    BY <1>4 DEF CreateJob, JobInv, Ended
  <2> QED
    BY <1>4, <2>1, <2>2, <2>3 DEF CreateJob, JobInv, Ended
<1>5. CASE RunJob \/ WakeUp
  <2>1. /\ phase \in {"created", "waiting"} /\ phase' = "round" /\ status' \notin {"none"} \union Ended
        /\ UNCHANGED <<waiter, counts, rows>>
    BY <1>1, <1>5 DEF RunJob, WakeUp, Dispatch, JobInv, Ended
  <2>2. waiter.pc # "none" => CountsAgree'
    BY <2>1, CountsStay DEF JobInv
  <2> QED
    BY <1>2, <2>1, <2>2 DEF JobInv
<1>6. CASE EndRound \/ CallApify \/ ApifyFails
  <2>1. /\ phase \in {"round", "apify"} /\ UNCHANGED <<waiter, counts, rows>>
        /\ \/ status' = "completed" /\ phase' = "none"
           \/ status' = "retrying" /\ phase' = "waiting"
           \/ status' = "retrying" /\ phase' = "apify" /\ attempt = 0 /\ attempt' = attempt
    BY <1>6 DEF EndRound, CallApify, ApifyFails, RoundDone, RetryRound
  <2>2. waiter.pc # "none" => CountsAgree'
    BY <2>1, CountsStay DEF JobInv
  <2>3. phase # "none"
    BY <2>1
  <2> QED
    BY <1>2, <2>1, <2>2, <2>3 DEF JobInv, Ended
<1>7. CASE ApifyAnswers
  <2>1. /\ phase = "apify" /\ status' = "completed" /\ phase' = "none" /\ waiter' = waiter
    BY <1>7 DEF ApifyAnswers
  <2>2. waiter.pc # "none" => CountsAgree'
    <3>1. PICK items \in ApifyItems :
            /\ InsertResults(items)
            /\ counts' = IF items = <<>> THEN counts ELSE Refreshed(subjobs, rows')
      BY <1>7 DEF ApifyAnswers
    <3>2. CASE items = <<>>
      BY <3>1, <3>2, NothingInserted, CountsStay DEF JobInv
    <3>3. CASE items # <<>>
      BY <3>1, <3>3, RefreshedAgrees
    <3> QED
      BY <3>2, <3>3
  <2> QED
    BY <1>2, <2>1, <2>2 DEF JobInv, Ended
<1>8. ASSUME NEW s \in Servers, Submit(s) \/ Accepted(s) \/ EndPacing(s)
      PROVE  JobInv'
  <2>1. lane[s].pc # "idle" /\ UNCHANGED <<phase, status, waiter, counts, rows>>
    BY <1>8 DEF Submit, Accepted, EndPacing, Goto
  <2> QED
    BY <1>3, <2>1, CountsStay, JobInRound
<1>9. ASSUME NEW s \in Servers, Poll(s) \/ Fetch(s) \/ BatchFails(s)
      PROVE  JobInv'
  <2>1. lane[s].pc # "idle" /\ UNCHANGED <<phase, status, waiter>>
    BY <1>9 DEF Poll, Fetch, BatchFails
  <2>2. counts' = Refreshed(subjobs', rows')
    BY <1>9 DEF Poll, Fetch, BatchFails
  <2> QED
    BY <1>3, <2>1, <2>2, RefreshedAgrees, JobInRound
<1>10. ASSUME Sweep
       PROVE  JobInv'
  <2>1. phase # "none" /\ phase' = "none" /\ waiter'.pc = "none"
        /\ status' = IF status \in {"queued", "running", "retrying"} THEN "failed" ELSE status
    BY <1>10 DEF Sweep, NoWaiter
  <2>2. status' = "failed"
    BY <1>1, <2>1 DEF JobInv, Ended
  <2> QED
    BY <2>1, <2>2 DEF JobInv, Ended
<1>11. ASSUME NEW s \in Servers, RestartAfterInsert(s)
       PROVE  JobInv'
  BY <1>10, <1>11 DEF RestartAfterInsert
<1>12. CASE Restart \/ RestartAfterApify
  BY <1>10, <1>12 DEF Restart, RestartAfterApify
<1>13. ASSUME NEW s \in Servers, NEW v \in Verdicts, NEW p \in lane[s].batch, RemoteStores(s, p, v)
       PROVE  JobInv'
  <2>1. lane[s].pc # "idle" /\ UNCHANGED <<phase, status, waiter, counts, rows>>
    BY <1>13 DEF RemoteStores
  <2> QED
    BY <1>3, <2>1, CountsStay, JobInRound
<1>14. CASE WaiterAnswers
  <2>1. /\ waiter.pc = "waiting" /\ status \in Ended /\ waiter' = Answer
        /\ UNCHANGED <<status, counts, rows, phase, subjobs, attempt>>
    BY <1>14 DEF WaiterAnswers
  <2>2. CountsAgree'
    BY <2>1, CountsStay DEF JobInv
  <2>3. waiter' = Answer'
    BY <2>1 DEF Answer
  <2> QED
    BY <2>1, <2>2, <2>3 DEF JobInv
<1>15. CASE WaiterTimesOut
  <2>1. /\ waiter.pc = "waiting" /\ waiter'.pc = "timed_out"
        /\ UNCHANGED <<status, counts, rows, phase, subjobs, attempt>>
    BY <1>15 DEF WaiterTimesOut, NoWaiter
  <2>2. CountsAgree'
    BY <2>1, CountsStay DEF JobInv
  <2> QED
    BY <2>1, <2>2 DEF JobInv
<1>16. CASE UNCHANGED vars
  <2>1. UNCHANGED <<status, counts, rows, phase, subjobs, attempt, waiter>>
    BY <1>16 DEF vars
  <2>2. CountsAgree => CountsAgree'
    BY <2>1, CountsStay
  <2>3. Answer' = Answer
    BY <2>1 DEF Answer
  <2> QED
    BY <2>1, <2>2, <2>3 DEF JobInv
<1>17. CASE ApifyRaises
  <2>1. /\ phase = "apify" /\ status' = "failed" /\ phase' = "none"
        /\ UNCHANGED <<waiter, counts, rows>>
    BY <1>17 DEF ApifyRaises
  <2>2. waiter.pc # "none" => CountsAgree'
    BY <2>1, CountsStay DEF JobInv
  <2> QED
    BY <1>2, <2>1, <2>2 DEF JobInv, Ended
<1> HIDE DEF results, tables, job, history
<1> QED
  BY <1>4, <1>5, <1>6, <1>7, <1>8, <1>9, <1>11, <1>12, <1>13, <1>14, <1>15, <1>16, <1>17
     DEF Next, Job, Apify, Lane

-----------------------------------------------------------------------------
(* The servers of the rows, and those of the retries.                      *)

LEMMA InsertedBackend ==
  ASSUME TypeOK, BackendInv, NEW new, Len(new) \in Nat, DOMAIN new = 1..Len(new),
         InsertResults(new),
         \A k, l \in 1..Len(new) : new[k].backend = new[l].backend
  PROVE  BackendInv'
<1> SUFFICES ASSUME NEW i \in DOMAIN rows', NEW j \in DOMAIN rows',
                    rows'[i].email = rows'[j].email
             PROVE  rows'[i].backend = rows'[j].backend
  BY DEF BackendInv
<1>1. \A k \in 1..Len(new) : new[k].email \in EmailsIn(new)
  BY DEF EmailsIn
<1> DEFINE old(m) == m \in DOMAIN rows /\ rows[m].email \notin EmailsIn(new) /\ rows'[m] = rows[m]
           fresh(m) == \E k \in 1..Len(new) : m = last_id + k /\ rows'[m] = new[k]
<1>2. (old(i) \/ fresh(i)) /\ (old(j) \/ fresh(j))
  BY InsertedRows
<1>3. CASE old(i) /\ old(j)
  BY <1>3 DEF BackendInv
<1>4. CASE fresh(i) /\ fresh(j)
  BY <1>4
<1>5. ~ (old(i) /\ fresh(j)) /\ ~ (fresh(i) /\ old(j))
  BY <1>1
<1> QED
  BY <1>2, <1>3, <1>4, <1>5

LEMMA FetchedBackend ==
  ASSUME TypeOK, LaneInv, RemoteInv, BackendInv, NEW s \in Servers, lane[s].pc \in Busy,
         InsertResults(Fetched(s))
  PROVE  BackendInv'
<1>1. /\ Len(Fetched(s)) \in Nat /\ DOMAIN Fetched(s) = 1..Len(Fetched(s))
      /\ \A k \in 1..Len(Fetched(s)) :
           Fetched(s)[k].backend = IF s \in Named THEN s ELSE Foreign
  BY FetchedType
<1> QED
  BY <1>1, InsertedBackend

LEMMA BackendStays ==
  ASSUME BackendInv, rows' = rows
  PROVE  BackendInv'
  BY DEF BackendInv

LEMMA BackendNext ==
  ASSUME TypeOK, LaneInv, RemoteInv, BackendInv, [Next]_vars
  PROVE  BackendInv'
<1> USE DEF results, tables
<1>1. CASE CreateJob \/ RunJob \/ EndRound \/ CallApify \/ ApifyFails \/ ApifyRaises \/ WakeUp
  BY <1>1, BackendStays
     DEF CreateJob, RunJob, EndRound, CallApify, ApifyFails, ApifyRaises, WakeUp
<1>2. CASE ApifyAnswers \/ RestartAfterApify
  <2>1. PICK items \in ApifyItems : InsertResults(items)
    BY <1>2 DEF ApifyAnswers, RestartAfterApify
  <2> QED
    BY <2>1, ItemsType, InsertedBackend
<1>3. ASSUME NEW s \in Servers,
             Submit(s) \/ Accepted(s) \/ EndPacing(s) \/ Poll(s) \/ BatchFails(s)
      PROVE  BackendInv'
  BY <1>3, BackendStays DEF Submit, Accepted, EndPacing, Poll, BatchFails
<1>4. ASSUME NEW s \in Servers, Fetch(s) \/ RestartAfterInsert(s)
      PROVE  BackendInv'
  <2>1. lane[s].pc \in Busy /\ InsertResults(Fetched(s))
    BY <1>4 DEF Fetch, RestartAfterInsert, Busy
  <2> QED
    BY <2>1, FetchedBackend
<1>5. CASE Restart
  BY <1>5, BackendStays DEF Restart
<1>6. ASSUME NEW s \in Servers, NEW v \in Verdicts, NEW p \in lane[s].batch, RemoteStores(s, p, v)
      PROVE  BackendInv'
  BY <1>6, BackendStays DEF RemoteStores
<1>7. CASE WaiterAnswers \/ WaiterTimesOut \/ UNCHANGED vars
  BY <1>7, BackendStays DEF WaiterAnswers, WaiterTimesOut, vars
<1> HIDE DEF results, tables
<1> QED
  BY <1>1, <1>2, <1>3, <1>4, <1>5, <1>6, <1>7 DEF Next, Job, Apify, Lane

LEMMA RetryWaits ==
  ASSUME TypeOK, NEW a \in 1..(Attempts + 1), RetryRound(a), rows' = rows
  PROVE  WaitingInv'
<1>1. CASE a > Attempts \/ Unknowns = {}
  BY <1>1 DEF RetryRound, WaitingInv
<1>2. CASE ~ (a > Attempts \/ Unknowns = {})
  <2>1. a \in 1..Attempts /\ attempt' = a /\ assignments' = UnknownAssignments(a)
    BY <1>2 DEF RetryRound
  <2>2. UnknownAssignments(attempt)' = UnknownAssignments(a)
    BY <2>1 DEF UnknownAssignments, Unknowns, WithVerdict, LastServer
  <2> QED
    BY <2>1, <2>2 DEF WaitingInv
<1> QED
  BY <1>1, <1>2

LEMMA WaitingStays ==
  ASSUME WaitingInv, UNCHANGED <<phase, attempt, assignments, rows>>
  PROVE  WaitingInv'
<1>1. UnknownAssignments(attempt)' = UnknownAssignments(attempt)
  BY DEF UnknownAssignments, Unknowns, WithVerdict, LastServer
<1> QED
  BY <1>1 DEF WaitingInv

LEMMA WaitingNext ==
  ASSUME TypeOK, LaneInv, WaitingInv, [Next]_vars
  PROVE  WaitingInv'
<1> USE DEF results, tables, job, history
<1>1. ASSUME phase' # "waiting"
      PROVE  WaitingInv'
  BY <1>1 DEF WaitingInv
<1>2. ASSUME NEW s \in Servers, lane[s].pc # "idle"
      PROVE  phase = "round"
  BY <1>2 DEF LaneInv, LaneOK, Idle
<1>3. CASE \/ CreateJob \/ RunJob \/ CallApify \/ ApifyAnswers \/ ApifyRaises \/ WakeUp
           \/ Restart \/ RestartAfterApify
  BY <1>1, <1>3 DEF CreateJob, RunJob, CallApify, ApifyAnswers, ApifyRaises, WakeUp, Restart,
                    RestartAfterApify, Sweep, Dispatch, RoundDone
<1>4. CASE EndRound
  <2>1. attempt + 1 \in 1..(Attempts + 1)
    BY DEF TypeOK
  <2> QED
    BY <1>4, <2>1, RetryWaits DEF EndRound
<1>5. CASE ApifyFails
  <2>1. 1 \in 1..(Attempts + 1)
    OBVIOUS
  <2> QED
    BY <1>5, <2>1, RetryWaits DEF ApifyFails
<1>6. ASSUME NEW s \in Servers,
             \/ Submit(s) \/ Accepted(s) \/ EndPacing(s) \/ Poll(s) \/ BatchFails(s) \/ Fetch(s)
             \/ RestartAfterInsert(s)
      PROVE  WaitingInv'
  <2>1. lane[s].pc # "idle" /\ (phase' = phase \/ phase' = "none")
    BY <1>6 DEF Submit, Accepted, EndPacing, Poll, BatchFails, Fetch, RestartAfterInsert, Goto, Sweep
  <2> QED
    BY <1>1, <1>2, <2>1
<1>7. ASSUME NEW s \in Servers, NEW v \in Verdicts, NEW p \in lane[s].batch, RemoteStores(s, p, v)
      PROVE  WaitingInv'
  BY <1>7, WaitingStays DEF RemoteStores
<1>8. CASE WaiterAnswers \/ WaiterTimesOut \/ UNCHANGED vars
  BY <1>8, WaitingStays DEF WaiterAnswers, WaiterTimesOut, vars
<1> HIDE DEF results, tables, job, history
<1> QED
  BY <1>3, <1>4, <1>5, <1>6, <1>7, <1>8 DEF Next, Job, Apify, Lane

-----------------------------------------------------------------------------
(* One row per email, as long as no server lists an email twice.           *)

\* OneRowPerEmail and a round's places without their condition.
OneRow == \A i, j \in DOMAIN rows : rows[i].email = rows[j].email => i = j
OnePlace == \A p, q \in DOMAIN assignments : assignments[p].email = assignments[q].email => p = q
ToReplace(p) == \A i \in RowsOf(assignments[p].email) : rows[i].verdict = "unknown"

LEMMA UniqueParts ==
  UniqueInv <=> (duplicates = 0 => OneRow /\ OnePlace /\ \A p \in ToStore : ToReplace(p))
  BY DEF UniqueInv, OneRowPerEmail, OneRow, OnePlace, ToReplace

LEMMA InsertedOnce ==
  ASSUME TypeOK, OneRow, NEW new, Len(new) \in Nat, DOMAIN new = 1..Len(new), InsertResults(new),
         \A k, l \in 1..Len(new) : new[k].email = new[l].email => k = l
  PROVE  OneRow'
<1> SUFFICES ASSUME NEW i \in DOMAIN rows', NEW j \in DOMAIN rows',
                    rows'[i].email = rows'[j].email
             PROVE  i = j
  BY DEF OneRow
<1>1. \A k \in 1..Len(new) : new[k].email \in EmailsIn(new)
  BY DEF EmailsIn
<1> DEFINE old(m) == m \in DOMAIN rows /\ rows[m].email \notin EmailsIn(new) /\ rows'[m] = rows[m]
           fresh(m) == \E k \in 1..Len(new) : m = last_id + k /\ rows'[m] = new[k]
<1>2. (old(i) \/ fresh(i)) /\ (old(j) \/ fresh(j))
  BY InsertedRows
<1>3. CASE old(i) /\ old(j)
  BY <1>3 DEF OneRow
<1>4. CASE fresh(i) /\ fresh(j)
  BY <1>4
<1>5. ~ (old(i) /\ fresh(j)) /\ ~ (fresh(i) /\ old(j))
  BY <1>1
<1> QED
  BY <1>2, <1>3, <1>4, <1>5

LEMMA InsertedEmails ==
  ASSUME TypeOK, NEW new, Len(new) \in Nat, DOMAIN new = 1..Len(new), InsertResults(new)
  PROVE  EmailsIn(rows) \subseteq EmailsIn(rows') /\ EmailsIn(new) \subseteq EmailsIn(rows')
<1>1. ASSUME NEW k \in DOMAIN new
      PROVE  new[k].email \in EmailsIn(rows')
  BY InsertedRows DEF EmailsIn
<1>2. EmailsIn(new) \subseteq EmailsIn(rows')
  BY <1>1 DEF EmailsIn
<1>3. ASSUME NEW i \in DOMAIN rows, rows[i].email \notin EmailsIn(new)
      PROVE  rows[i].email \in EmailsIn(rows')
  BY <1>3, InsertedRows DEF EmailsIn
<1> QED
  BY <1>2, <1>3 DEF EmailsIn

\* A step that stores nothing and starts nothing.
LEMMA UniqueStays ==
  ASSUME UniqueInv, UNCHANGED <<rows, assignments>>, duplicates' = 0 => duplicates = 0,
         ToStore' \subseteq ToStore
  PROVE  UniqueInv'
  BY UniqueParts DEF OneRow, OnePlace, ToReplace, RowsOf, UniqueInv, OneRowPerEmail

\* No lane runs after the step.
LEMMA NothingToStore ==
  ASSUME \A s \in Servers : lane'[s] = Idle
  PROVE  ToStore' = {}
  BY DEF ToStore, Idle

LEMMA StoredPlaces ==
  ASSUME TypeOK, LaneInv
  PROVE  /\ ToStore \subseteq DOMAIN assignments
         /\ \A s \in Servers : lane[s].batch \subseteq ToStore /\ lane[s].todo \subseteq ToStore
         /\ \A s \in Servers : \A p \in ToStore :
              \/ assignments[p].server # s
              \/ p \in lane[s].batch /\ p \notin lane[s].todo
              \/ p \in lane[s].todo /\ p \notin lane[s].batch
<1>1. ASSUME NEW s \in Servers, NEW p \in lane[s].batch \union lane[s].todo
      PROVE  p \in DOMAIN assignments /\ assignments[p].server = s
  BY <1>1 DEF LaneInv, LaneOK, PlacesOf
<1>2. \A s \in Servers : lane[s].batch \intersect lane[s].todo = {}
  BY DEF LaneInv, LaneOK
<1> QED
  BY <1>1, <1>2 DEF ToStore

LEMMA FetchedOnce ==
  ASSUME TypeOK, LaneInv, RemoteInv, UniqueInv, duplicates = 0,
         NEW s \in Servers, lane[s].pc \in Busy
  PROVE  \A k, l \in 1..Len(Fetched(s)) : Fetched(s)[k].email = Fetched(s)[l].email => k = l
<1>1. \A k, l \in DOMAIN remote[s] : remote[s][k].place = remote[s][l].place => k = l
  BY DEF RemoteInv, RemoteOK
<1>2. OnePlace
  BY UniqueParts
<1>3. /\ Len(Fetched(s)) = Len(remote[s]) /\ DOMAIN remote[s] = 1..Len(remote[s])
      /\ \A k \in DOMAIN remote[s] :
           /\ remote[s][k].place \in DOMAIN assignments
           /\ Fetched(s)[k].email = assignments[remote[s][k].place].email
  BY FetchedType
<1> QED
  BY <1>1, <1>2, <1>3 DEF OnePlace

\* A row of the batch replaces an unknown verdict.
LEMMA FetchedReplaces ==
  ASSUME TypeOK, LaneInv, RemoteInv, UniqueInv, duplicates = 0,
         NEW s \in Servers, lane[s].pc \in Busy
  PROVE  \A i \in DOMAIN rows : rows[i].email \in EmailsIn(Fetched(s)) => rows[i].verdict = "unknown"
<1> SUFFICES ASSUME NEW i \in DOMAIN rows, NEW k \in DOMAIN Fetched(s),
                    rows[i].email = Fetched(s)[k].email
             PROVE  rows[i].verdict = "unknown"
  BY DEF EmailsIn
<1>1. /\ k \in DOMAIN remote[s] /\ remote[s][k].place \in lane[s].batch
      /\ Fetched(s)[k].email = assignments[remote[s][k].place].email
  <2>1. k \in DOMAIN remote[s]
    BY DEF Fetched
  <2> QED
    BY <2>1, FetchedType
<1>2. ToReplace(remote[s][k].place)
  BY <1>1, UniqueParts, StoredPlaces
<1> QED
  BY <1>1, <1>2 DEF ToReplace, RowsOf

LEMMA RetryUnique ==
  ASSUME TypeOK, LaneInv, UniqueInv, NEW a \in 1..(Attempts + 1), RetryRound(a),
         \A s \in Servers : lane[s].pc = "idle", UNCHANGED <<rows, lane, duplicates>>
  PROVE  UniqueInv'
<1>1. ToStore' = {}
  BY NothingToStore DEF LaneInv, LaneOK
<1>2. ASSUME duplicates = 0
      PROVE  OneRow' /\ OnePlace'
  <2>1. OneRow
    BY <1>2, UniqueParts
  <2>2. CASE a > Attempts \/ Unknowns = {}
    BY <2>1, <2>2 DEF RetryRound, OneRow, OnePlace
  <2>3. CASE ~ (a > Attempts \/ Unknowns = {})
    <3>1. assignments' = UnknownAssignments(a) /\ a \in Nat
      BY <2>3 DEF RetryRound
    <3>2. /\ DOMAIN assignments' = Unknowns
          /\ \A i \in Unknowns : assignments'[i].email = rows[i].email
      BY <3>1, UnknownType
    <3> QED
      BY <2>1, <3>2, UnknownsParts DEF OneRow, OnePlace
  <2> QED
    BY <2>2, <2>3
<1> QED
  BY <1>1, <1>2 DEF UniqueInv, OneRowPerEmail, OneRow, OnePlace

\* What is left to store after a step of the lane s that stores the places of B.
LEMMA ToStoreStep ==
  ASSUME NEW s \in Servers, OnlyLane(s), NEW B,
         lane[s].batch \union lane[s].todo
           = B \union lane'[s].batch \union lane'[s].todo
  PROVE  ToStore' \subseteq ToStore /\ ToStore \subseteq ToStore' \union B
<1>1. ASSUME NEW u \in Servers
      PROVE  /\ lane'[u].batch \union lane'[u].todo \subseteq lane[u].batch \union lane[u].todo
             /\ lane[u].batch \union lane[u].todo
                  \subseteq B \union lane'[u].batch \union lane'[u].todo
  <2>1. CASE u = s
    BY <2>1
  <2>2. CASE u # s
    BY <2>2 DEF OnlyLane
  <2> QED
    BY <2>1, <2>2
<1>2. ASSUME NEW p \in ToStore'
      PROVE  p \in ToStore
  BY <1>1, <1>2 DEF ToStore
<1>3. ASSUME NEW p \in ToStore, p \notin B
      PROVE  p \in ToStore'
  <2>1. PICK u \in Servers : p \in lane[u].batch \union lane[u].todo
    BY DEF ToStore
  <2>2. p \in lane'[u].batch \union lane'[u].todo
    BY <1>1, <1>3, <2>1
  <2> QED
    BY <2>2 DEF ToStore
<1> QED
  BY <1>2, <1>3

LEMMA ToStoreGoesOn ==
  ASSUME NEW s \in Servers, OnlyLane(s), NEW pc, GoesOn(s, pc)
  PROVE  ToStore' = ToStore
<1>1. lane[s].batch \union lane[s].todo = {} \union lane'[s].batch \union lane'[s].todo
  BY DEF GoesOn
<1>2. ToStore' \subseteq ToStore /\ ToStore \subseteq ToStore' \union {}
  BY <1>1, ToStoreStep
<1> QED
  BY <1>2

LEMMA ToStoreLeaves ==
  ASSUME NEW s \in Servers, OnlyLane(s), Leaves(s)
  PROVE  ToStore' \subseteq ToStore /\ ToStore \subseteq ToStore' \union lane[s].batch
<1>1. lane[s].batch \union lane[s].todo = lane[s].batch \union lane'[s].batch \union lane'[s].todo
  BY DEF Leaves
<1> QED
  BY <1>1, ToStoreStep

LEMMA ToStoreSubmits ==
  ASSUME TypeOK, LaneInv, NEW s \in Servers, Submit(s)
  PROVE  ToStore' = ToStore
<1>1. lane[s].batch = {}
  BY DEF Submit, LaneInv, LaneOK, Busy
<1>2. /\ OnlyLane(s) /\ lane'[s].batch = NextBatch(s) /\ lane'[s].todo = lane[s].todo \ NextBatch(s)
      /\ NextBatch(s) \subseteq lane[s].todo
  <2>1. lane'[s] = [pc |-> "submitting", batch |-> NextBatch(s),
                    todo |-> lane[s].todo \ NextBatch(s), sub |-> Len(subjobs) + 1]
    BY SubmitStep
  <2>2. OnlyLane(s) /\ NextBatch(s) \subseteq lane[s].todo
    BY SubmitStep
  <2> QED
    BY <2>1, <2>2
<1>3. lane[s].batch \union lane[s].todo = {} \union lane'[s].batch \union lane'[s].todo
  BY <1>1, <1>2
<1>4. ToStore' \subseteq ToStore /\ ToStore \subseteq ToStore' \union {}
  BY <1>2, <1>3, ToStoreStep
<1> QED
  BY <1>4

\* A lane that leaves its round alone.
LaneGoes(s) == Submit(s) \/ Accepted(s) \/ EndPacing(s) \/ Poll(s)

LEMMA ToStoreGoes ==
  ASSUME TypeOK, LaneInv, NEW s \in Servers, LaneGoes(s)
  PROVE  ToStore' = ToStore
<1>1. CASE Submit(s)
  BY <1>1, ToStoreSubmits
<1>2. CASE Accepted(s)
  BY <1>2, AcceptedStep, ToStoreGoesOn
<1>3. CASE EndPacing(s)
  BY <1>3, GoesOnIf, ToStoreGoesOn DEF EndPacing, Goto
<1>4. CASE Poll(s)
  BY <1>4, PollStep, ToStoreGoesOn
<1> QED
  BY <1>1, <1>2, <1>3, <1>4 DEF LaneGoes

LEMMA UniqueFetch ==
  ASSUME TypeOK, LaneInv, RemoteInv, UniqueInv, NEW s \in Servers, Fetch(s)
  PROVE  UniqueInv'
<1> USE DEF job, history
<1> SUFFICES ASSUME duplicates = 0
             PROVE  OneRow' /\ OnePlace' /\ \A p \in ToStore' : ToReplace(p)'
  BY DEF Fetch, UniqueInv, OneRowPerEmail, OneRow, OnePlace, ToReplace
<1>1. /\ InsertResults(Fetched(s)) /\ lane[s].pc \in Busy /\ assignments' = assignments
      /\ OneRow /\ OnePlace /\ \A p \in ToStore : ToReplace(p)
  BY UniqueParts DEF Fetch, Busy
<1>2. Len(Fetched(s)) \in Nat /\ DOMAIN Fetched(s) = 1..Len(Fetched(s))
  BY <1>1, FetchedType
<1>3. OneRow'
  BY <1>1, <1>2, FetchedOnce, InsertedOnce
<1>4. OnePlace'
  BY <1>1 DEF OnePlace
<1>5. ASSUME NEW p \in ToStore', NEW i \in DOMAIN rows', rows'[i].email = assignments[p].email
      PROVE  rows'[i].verdict = "unknown"
  <2>1. p \in ToStore /\ p \notin lane[s].batch
    <3>1. /\ OnlyLane(s) /\ Leaves(s)
      BY FetchStep
    <3>2. p \in ToStore
      BY <3>1, <1>5, ToStoreLeaves
    <3>3. PICK u \in Servers : p \in lane'[u].batch \union lane'[u].todo
      BY <1>5 DEF ToStore
    <3>4. CASE u = s
      <4>1. p \in lane[s].todo
        BY <3>1, <3>3, <3>4 DEF Leaves
      <4> QED
        BY <3>2, <4>1 DEF LaneInv, LaneOK
    <3>5. CASE u # s
      <4>1. p \in lane[u].batch \union lane[u].todo
        BY <3>1, <3>3, <3>5 DEF OnlyLane
      <4> QED
        BY <3>2, <3>5, <4>1 DEF LaneInv, LaneOK, PlacesOf
    <3> QED
      BY <3>4, <3>5
  <2>2. CASE i \in DOMAIN rows /\ rows'[i] = rows[i]
    BY <1>1, <1>5, <2>1, <2>2 DEF ToReplace, RowsOf
  <2>3. CASE \E k \in 1..Len(Fetched(s)) : i = last_id + k /\ rows'[i] = Fetched(s)[k]
    <3>1. PICK k \in 1..Len(Fetched(s)) : rows'[i] = Fetched(s)[k]
      BY <2>3
    <3>2. k \in DOMAIN remote[s]
      BY <1>2 DEF Fetched
    <3>3. /\ remote[s][k].place \in lane[s].batch /\ remote[s][k].place \in DOMAIN assignments
          /\ Fetched(s)[k].email = assignments[remote[s][k].place].email
      BY <1>1, <3>2, FetchedType
    <3>4. p \in DOMAIN assignments
      BY <2>1, StoredPlaces
    <3>5. p = remote[s][k].place
      BY <1>1, <1>5, <3>1, <3>3, <3>4 DEF OnePlace
    <3> QED
      BY <2>1, <3>3, <3>5
  <2> QED
    BY <1>1, <1>2, <2>2, <2>3, InsertedRows
<1>6. \A p \in ToStore' : ToReplace(p)'
  BY <1>1, <1>5 DEF ToReplace, RowsOf
<1> QED
  BY <1>3, <1>4, <1>6

\* After the last lane there is nothing to store.
LEMMA UniqueWithout ==
  ASSUME UniqueInv, \A s \in Servers : lane'[s] = Idle, duplicates' = 0 => duplicates = 0,
         duplicates = 0 /\ OneRow => OneRow',
         assignments' = assignments \/ assignments' = <<>>
  PROVE  UniqueInv'
<1>1. ToStore' = {}
  BY NothingToStore
<1>2. OnePlace => OnePlace'
  BY DEF OnePlace
<1> QED
  BY <1>1, <1>2, UniqueParts DEF UniqueInv, OneRowPerEmail, OneRow, OnePlace

LEMMA UniqueNext ==
  ASSUME TypeOK, JobInv, LaneInv, RemoteInv, WaitingInv, UniqueInv, [Next]_vars
  PROVE  UniqueInv'
<1> USE DEF results, tables, job, history
<1>1. phase # "round" => \A s \in Servers : lane[s].pc = "idle" /\ lane[s] = Idle
  BY DEF LaneInv, LaneOK, Idle
<1>2. ToStore' = ToStore \/ lane' # lane
  BY DEF ToStore
<1>3. OneRow => OneRow' \/ rows' # rows
  BY DEF OneRow
<1>4. CASE \/ CreateJob \/ CallApify \/ ApifyRaises
           \/ WaiterAnswers \/ WaiterTimesOut \/ UNCHANGED vars
  BY <1>2, <1>4, UniqueStays
     DEF CreateJob, CallApify, ApifyRaises, WaiterAnswers, WaiterTimesOut, vars
<1>5. CASE RunJob
  <2>1. DOMAIN rows' = {}
    BY <1>5 DEF RunJob, JobInv
  <2>2. \A p, q \in DOMAIN FirstAssignments :
          FirstAssignments[p].email = FirstAssignments[q].email => p = q
    BY DEF FirstAssignments
  <2>3. assignments' = FirstAssignments
    BY <1>5 DEF RunJob, Dispatch
  <2> QED
    BY <2>1, <2>2, <2>3 DEF UniqueInv, OneRowPerEmail, RowsOf
<1>6. CASE EndRound
  <2>1. attempt + 1 \in 1..(Attempts + 1)
    BY DEF TypeOK
  <2> QED
    BY <1>6, <2>1, RetryUnique DEF EndRound, RoundDone
<1>7. CASE ApifyFails
  <2>1. 1 \in 1..(Attempts + 1)
    OBVIOUS
  <2> QED
    BY <1>1, <1>7, <2>1, RetryUnique DEF ApifyFails
<1>8. CASE ApifyAnswers
  <2>1. PICK items \in ApifyItems : InsertResults(items)
    BY <1>8 DEF ApifyAnswers
  <2>2. OneRow => OneRow'
    BY <2>1, ItemsType, InsertedOnce
  <2>3. \A s \in Servers : lane'[s] = Idle
    BY <1>1, <1>8 DEF ApifyAnswers
  <2> QED
    BY <1>8, <2>2, <2>3, UniqueWithout DEF ApifyAnswers
<1>9. CASE WakeUp
  <2> SUFFICES ASSUME duplicates = 0
               PROVE  OneRow' /\ OnePlace' /\ \A p \in ToStore' : ToReplace(p)'
    BY <1>9 DEF WakeUp, UniqueInv, OneRowPerEmail, OneRow, OnePlace, ToReplace
  <2>1. OneRow /\ OnePlace /\ UNCHANGED <<rows, assignments>>
    BY <1>9, UniqueParts DEF WakeUp, Dispatch
  <2>2. OneRow' /\ OnePlace'
    BY <2>1 DEF OneRow, OnePlace
  <2>3. \A p \in ToStore' : p \in DOMAIN assignments
    <3>1. AssignmentsType(assignments) /\ Dispatch(assignments)
      BY <1>9, TypeParts DEF WakeUp
    <3>2. \A s \in Servers : lane'[s].batch = {} /\ lane'[s].todo = PlacesOf(assignments, s)
      BY <3>1, DispatchStep
    <3> QED
      BY <3>2 DEF ToStore, PlacesOf
  <2>4. attempt \in Nat /\ assignments = UnknownAssignments(attempt)
    BY <1>9 DEF WakeUp, WaitingInv
  <2>5. ASSUME NEW p \in DOMAIN assignments
        PROVE  ToReplace(p)
    <3>1. /\ p \in Unknowns /\ assignments[p].email = rows[p].email
      BY <2>4, UnknownType
    <3> QED
      BY <2>1, <3>1, UnknownsParts DEF ToReplace, RowsOf, OneRow
  <2> QED
    BY <2>1, <2>2, <2>3, <2>5 DEF ToReplace, RowsOf
<1>10. ASSUME NEW s \in Servers, LaneGoes(s)
       PROVE  UniqueInv'
  <2>1. UNCHANGED <<rows, assignments, duplicates>>
    BY <1>10 DEF LaneGoes, Submit, Accepted, EndPacing, Poll
  <2> QED
    BY <1>10, <2>1, ToStoreGoes, UniqueStays
<1>11. ASSUME NEW s \in Servers, BatchFails(s)
       PROVE  UniqueInv'
  <2>1. UNCHANGED <<rows, assignments, duplicates>>
    BY <1>11 DEF BatchFails
  <2> QED
    BY <1>11, <2>1, FailStep, ToStoreLeaves, UniqueStays
<1>12. ASSUME NEW s \in Servers, Fetch(s)
       PROVE  UniqueInv'
  BY <1>12, UniqueFetch
<1>13. ASSUME Sweep, duplicates = 0 /\ OneRow => OneRow'
       PROVE  UniqueInv'
  BY <1>13, SweepStep, UniqueWithout DEF Sweep
<1>14. ASSUME NEW s \in Servers, RestartAfterInsert(s)
       PROVE  UniqueInv'
  <2>1. lane[s].pc \in Busy /\ InsertResults(Fetched(s)) /\ Sweep
    BY <1>14 DEF RestartAfterInsert, Busy
  <2>2. Len(Fetched(s)) \in Nat /\ DOMAIN Fetched(s) = 1..Len(Fetched(s))
    BY <2>1, FetchedType
  <2>3. duplicates = 0 /\ OneRow => OneRow'
    BY <2>1, <2>2, FetchedOnce, InsertedOnce
  <2> QED
    BY <1>13, <2>1, <2>3
<1>15. CASE Restart
  BY <1>3, <1>13, <1>15 DEF Restart
<1>16. ASSUME NEW s \in Servers, NEW v \in Verdicts, NEW p \in lane[s].batch, RemoteStores(s, p, v)
       PROVE  UniqueInv'
  <2>1. UNCHANGED <<rows, assignments, lane>> /\ (duplicates' = 0 => duplicates = 0)
    BY <1>16, RemoteStoresStep DEF RemoteStores
  <2> QED
    BY <1>2, <2>1, UniqueStays
<1>17. CASE RestartAfterApify
  <2>1. PICK items \in ApifyItems : InsertResults(items)
    BY <1>17 DEF RestartAfterApify
  <2>2. OneRow => OneRow'
    BY <2>1, ItemsType, InsertedOnce
  <2> QED
    BY <1>13, <1>17, <2>2 DEF RestartAfterApify
<1> HIDE DEF results, tables, job, history
<1> QED
  BY <1>4, <1>5, <1>6, <1>7, <1>8, <1>9, <1>10, <1>11, <1>12, <1>14, <1>15, <1>16, <1>17
     DEF Next, Job, Apify, Lane, LaneGoes

-----------------------------------------------------------------------------
(* What has a result and what is complete.                                 *)

LEMMA PigeonHole ==
  ASSUME NEW S, IsFiniteSet(S), NEW n \in Nat, NEW f \in [1..n -> S],
         \A k, l \in 1..n : f[k] = f[l] => k = l
  PROVE  /\ n <= Cardinality(S)
         /\ n >= Cardinality(S) => \A x \in S : \E k \in 1..n : f[k] = x
<1>1. f \in Injection(1..n, S)
  BY DEF Injection, IsInjective
<1>2. Cardinality(1..n) = n
  BY FS_Interval
<1>3. n <= Cardinality(S) /\ (n = Cardinality(S) <=> f \in Surjection(1..n, S))
  BY <1>1, <1>2, FS_Injection
<1>4. Cardinality(S) \in Nat
  BY FS_CardinalityType
<1> QED
  BY <1>3, <1>4 DEF Surjection

LEMMA BatchFinite ==
  ASSUME TypeOK, LaneInv, NEW s \in Servers
  PROVE  IsFiniteSet(lane[s].batch) /\ Cardinality(lane[s].batch) \in Nat
<1>1. lane[s].batch \subseteq DOMAIN assignments /\ IsFiniteSet(DOMAIN assignments)
  BY DEF LaneInv, LaneOK, PlacesOf, TypeOK
<1> QED
  BY <1>1, FS_Subset, FS_CardinalityType

\* Without duplicates a server lists no more rows than it was sent, and a
\* completed job has a row for each of them.
LEMMA RemoteBound ==
  ASSUME TypeOK, LaneInv, RemoteInv, duplicates = 0, NEW s \in Servers, lane[s].pc \in Busy
  PROVE  /\ Len(remote[s]) <= Cardinality(lane[s].batch)
         /\ lane[s].pc = "fetching" =>
              \A p \in lane[s].batch : \E k \in DOMAIN remote[s] : remote[s][k].place = p
<1> DEFINE f == [k \in DOMAIN remote[s] |-> remote[s][k].place]
<1>1. /\ \A k \in DOMAIN remote[s] : remote[s][k].place \in lane[s].batch
      /\ \A k, l \in DOMAIN remote[s] : remote[s][k].place = remote[s][l].place => k = l
      /\ lane[s].pc = "fetching" => Len(remote[s]) >= Cardinality(lane[s].batch)
  BY DEF RemoteInv, RemoteOK, RemoteCompleted
<1>2. Len(remote[s]) \in Nat /\ DOMAIN remote[s] = 1..Len(remote[s])
  BY FetchedType
<1>3. f \in [1..Len(remote[s]) -> lane[s].batch]
  BY <1>1, <1>2
<1>4. \A k, l \in 1..Len(remote[s]) : f[k] = f[l] => k = l
  BY <1>1, <1>2
<1>5. \A k \in DOMAIN remote[s] : f[k] = remote[s][k].place
  OBVIOUS
<1> HIDE DEF f
<1>6. /\ Len(remote[s]) <= Cardinality(lane[s].batch)
      /\ Len(remote[s]) >= Cardinality(lane[s].batch) =>
           \A x \in lane[s].batch : \E k \in 1..Len(remote[s]) : f[k] = x
  BY <1>2, <1>3, <1>4, BatchFinite, PigeonHole
<1> QED
  BY <1>1, <1>2, <1>5, <1>6

\* The results of a completed batch are those of all its emails.
LEMMA FetchedBatch ==
  ASSUME TypeOK, LaneInv, RemoteInv, duplicates = 0, NEW s \in Servers,
         lane[s].pc = "fetching", NEW p \in lane[s].batch
  PROVE  assignments[p].email \in EmailsIn(Fetched(s))
<1>1. lane[s].pc \in Busy
  BY DEF Busy
<1>2. PICK k \in DOMAIN remote[s] : remote[s][k].place = p
  BY <1>1, RemoteBound
<1>3. k \in DOMAIN Fetched(s) /\ Fetched(s)[k].email = assignments[p].email
  BY <1>1, <1>2, FetchedType DEF Fetched
<1> QED
  BY <1>3 DEF EmailsIn

LEMMA FetchedAll ==
  ASSUME TypeOK, LaneInv, RemoteInv, duplicates = 0, NEW s \in Servers,
         lane[s].pc = "fetching", InsertResults(Fetched(s))
  PROVE  /\ EmailsIn(rows) \subseteq EmailsIn(rows')
         /\ \A p \in lane[s].batch : assignments[p].email \in EmailsIn(rows')
<1>1. lane[s].pc \in Busy
  BY DEF Busy
<1>2. Len(Fetched(s)) \in Nat /\ DOMAIN Fetched(s) = 1..Len(Fetched(s))
  BY <1>1, FetchedType
<1>3. EmailsIn(rows) \subseteq EmailsIn(rows') /\ EmailsIn(Fetched(s)) \subseteq EmailsIn(rows')
  BY <1>2, InsertedEmails
<1>4. \A p \in lane[s].batch : assignments[p].email \in EmailsIn(Fetched(s))
  BY FetchedBatch
<1> QED
  BY <1>3, <1>4

\* What was given up stays so: no step takes a failed subjob back.
LEMMA GivenUpStays ==
  ASSUME \A i \in DOMAIN subjobs : subjobs[i].status = "failed" =>
           /\ i \in DOMAIN subjobs' /\ subjobs'[i].status = "failed"
           /\ subjobs'[i].emails = subjobs[i].emails
  PROVE  GivenUp \subseteq GivenUp'
<1> SUFFICES ASSUME NEW e \in GivenUp
             PROVE  e \in GivenUp'
  OBVIOUS
<1>1. PICK i \in DOMAIN subjobs : subjobs[i].status = "failed" /\ e \in subjobs[i].emails
  BY DEF GivenUp
<1> QED
  BY <1>1 DEF GivenUp

LEMMA LaneGivesUp ==
  ASSUME TypeOK, LaneInv, NEW s \in Servers, LaneGoes(s) \/ Fetch(s) \/ BatchFails(s)
  PROVE  GivenUp \subseteq GivenUp'
<1>1. CASE Submit(s)
  BY <1>1, SubmitStep, GivenUpStays
<1>2. CASE EndPacing(s)
  BY <1>2 DEF EndPacing, tables, GivenUp
<1>3. CASE Accepted(s) \/ Poll(s) \/ Fetch(s) \/ BatchFails(s)
  <2>1. lane[s].pc \in Busy /\ OnlySubjob(lane[s].sub)
    BY <1>3, AcceptedStep, PollStep, FetchStep, FailStep DEF Busy
  <2>2. subjobs[lane[s].sub].status # "failed"
    BY <2>1 DEF LaneInv, LaneOK, Busy, StatusAt
  <2> QED
    BY <2>1, <2>2, GivenUpStays DEF OnlySubjob
<1> QED
  BY <1>1, <1>2, <1>3 DEF LaneGoes

LEMMA CoverStays ==
  ASSUME CoverInv, UNCHANGED <<rows, assignments, phase, status>>, GivenUp \subseteq GivenUp',
         duplicates' = 0 => duplicates = 0, ToStore' = ToStore
  PROVE  CoverInv'
  BY DEF CoverInv

LEMMA CoverFetch ==
  ASSUME TypeOK, LaneInv, RemoteInv, CoverInv, JobInv, NEW s \in Servers, Fetch(s)
  PROVE  CoverInv'
<1> USE DEF job, history
<1>1. /\ lane[s].pc = "fetching" /\ InsertResults(Fetched(s))
      /\ UNCHANGED <<phase, status, assignments, duplicates>>
  BY DEF Fetch
<1>2. phase = "round" /\ status \notin Ended
  BY <1>1 DEF LaneInv, LaneOK, Idle, JobInv
<1>3. GivenUp \subseteq GivenUp'
  BY LaneGivesUp
<1> SUFFICES ASSUME duplicates = 0, NEW e \in Emails
             PROVE  \/ e \in EmailsIn(rows') \union GivenUp'
                    \/ \E p \in ToStore' : assignments[p].email = e
  BY <1>1, <1>2 DEF CoverInv, Ended
<1>4. CASE e \in EmailsIn(rows) \union GivenUp
  BY <1>1, <1>3, <1>4, FetchedAll
<1>5. CASE e \notin EmailsIn(rows) \union GivenUp
  <2>1. PICK p \in ToStore : assignments[p].email = e
    BY <1>2, <1>5 DEF CoverInv
  <2>2. p \in ToStore' \/ p \in lane[s].batch
    BY <2>1, FetchStep, ToStoreLeaves
  <2> QED
    BY <1>1, <2>1, <2>2, FetchedAll
<1> QED
  BY <1>4, <1>5

\* The emails of a batch that fails are given up.
LEMMA CoverFails ==
  ASSUME TypeOK, LaneInv, CoverInv, JobInv, NEW s \in Servers, BatchFails(s)
  PROVE  CoverInv'
<1> USE DEF results, job
<1>1. /\ lane[s].pc \in Busy /\ OnlyLane(s) /\ Leaves(s)
      /\ OnlySubjob(lane[s].sub) /\ subjobs'[lane[s].sub].status = "failed"
  BY FailStep
<1>2. UNCHANGED <<rows, phase, status, assignments, duplicates>>
  BY DEF BatchFails
<1>3. phase = "round" /\ status \notin Ended
  BY <1>1 DEF LaneInv, LaneOK, Idle, Busy, JobInv
<1>4. GivenUp \subseteq GivenUp'
  BY LaneGivesUp
<1>5. ASSUME NEW p \in lane[s].batch
      PROVE  assignments[p].email \in GivenUp'
  <2>1. /\ lane[s].sub \in DOMAIN subjobs
        /\ subjobs[lane[s].sub].emails = {assignments[q].email : q \in lane[s].batch}
    BY <1>1 DEF LaneInv, LaneOK
  <2>2. lane[s].sub \in DOMAIN subjobs' /\ assignments[p].email \in subjobs'[lane[s].sub].emails
    BY <1>1, <2>1 DEF OnlySubjob
  <2> QED
    BY <1>1, <2>2 DEF GivenUp
<1> SUFFICES ASSUME duplicates = 0, NEW e \in Emails
             PROVE  \/ e \in EmailsIn(rows) \union GivenUp'
                    \/ \E p \in ToStore' : assignments[p].email = e
  BY <1>2, <1>3 DEF CoverInv, Ended
<1>6. CASE e \in EmailsIn(rows) \union GivenUp
  BY <1>4, <1>6
<1>7. CASE e \notin EmailsIn(rows) \union GivenUp
  <2>1. PICK p \in ToStore : assignments[p].email = e
    BY <1>3, <1>7 DEF CoverInv
  <2>2. p \in ToStore' \/ p \in lane[s].batch
    BY <1>1, <2>1, ToStoreLeaves
  <2> QED
    BY <1>5, <2>1, <2>2
<1> QED
  BY <1>6, <1>7

LEMMA CoverNext ==
  ASSUME TypeOK, JobInv, LaneInv, RemoteInv, CoverInv, [Next]_vars
  PROVE  CoverInv'
<1> USE DEF results, tables, job, history
<1>1. phase # "round" => \A s \in Servers : lane[s].pc = "idle" /\ lane[s] = Idle
  BY DEF LaneInv, LaneOK, Idle
<1>2. (lane' = lane => ToStore' = ToStore) /\ (subjobs' = subjobs => GivenUp' = GivenUp)
  BY DEF ToStore, GivenUp
<1>3. CASE WaiterAnswers \/ WaiterTimesOut \/ UNCHANGED vars
  BY <1>2, <1>3, CoverStays DEF WaiterAnswers, WaiterTimesOut, vars
<1>4. CASE CreateJob
  BY <1>4 DEF CreateJob, CoverInv, JobInv
<1>5. CASE RunJob
  <2>1. Dispatch(FirstAssignments) /\ phase' = "round" /\ status' = "running"
    BY <1>5 DEF RunJob, Dispatch
  <2>2. ASSUME NEW e \in Emails
        PROVE  e \in ToStore' /\ assignments'[e].email = e
    <3>1. e \in DOMAIN FirstAssignments /\ FirstAssignments[e].email = e
          /\ FirstAssignments[e].server \in Servers
      <4>1. (e - 1) % NumServers \in Servers
        BY ModRange DEF Emails
      <4> QED
        BY <4>1 DEF FirstAssignments
    <3>2. PICK s \in Servers : e \in PlacesOf(FirstAssignments, s)
      BY <3>1 DEF PlacesOf
    <3>3. lane'[s].todo = PlacesOf(FirstAssignments, s) /\ assignments' = FirstAssignments
      BY <2>1, FirstType, DispatchStep
    <3> QED
      BY <3>1, <3>2, <3>3 DEF ToStore
  <2> QED
    BY <2>1, <2>2 DEF CoverInv
<1>6. CASE WakeUp
  <2>1. phase = "waiting" /\ phase' = "round" /\ UNCHANGED <<rows, subjobs, status, duplicates>>
    BY <1>6 DEF WakeUp, Dispatch
  <2>2. status # "completed"
    BY <2>1 DEF JobInv, Ended
  <2> QED
    BY <1>2, <2>1, <2>2 DEF CoverInv
<1>7. CASE EndRound \/ CallApify
  <2>1. /\ phase = "round" /\ \A s \in Servers : lane[s].pc = "idle"
        /\ UNCHANGED <<rows, subjobs, duplicates>> /\ phase' # "round"
    BY <1>7 DEF EndRound, CallApify, RoundDone, RetryRound
  <2>2. ToStore = {}
    BY <2>1 DEF ToStore, LaneInv, LaneOK, Idle
  <2>3. duplicates = 0 => Emails \subseteq EmailsIn(rows) \union GivenUp
    BY <2>1, <2>2 DEF CoverInv
  <2> QED
    BY <1>2, <2>1, <2>3 DEF CoverInv
<1>8. CASE ApifyFails \/ ApifyRaises
  <2>1. /\ phase = "apify" /\ UNCHANGED <<rows, subjobs, duplicates>> /\ phase' # "round"
    BY <1>8 DEF ApifyFails, ApifyRaises, RetryRound
  <2> QED
    BY <1>2, <2>1 DEF CoverInv
<1>9. CASE ApifyAnswers
  <2>1. /\ phase = "apify" /\ UNCHANGED <<subjobs, duplicates>> /\ phase' = "none"
    BY <1>9 DEF ApifyAnswers
  <2>2. PICK items \in ApifyItems : InsertResults(items)
    BY <1>9 DEF ApifyAnswers
  <2>3. EmailsIn(rows) \subseteq EmailsIn(rows')
    BY <2>2, ItemsType, InsertedEmails
  <2> QED
    BY <1>2, <2>1, <2>3 DEF CoverInv
<1>10. ASSUME NEW s \in Servers, LaneGoes(s)
       PROVE  CoverInv'
  <2>1. UNCHANGED <<rows, assignments, phase, status, duplicates>>
    BY <1>10 DEF LaneGoes, Submit, Accepted, EndPacing, Poll
  <2> QED
    BY <1>10, <2>1, LaneGivesUp, ToStoreGoes, CoverStays
<1>11. ASSUME NEW s \in Servers, BatchFails(s)
       PROVE  CoverInv'
  BY <1>11, CoverFails
<1>12. ASSUME NEW s \in Servers, Fetch(s)
       PROVE  CoverInv'
  BY <1>12, CoverFetch
<1>13. ASSUME Sweep
       PROVE  CoverInv'
  <2>1. phase # "none" /\ phase' = "none"
        /\ status' = IF status \in {"queued", "running", "retrying"} THEN "failed" ELSE status
    BY <1>13 DEF Sweep
  <2>2. status' # "completed"
    BY <2>1 DEF JobInv, Ended
  <2> QED
    BY <2>1, <2>2 DEF CoverInv
<1>14. ASSUME NEW s \in Servers, RestartAfterInsert(s)
       PROVE  CoverInv'
  BY <1>13, <1>14 DEF RestartAfterInsert
<1>15. CASE Restart \/ RestartAfterApify
  BY <1>13, <1>15 DEF Restart, RestartAfterApify
<1>16. ASSUME NEW s \in Servers, NEW v \in Verdicts, NEW p \in lane[s].batch, RemoteStores(s, p, v)
       PROVE  CoverInv'
  <2>1. UNCHANGED <<rows, subjobs, assignments, phase, status, lane>>
        /\ (duplicates' = 0 => duplicates = 0)
    BY <1>16, RemoteStoresStep DEF RemoteStores
  <2> QED
    BY <1>2, <2>1, CoverStays
<1> HIDE DEF results, tables, job, history
<1> QED
  BY <1>3, <1>4, <1>5, <1>6, <1>7, <1>8, <1>9, <1>10, <1>11, <1>12, <1>14, <1>15, <1>16
     DEF Next, Job, Apify, Lane, LaneGoes

-----------------------------------------------------------------------------
(* The batches that say completed.                                         *)

Stored(i) ==
  subjobs[i].status = "completed" =>
    \/ subjobs[i].emails \subseteq EmailsIn(rows)
    \/ \E s \in Servers : lane[s].sub = i /\ lane[s].pc = "fetching"

LEMMA StoredParts ==
  CompletedBatchIsStored <=>
    (duplicates = 0 /\ (crashes = 0 \/ status # "failed") => \A i \in DOMAIN subjobs : Stored(i))
  BY DEF CompletedBatchIsStored, Stored

\* A subjob that a step of the lane s leaves alone.
LEMMA StoredOther ==
  ASSUME NEW s \in Servers, OnlyLane(s), EmailsIn(rows) \subseteq EmailsIn(rows'),
         NEW k \in DOMAIN subjobs, Stored(k), subjobs'[k] = subjobs[k],
         lane[s].pc # "fetching" \/ lane[s].sub # k
  PROVE  Stored(k)'
<1> SUFFICES ASSUME subjobs[k].status = "completed", ~ (subjobs[k].emails \subseteq EmailsIn(rows'))
             PROVE  \E u \in Servers : lane'[u].sub = k /\ lane'[u].pc = "fetching"
  BY DEF Stored
<1>1. PICK u \in Servers : lane[u].sub = k /\ lane[u].pc = "fetching"
  BY DEF Stored
<1>2. u # s
  BY <1>1
<1> QED
  BY <1>1, <1>2 DEF OnlyLane

LEMMA StoredNext ==
  ASSUME TypeOK, JobInv, LaneInv, RemoteInv, CompletedBatchIsStored, [Next]_vars
  PROVE  CompletedBatchIsStored'
<1> USE DEF results, tables, job, history
<1>1. ASSUME UNCHANGED <<subjobs, lane, crashes>>, duplicates' = 0 => duplicates = 0,
             crashes = 0 \/ (status' # "failed" => status # "failed"),
             EmailsIn(rows) \subseteq EmailsIn(rows')
      PROVE  CompletedBatchIsStored'
  BY <1>1 DEF CompletedBatchIsStored
<1>2. rows' = rows => EmailsIn(rows) \subseteq EmailsIn(rows')
  OBVIOUS
<1>14. crashes = 0 \/ phase # "none" \/ status = "none" => crashes = 0 \/ status # "failed"
  BY DEF JobInv, Ended
<1>3. CASE \/ CreateJob \/ EndRound \/ CallApify \/ ApifyFails \/ ApifyRaises
           \/ WaiterAnswers \/ WaiterTimesOut \/ UNCHANGED vars
  <2>1. /\ UNCHANGED <<subjobs, lane, crashes, duplicates, rows>>
        /\ phase # "none" \/ status = "none" \/ status' = status
    BY <1>3
       DEF CreateJob, EndRound, CallApify, RoundDone, ApifyFails, ApifyRaises, WaiterAnswers,
           WaiterTimesOut, vars
  <2> QED
    BY <1>1, <1>2, <1>14, <2>1
<1>4. CASE RunJob \/ WakeUp
  <2>1. phase \notin {"none", "round"} /\ UNCHANGED <<subjobs, rows, crashes, duplicates>>
    BY <1>4 DEF RunJob, WakeUp
  <2>2. \A s \in Servers : lane[s].pc # "fetching"
    BY <2>1 DEF LaneInv, LaneOK, Idle
  <2> QED
    BY <1>14, <2>1, <2>2 DEF CompletedBatchIsStored
<1>5. CASE ApifyAnswers
  <2>1. PICK items \in ApifyItems : InsertResults(items)
    BY <1>5 DEF ApifyAnswers
  <2>2. EmailsIn(rows) \subseteq EmailsIn(rows')
    BY <2>1, ItemsType, InsertedEmails
  <2> QED
    BY <1>1, <1>5, <1>14, <2>2 DEF ApifyAnswers
<1>6. ASSUME NEW s \in Servers, Submit(s)
      PROVE  CompletedBatchIsStored'
  <2> DEFINE n == Len(subjobs) + 1
  <2>1. subjobs'[n] = [server |-> s, emails |-> {assignments[p].email : p \in NextBatch(s)},
                       total |-> Cardinality(NextBatch(s)), processed |-> 0,
                       status |-> "submitting"]
    BY <1>6, SubmitStep
  <2>2. /\ OnlyLane(s) /\ lane[s].pc = "ready" /\ DOMAIN subjobs' = DOMAIN subjobs \union {n}
        /\ \A k \in DOMAIN subjobs : subjobs'[k] = subjobs[k]
    BY <1>6, SubmitStep
  <2>3. UNCHANGED <<rows, status, crashes, duplicates>>
    BY <1>6 DEF Submit
  <2> HIDE DEF n
  <2> SUFFICES ASSUME duplicates = 0, crashes = 0 \/ status # "failed", NEW k \in DOMAIN subjobs'
               PROVE  Stored(k)'
    BY <2>3 DEF CompletedBatchIsStored, Stored
  <2>4. CASE k = n
    BY <2>1, <2>4 DEF Stored
  <2>5. CASE k \in DOMAIN subjobs
    <3>1. Stored(k)
      BY <2>5, StoredParts
    <3> QED
      BY <1>2, <2>2, <2>3, <2>5, <3>1, StoredOther
  <2> QED
    BY <2>2, <2>4, <2>5
<1>7. ASSUME NEW s \in Servers, Accepted(s) \/ BatchFails(s) \/ Poll(s)
      PROVE  CompletedBatchIsStored'
  <2>1. /\ OnlyLane(s) /\ lane[s].pc \in Busy /\ OnlySubjob(lane[s].sub)
        /\ subjobs'[lane[s].sub].status = "completed" =>
             lane'[s].sub = lane[s].sub /\ lane'[s].pc = "fetching"
    <3>1. CASE Accepted(s)
      BY <3>1, AcceptedStep DEF Busy
    <3>2. CASE BatchFails(s)
      BY <3>2, FailStep
    <3>3. CASE Poll(s)
      <4>1. /\ OnlyLane(s) /\ lane[s].pc = "polling" /\ OnlySubjob(lane[s].sub)
            /\ GoesOn(s, IF RemoteCompleted(s) THEN "fetching" ELSE "polling")
            /\ subjobs'[lane[s].sub].status = IF RemoteCompleted(s) THEN "completed" ELSE "running"
        BY <3>3, PollStep
      <4> QED
        BY <4>1 DEF Busy, GoesOn
    <3> QED
      BY <1>7, <3>1, <3>2, <3>3
  <2>2. UNCHANGED <<rows, status, crashes, duplicates>>
    BY <1>7 DEF Accepted, BatchFails, Poll
  <2> SUFFICES ASSUME duplicates = 0, crashes = 0 \/ status # "failed", NEW k \in DOMAIN subjobs'
               PROVE  Stored(k)'
    BY <2>2 DEF CompletedBatchIsStored, Stored
  <2>3. CASE k = lane[s].sub
    BY <2>1, <2>3 DEF Stored
  <2>4. CASE k # lane[s].sub
    <3>1. k \in DOMAIN subjobs /\ subjobs'[k] = subjobs[k]
      BY <2>1, <2>4 DEF OnlySubjob
    <3>2. Stored(k)
      BY <3>1, StoredParts
    <3> QED
      BY <1>2, <2>1, <2>2, <2>4, <3>1, <3>2, StoredOther
  <2> QED
    BY <2>3, <2>4
<1>8. ASSUME NEW s \in Servers, EndPacing(s)
      PROVE  CompletedBatchIsStored'
  <2>1. OnlyLane(s) /\ lane[s].pc = "pacing" /\ UNCHANGED <<subjobs, rows, status, crashes, duplicates>>
    BY <1>8, GoesOnIf DEF EndPacing, Goto
  <2> QED
    BY <1>2, <2>1, StoredOther, StoredParts DEF CompletedBatchIsStored, Stored
<1>9. ASSUME NEW s \in Servers, Fetch(s)
      PROVE  CompletedBatchIsStored'
  <2>1. /\ lane[s].pc = "fetching" /\ InsertResults(Fetched(s)) /\ UNCHANGED <<status, crashes, duplicates>>
    BY <1>9 DEF Fetch
  <2>2. OnlyLane(s) /\ OnlySubjob(lane[s].sub)
    BY <1>9, FetchStep
  <2>3. subjobs[lane[s].sub].emails = {assignments[p].email : p \in lane[s].batch}
    BY <2>1 DEF LaneInv, LaneOK, Busy
  <2> SUFFICES ASSUME duplicates = 0, crashes = 0 \/ status # "failed", NEW k \in DOMAIN subjobs'
               PROVE  Stored(k)'
    BY <2>1 DEF CompletedBatchIsStored, Stored
  <2>4. /\ EmailsIn(rows) \subseteq EmailsIn(rows')
        /\ \A p \in lane[s].batch : assignments[p].email \in EmailsIn(rows')
    BY <2>1, FetchedAll
  <2>5. CASE k = lane[s].sub
    BY <2>2, <2>3, <2>4, <2>5 DEF Stored, OnlySubjob
  <2>6. CASE k # lane[s].sub
    <3>1. k \in DOMAIN subjobs /\ subjobs'[k] = subjobs[k]
      BY <2>2, <2>6 DEF OnlySubjob
    <3>2. Stored(k)
      BY <3>1, StoredParts
    <3> QED
      BY <2>2, <2>4, <2>6, <3>1, <3>2, StoredOther
  <2> QED
    BY <2>5, <2>6
<1>10. ASSUME Sweep
       PROVE  CompletedBatchIsStored'
  <2>1. crashes \in Nat /\ crashes' = crashes + 1 /\ phase # "none"
        /\ status' = IF status \in {"queued", "running", "retrying"} THEN "failed" ELSE status
    BY <1>10 DEF Sweep, TypeOK
  <2>2. status' = "failed"
    BY <2>1 DEF JobInv, Ended, TypeOK
  <2> QED
    BY <2>1, <2>2 DEF CompletedBatchIsStored
<1>11. ASSUME NEW s \in Servers, RestartAfterInsert(s)
       PROVE  CompletedBatchIsStored'
  BY <1>10, <1>11 DEF RestartAfterInsert
<1>12. CASE Restart \/ RestartAfterApify
  BY <1>10, <1>12 DEF Restart, RestartAfterApify
<1>13. ASSUME NEW s \in Servers, NEW v \in Verdicts, NEW p \in lane[s].batch, RemoteStores(s, p, v)
       PROVE  CompletedBatchIsStored'
  <2>1. UNCHANGED <<rows, subjobs, lane, status, crashes>> /\ (duplicates' = 0 => duplicates = 0)
    BY <1>13, RemoteStoresStep DEF RemoteStores
  <2> QED
    BY <1>1, <1>2, <2>1
<1> HIDE DEF results, tables, job, history
<1> QED
  BY <1>3, <1>4, <1>5, <1>6, <1>7, <1>8, <1>9, <1>11, <1>12, <1>13 DEF Next, Job, Apify, Lane

-----------------------------------------------------------------------------
(* The jobs that say completed.                                            *)

LEMMA RetryExhausts ==
  ASSUME TypeOK, RetryRound(attempt + 1), rows' = rows
  PROVE  ExhaustedInv'
<1>1. Unknowns' = Unknowns
  BY DEF Unknowns, WithVerdict
<1>2. attempt \in 0..Attempts
  BY DEF TypeOK
<1> QED
  BY <1>1, <1>2 DEF RetryRound, ExhaustedInv

LEMMA ExhaustedNext ==
  ASSUME TypeOK, JobInv, LaneInv, ExhaustedInv, [Next]_vars
  PROVE  ExhaustedInv'
<1> USE DEF results, tables, job, history
<1>1. ASSUME UNCHANGED <<status, rows, attempt, apify>>
      PROVE  ExhaustedInv'
  BY <1>1 DEF ExhaustedInv, Unknowns, WithVerdict
<1>2. ASSUME status' # "completed"
      PROVE  ExhaustedInv'
  BY <1>2 DEF ExhaustedInv
<1>3. ASSUME NEW s \in Servers, lane[s].pc # "idle"
      PROVE  phase = "round" /\ status \notin Ended
  BY <1>3 DEF LaneInv, LaneOK, Idle, JobInv
<1>4. CASE CreateJob
  BY <1>2, <1>4 DEF CreateJob
<1>5. CASE RunJob \/ ApifyRaises
  BY <1>2, <1>5 DEF RunJob, ApifyRaises
<1>6. CASE EndRound
  BY <1>6, RetryExhausts DEF EndRound
<1>7. CASE CallApify
  <2>1. Unknowns' = Unknowns
    BY <1>7 DEF CallApify, Unknowns, WithVerdict
  <2> QED
    BY <1>7, <2>1 DEF CallApify, ExhaustedInv
<1>8. CASE ApifyAnswers
  BY <1>8 DEF ApifyAnswers, ExhaustedInv
<1>9. CASE ApifyFails
  <2>1. attempt = 0 /\ 1 = attempt + 1
    BY <1>9 DEF ApifyFails, JobInv
  <2> QED
    BY <1>9, <2>1, RetryExhausts DEF ApifyFails
<1>10. CASE WakeUp
  BY <1>1, <1>10 DEF WakeUp
<1>11. ASSUME NEW s \in Servers, LaneGoes(s) \/ BatchFails(s) \/ Fetch(s)
       PROVE  ExhaustedInv'
  <2>1. lane[s].pc # "idle" /\ status' = status
    BY <1>11 DEF LaneGoes, Submit, Accepted, EndPacing, Poll, BatchFails, Fetch, Goto
  <2> QED
    BY <1>2, <1>3, <2>1 DEF Ended
<1>12. ASSUME Sweep
       PROVE  ExhaustedInv'
  <2>1. phase # "none"
        /\ status' = IF status \in {"queued", "running", "retrying"} THEN "failed" ELSE status
    BY <1>12 DEF Sweep
  <2> QED
    BY <1>2, <2>1 DEF JobInv, Ended
<1>13. ASSUME NEW s \in Servers, RestartAfterInsert(s)
       PROVE  ExhaustedInv'
  BY <1>12, <1>13 DEF RestartAfterInsert
<1>14. CASE Restart \/ RestartAfterApify
  BY <1>12, <1>14 DEF Restart, RestartAfterApify
<1>15. ASSUME NEW s \in Servers, NEW v \in Verdicts, NEW p \in lane[s].batch, RemoteStores(s, p, v)
       PROVE  ExhaustedInv'
  BY <1>1, <1>15 DEF RemoteStores
<1>16. CASE WaiterAnswers \/ WaiterTimesOut \/ UNCHANGED vars
  BY <1>1, <1>16 DEF WaiterAnswers, WaiterTimesOut, vars
<1> HIDE DEF results, tables, job, history
<1> QED
  BY <1>4, <1>5, <1>6, <1>7, <1>8, <1>9, <1>10, <1>11, <1>13, <1>14, <1>15, <1>16
     DEF Next, Job, Apify, Lane, LaneGoes

-----------------------------------------------------------------------------
(* The progress that is shown.                                             *)

\* The progress of the tables grows with that of their subjobs and with the emails
\* that have a row.
LEMMA TicksGrow ==
  ASSUME NEW subs \in Seq(Subjobs), NEW more \in Seq(Subjobs),
         \A k \in DOMAIN subs : k \in DOMAIN more /\ subs[k].processed <= more[k].processed
  PROVE  Ticks(subs, DOMAIN subs) <= Ticks(more, DOMAIN more)
<1>1. ASSUME NEW k \in DOMAIN subs
      PROVE  1..subs[k].processed \subseteq 1..more[k].processed
  <2>1. subs[k] \in Subjobs /\ more[k] \in Subjobs
    OBVIOUS
  <2>2. subs[k].processed \in Nat /\ more[k].processed \in Nat
    BY <2>1 DEF Subjobs
  <2> QED
    BY <2>2
<1>2. TickSet(subs, DOMAIN subs) \subseteq TickSet(more, DOMAIN more)
  <2> SUFFICES ASSUME NEW k \in DOMAIN subs, NEW t \in {k} \X (1..subs[k].processed)
               PROVE  t \in {k} \X (1..more[k].processed)
    BY DEF TickSet
  <2> QED
    BY <1>1
<1>3. IsFiniteSet(TickSet(more, DOMAIN more))
  BY TicksType
<1> QED
  BY <1>2, <1>3, FS_Subset DEF Ticks, TickSet

LEMMA RowsCount ==
  ASSUME NEW rs, IsFiniteSet(DOMAIN rs)
  PROVE  /\ IsFiniteSet(EmailsIn(rs)) /\ Cardinality(EmailsIn(rs)) <= Cardinality(DOMAIN rs)
         /\ (\A i, j \in DOMAIN rs : rs[i].email = rs[j].email => i = j) =>
              Cardinality(DOMAIN rs) <= Cardinality(EmailsIn(rs))
<1> DEFINE f == [i \in DOMAIN rs |-> rs[i].email]
<1>1. /\ f = [i \in DOMAIN rs |-> f[i]] /\ {f[i] : i \in DOMAIN rs} = EmailsIn(rs)
      /\ f \in [DOMAIN rs -> EmailsIn(rs)] /\ \A i \in DOMAIN rs : f[i] = rs[i].email
  BY DEF EmailsIn
<1> HIDE DEF f
<1>2. IsFiniteSet(EmailsIn(rs)) /\ Cardinality(EmailsIn(rs)) <= Cardinality(DOMAIN rs)
  <2>1. /\ IsFiniteSet({f[i] : i \in DOMAIN rs})
        /\ Cardinality({f[i] : i \in DOMAIN rs}) <= Cardinality(DOMAIN rs)
    BY <1>1, FiniteImage
  <2> QED
    BY <1>1, <2>1
<1>3. ASSUME \A i, j \in DOMAIN rs : rs[i].email = rs[j].email => i = j
      PROVE  Cardinality(DOMAIN rs) <= Cardinality(EmailsIn(rs))
  <2>1. f \in Injection(DOMAIN rs, EmailsIn(rs))
    BY <1>1, <1>3 DEF Injection, IsInjective
  <2> QED
    BY <1>2, <2>1, FS_Injection
<1> QED
  BY <1>2, <1>3

LEMMA RowsGrow ==
  ASSUME TypeOK, RowsType', OneRow, EmailsIn(rows) \subseteq EmailsIn(rows')
  PROVE  Cardinality(DOMAIN rows) <= Cardinality(DOMAIN rows')
<1>1. last_id \in Nat /\ DOMAIN rows \subseteq 1..last_id
  BY DEF TypeOK
<1>2. last_id' \in Nat /\ DOMAIN rows' \subseteq 1..last_id'
  BY DEF RowsType
<1>3. /\ IsFiniteSet(DOMAIN rows) /\ Cardinality(DOMAIN rows) \in Nat
      /\ IsFiniteSet(DOMAIN rows') /\ Cardinality(DOMAIN rows') \in Nat
  BY <1>1, <1>2, RowsFinite
<1>4. /\ Cardinality(DOMAIN rows) <= Cardinality(EmailsIn(rows))
      /\ IsFiniteSet(EmailsIn(rows))
  BY <1>3, RowsCount DEF OneRow
<1>5. /\ IsFiniteSet(EmailsIn(rows'))
      /\ Cardinality(EmailsIn(rows')) <= Cardinality(DOMAIN rows')
  BY <1>3, RowsCount
<1>6. Cardinality(EmailsIn(rows)) <= Cardinality(EmailsIn(rows'))
  BY <1>5, FS_Subset
<1>7. Cardinality(EmailsIn(rows)) \in Nat /\ Cardinality(EmailsIn(rows')) \in Nat
  BY <1>4, <1>5, FS_CardinalityType
<1> QED
  BY <1>3, <1>4, <1>5, <1>6, <1>7

TableProgress == Refreshed(subjobs, rows).processed

LEMMA ProgressGrows ==
  ASSUME TypeOK, TypeOK', OneRow, EmailsIn(rows) \subseteq EmailsIn(rows'),
         \A k \in DOMAIN subjobs : k \in DOMAIN subjobs' /\ subjobs[k].processed <= subjobs'[k].processed
  PROVE  TableProgress <= TableProgress'
<1>1. subjobs \in Seq(Subjobs) /\ subjobs' \in Seq(Subjobs) /\ RowsType'
  BY DEF TypeOK, RowsType
<1>2. Ticks(subjobs, DOMAIN subjobs) <= Ticks(subjobs', DOMAIN subjobs')
  BY <1>1, TicksGrow
<1>3. Cardinality(DOMAIN rows) <= Cardinality(DOMAIN rows')
  BY <1>1, RowsGrow
<1>4. Ticks(subjobs, DOMAIN subjobs) \in Nat /\ Ticks(subjobs', DOMAIN subjobs') \in Nat
  BY <1>1, TicksType
<1>5. Cardinality(DOMAIN rows) \in Nat /\ Cardinality(DOMAIN rows') \in Nat
  <2>1. /\ last_id \in Nat /\ DOMAIN rows \subseteq 1..last_id
        /\ last_id' \in Nat /\ DOMAIN rows' \subseteq 1..last_id'
    BY <1>1 DEF TypeOK, RowsType
  <2> QED
    BY <2>1, RowsFinite
<1> DEFINE t == Ticks(subjobs, DOMAIN subjobs)
           u == Ticks(subjobs', DOMAIN subjobs')
           c == Cardinality(DOMAIN rows)
           d == Cardinality(DOMAIN rows')
<1>6. /\ TableProgress = Min2(NumEmails, Max2(t, c))
      /\ TableProgress' = Min2(NumEmails, Max2(u, d))
  BY DEF TableProgress, Refreshed
<1>7. t \in Nat /\ u \in Nat /\ c \in Nat /\ d \in Nat /\ t <= u /\ c <= d
  BY <1>2, <1>3, <1>4, <1>5
<1> HIDE DEF t, u, c, d
<1> QED
  BY <1>6, <1>7 DEF Min2, Max2

\* The tables of a step, as far as they matter to the progress.
TablesGrow ==
  /\ EmailsIn(rows) \subseteq EmailsIn(rows')
  /\ \A k \in DOMAIN subjobs : k \in DOMAIN subjobs' /\ subjobs[k].processed <= subjobs'[k].processed

LEMMA SubjobGrows ==
  ASSUME TypeOK, NEW i, OnlySubjob(i), subjobs[i].processed <= subjobs'[i].processed
  PROVE  \A k \in DOMAIN subjobs : k \in DOMAIN subjobs' /\ subjobs[k].processed <= subjobs'[k].processed
<1> SUFFICES ASSUME NEW k \in DOMAIN subjobs
             PROVE  k \in DOMAIN subjobs' /\ subjobs[k].processed <= subjobs'[k].processed
  OBVIOUS
<1>1. subjobs[k].processed \in Nat /\ subjobs[k].processed <= subjobs[k].processed
  BY SubjobParts
<1> QED
  BY <1>1 DEF OnlySubjob

LEMMA GrowsNext ==
  ASSUME TypeOK, LaneInv, RemoteInv, duplicates = 0, [Next]_vars
  PROVE  TablesGrow
<1> USE DEF results, tables, job, history
<1>0. \A k \in DOMAIN subjobs : subjobs[k].processed <= subjobs[k].processed
  <2>1. \A k \in DOMAIN subjobs : subjobs[k].processed \in Nat
    BY SubjobParts
  <2> QED
    BY <2>1
<1>1. ASSUME UNCHANGED <<subjobs, rows>>
      PROVE  TablesGrow
  BY <1>0, <1>1 DEF TablesGrow
<1>2. CASE \/ CreateJob \/ RunJob \/ EndRound \/ CallApify \/ ApifyFails \/ ApifyRaises
           \/ WakeUp \/ WaiterAnswers \/ WaiterTimesOut \/ UNCHANGED vars
  BY <1>1, <1>2 DEF CreateJob, RunJob, EndRound, CallApify, ApifyFails, ApifyRaises, WakeUp,
                    WaiterAnswers, WaiterTimesOut, vars
<1>3. CASE ApifyAnswers
  <2>1. PICK items \in ApifyItems : InsertResults(items)
    BY <1>3 DEF ApifyAnswers
  <2>2. EmailsIn(rows) \subseteq EmailsIn(rows')
    BY <2>1, ItemsType, InsertedEmails
  <2> QED
    BY <1>0, <1>3, <2>2 DEF ApifyAnswers, TablesGrow
<1>4. ASSUME NEW s \in Servers, Submit(s)
      PROVE  TablesGrow
  <2>1. /\ DOMAIN subjobs' = DOMAIN subjobs \union {Len(subjobs) + 1}
        /\ \A k \in DOMAIN subjobs : subjobs'[k] = subjobs[k]
    BY <1>4, SubmitStep
  <2>2. rows' = rows
    BY <1>4 DEF Submit
  <2> QED
    BY <1>0, <2>1, <2>2 DEF TablesGrow
<1>5. ASSUME NEW s \in Servers, Accepted(s) \/ BatchFails(s)
      PROVE  TablesGrow
  <2>1. /\ OnlySubjob(lane[s].sub)
        /\ subjobs'[lane[s].sub].processed = subjobs[lane[s].sub].processed
    BY <1>5, AcceptedStep, FailStep
  <2>2. rows' = rows
    BY <1>5 DEF Accepted, BatchFails
  <2> QED
    BY <1>0, <2>1, <2>2, SubjobGrows DEF TablesGrow, OnlySubjob
<1>6. ASSUME NEW s \in Servers, Poll(s)
      PROVE  TablesGrow
  <2>1. /\ OnlySubjob(lane[s].sub) /\ lane[s].pc = "polling"
        /\ subjobs'[lane[s].sub].processed = Len(remote[s])
    BY <1>6, PollStep
  <2>2. subjobs[lane[s].sub].processed <= Len(remote[s])
    BY <2>1 DEF LaneInv, LaneOK, Busy
  <2>3. rows' = rows
    BY <1>6 DEF Poll
  <2> QED
    BY <2>1, <2>2, <2>3, SubjobGrows DEF TablesGrow
<1>7. ASSUME NEW s \in Servers, Fetch(s)
      PROVE  TablesGrow
  <2>1. /\ OnlySubjob(lane[s].sub) /\ lane[s].pc = "fetching"
        /\ subjobs'[lane[s].sub].processed = subjobs[lane[s].sub].total
    BY <1>7, FetchStep
  <2>2. lane[s].pc \in Busy
    BY <2>1 DEF Busy
  <2>3. subjobs[lane[s].sub].processed <= subjobs[lane[s].sub].total
    <3>1. /\ subjobs[lane[s].sub].processed <= Len(remote[s])
          /\ subjobs[lane[s].sub].total = Cardinality(lane[s].batch)
      BY <2>2 DEF LaneInv, LaneOK
    <3>2. Len(remote[s]) <= Cardinality(lane[s].batch)
      BY <2>2, RemoteBound
    <3>3. subjobs[lane[s].sub].processed \in Nat /\ Len(remote[s]) \in Nat
      BY <2>1, <2>2, SubjobParts, FetchedType DEF OnlySubjob
    <3>4. Cardinality(lane[s].batch) \in Nat
      BY BatchFinite
    <3> QED
      BY <3>1, <3>2, <3>3, <3>4
  <2>4. EmailsIn(rows) \subseteq EmailsIn(rows')
    BY <1>7, <2>1, FetchedAll DEF Fetch
  <2> QED
    BY <2>1, <2>3, <2>4, SubjobGrows DEF TablesGrow
<1>8. ASSUME NEW s \in Servers, EndPacing(s)
      PROVE  TablesGrow
  BY <1>1, <1>8 DEF EndPacing
<1>9. ASSUME Sweep, EmailsIn(rows) \subseteq EmailsIn(rows')
      PROVE  TablesGrow
  BY <1>0, <1>9, SweepStep DEF TablesGrow
<1>10. ASSUME NEW s \in Servers, RestartAfterInsert(s)
       PROVE  TablesGrow
  <2>1. EmailsIn(rows) \subseteq EmailsIn(rows')
    BY <1>10, FetchedAll DEF RestartAfterInsert
  <2> QED
    BY <1>9, <1>10, <2>1 DEF RestartAfterInsert
<1>11. CASE Restart
  BY <1>9, <1>11 DEF Restart
<1>12. ASSUME NEW s \in Servers, NEW v \in Verdicts, NEW p \in lane[s].batch, RemoteStores(s, p, v)
       PROVE  TablesGrow
  BY <1>1, <1>12 DEF RemoteStores
<1>13. CASE RestartAfterApify
  <2>1. PICK items \in ApifyItems : InsertResults(items)
    BY <1>13 DEF RestartAfterApify
  <2>2. EmailsIn(rows) \subseteq EmailsIn(rows')
    BY <2>1, ItemsType, InsertedEmails
  <2> QED
    BY <1>9, <1>13, <2>2 DEF RestartAfterApify
<1> HIDE DEF results, tables, job, history
<1> QED
  BY <1>2, <1>3, <1>4, <1>5, <1>6, <1>7, <1>8, <1>10, <1>11, <1>12, <1>13
     DEF Next, Job, Apify, Lane

\* The counts are either left or taken from the tables as they are after the step.
LEMMA CountsStep ==
  ASSUME [Next]_vars
  PROVE  counts' = counts \/ counts' = Refreshed(subjobs', rows')
<1> USE DEF results, tables, job, history
<1>1. CASE Job
  BY <1>1 DEF Job, Apify, RunJob, EndRound, CallApify, ApifyAnswers, ApifyFails, ApifyRaises, WakeUp
<1>2. ASSUME NEW s \in Servers, Lane(s) \/ Poll(s) \/ RestartAfterInsert(s)
      PROVE  counts' = counts \/ counts' = Refreshed(subjobs', rows')
  <2>1. CASE Fetch(s) \/ BatchFails(s) \/ Poll(s)
    BY <2>1 DEF Fetch, BatchFails, Poll
  <2>2. CASE Submit(s) \/ Accepted(s) \/ EndPacing(s) \/ RestartAfterInsert(s)
    BY <2>2 DEF Submit, Accepted, EndPacing, RestartAfterInsert, Sweep
  <2> QED
    BY <1>2, <2>1, <2>2 DEF Lane
<1>3. CASE \/ CreateJob \/ WaiterAnswers \/ WaiterTimesOut \/ Restart \/ RestartAfterApify
           \/ UNCHANGED vars
  BY <1>3 DEF CreateJob, WaiterAnswers, WaiterTimesOut, Restart, RestartAfterApify, Sweep, vars
<1>4. ASSUME NEW s \in Servers, NEW v \in Verdicts, NEW p \in lane[s].batch, RemoteStores(s, p, v)
      PROVE  counts' = counts
  BY <1>4 DEF RemoteStores
<1> HIDE DEF results, tables, job, history
<1> QED
  BY <1>1, <1>2, <1>3, <1>4 DEF Next

LEMMA DuplicatesStep ==
  ASSUME TypeOK, [Next]_vars
  PROVE  duplicates' = 0 => duplicates = 0
<1> USE DEF results, tables, job, history
<1>1. CASE Job
  BY <1>1 DEF Job, Apify, RunJob, EndRound, CallApify, ApifyAnswers, ApifyFails, ApifyRaises, WakeUp
<1>2. ASSUME NEW s \in Servers, Lane(s) \/ Poll(s) \/ RestartAfterInsert(s)
      PROVE  duplicates' = duplicates
  <2>1. CASE Fetch(s) \/ BatchFails(s) \/ Poll(s)
    BY <2>1 DEF Fetch, BatchFails, Poll
  <2>2. CASE Submit(s) \/ Accepted(s) \/ EndPacing(s) \/ RestartAfterInsert(s)
    BY <2>2 DEF Submit, Accepted, EndPacing, RestartAfterInsert, Sweep
  <2> QED
    BY <1>2, <2>1, <2>2 DEF Lane
<1>3. CASE \/ CreateJob \/ WaiterAnswers \/ WaiterTimesOut \/ Restart \/ RestartAfterApify
           \/ UNCHANGED vars
  BY <1>3 DEF CreateJob, WaiterAnswers, WaiterTimesOut, Restart, RestartAfterApify, Sweep, vars
<1>4. ASSUME NEW s \in Servers, NEW v \in Verdicts, NEW p \in lane[s].batch, RemoteStores(s, p, v)
      PROVE  duplicates' = duplicates \/ duplicates' = duplicates + 1
  BY <1>4 DEF RemoteStores
<1>5. duplicates \in Nat
  BY DEF TypeOK
<1> HIDE DEF results, tables, job, history
<1> QED
  BY <1>1, <1>2, <1>3, <1>4, <1>5 DEF Next

\* Only these steps change the results.
LEMMA RowsStep ==
  ASSUME [Next]_vars
  PROVE  \/ rows' = rows \/ ApifyAnswers \/ RestartAfterApify
         \/ \E s \in Servers : Fetch(s) \/ RestartAfterInsert(s)
<1> USE DEF results, tables, job, history
<1>1. CASE RunJob \/ EndRound \/ CallApify \/ ApifyFails \/ ApifyRaises \/ WakeUp
  BY <1>1 DEF RunJob, EndRound, CallApify, ApifyFails, ApifyRaises, WakeUp
<1>2. ASSUME NEW s \in Servers, LaneGoes(s) \/ BatchFails(s)
      PROVE  rows' = rows
  BY <1>2 DEF LaneGoes, Submit, Accepted, EndPacing, Poll, BatchFails
<1>3. CASE CreateJob \/ WaiterAnswers \/ WaiterTimesOut \/ Restart \/ UNCHANGED vars
  BY <1>3 DEF CreateJob, WaiterAnswers, WaiterTimesOut, Restart, vars
<1>4. ASSUME NEW s \in Servers, NEW v \in Verdicts, NEW p \in lane[s].batch, RemoteStores(s, p, v)
      PROVE  rows' = rows
  BY <1>4 DEF RemoteStores
<1> HIDE DEF results, tables, job, history
<1> QED
  BY <1>1, <1>2, <1>3, <1>4 DEF Next, Job, Apify, Lane, LaneGoes

LEMMA ProgressParts ==
  ASSUME TypeOK
  PROVE  counts.processed \in Nat /\ TableProgress \in Nat
<1>1. Refreshed(subjobs, rows) \in CountsType
  BY RefreshedType DEF TypeOK
<1> QED
  BY <1>1 DEF TypeOK, CountsType, TableProgress

LEMMA ProgressStep ==
  ASSUME TypeOK, TypeOK', LaneInv, RemoteInv, UniqueInv, ProgressInv, duplicates = 0, [Next]_vars
  PROVE  counts.processed <= counts'.processed /\ counts'.processed <= TableProgress'
<1>1. OneRow
  BY UniqueParts
<1>2. TableProgress <= TableProgress'
  BY <1>1, GrowsNext, ProgressGrows DEF TablesGrow
<1>3. counts.processed <= TableProgress
  BY DEF ProgressInv, TableProgress
<1>4. counts' = counts \/ counts'.processed = TableProgress'
  BY CountsStep DEF TableProgress
<1>5. counts.processed \in Nat /\ TableProgress \in Nat
  BY ProgressParts
<1>6. TableProgress' \in Nat
  <2>1. Refreshed(subjobs', rows') \in CountsType
    BY RefreshedType DEF TypeOK
  <2> QED
    BY <2>1 DEF CountsType, TableProgress
<1> QED
  BY <1>2, <1>3, <1>4, <1>5, <1>6

-----------------------------------------------------------------------------
(* The servers that have seen an email.                                    *)

\* SeenInv without its conditions.
Clean ==
  /\ failed = {} /\ duplicates = 0 /\ status # "failed" /\ apify # "answered"
  /\ NumServers > 1 /\ Named = Servers
BackendSeen == \A i \in DOMAIN rows : rows[i].backend \in Seen(rows[i].email)
RetriesStored == attempt > 0 => \A p \in ToStore : assignments[p].email \in EmailsIn(rows)
GoesElsewhere(p, i) ==
  assignments[p].email = rows[i].email /\ assignments[p].server # rows[i].backend
Twice(i) ==
  \/ SeenByTwo(i)
  \/ attempt = 1 /\ phase = "waiting"
  \/ attempt = 1 /\ \E p \in ToStore : GoesElsewhere(p, i)
UnknownsTwice == attempt > 0 => \A i \in Unknowns : Twice(i)

LEMMA SeenParts ==
  SeenInv <=> /\ apify = "answered" => status = "completed"
              /\ RetriesStored
              /\ Clean => BackendSeen /\ UnknownsTwice
  BY DEF SeenInv, Clean, BackendSeen, RetriesStored, UnknownsTwice, Twice, GoesElsewhere

LEMMA SeenIf ==
  ASSUME apify' = "answered" => status' = "completed", RetriesStored',
         Clean' => BackendSeen' /\ UnknownsTwice'
  PROVE  SeenInv'
  BY DEF SeenInv, Clean, BackendSeen, RetriesStored, UnknownsTwice, Twice, GoesElsewhere

\* No subjob is forgotten.
SubjobsStay ==
  \A k \in DOMAIN subjobs :
    k \in DOMAIN subjobs' /\ subjobs'[k].server = subjobs[k].server
    /\ subjobs'[k].emails = subjobs[k].emails

LEMMA OneStays ==
  ASSUME NEW i, OnlySubjob(i)
  PROVE  SubjobsStay
<1> SUFFICES ASSUME NEW k \in DOMAIN subjobs
             PROVE  /\ k \in DOMAIN subjobs' /\ subjobs'[k].server = subjobs[k].server
                    /\ subjobs'[k].emails = subjobs[k].emails
  BY DEF SubjobsStay
<1>1. CASE k = i
  BY <1>1 DEF OnlySubjob
<1>2. CASE k # i
  BY <1>2 DEF OnlySubjob
<1> QED
  BY <1>1, <1>2

LEMMA LaneKeepsSubjobs ==
  ASSUME TypeOK, LaneInv, NEW s \in Servers, LaneGoes(s)
  PROVE  SubjobsStay
<1>1. CASE Submit(s)
  BY <1>1, SubmitStep DEF SubjobsStay
<1>2. CASE Accepted(s)
  BY <1>2, AcceptedStep, OneStays
<1>3. CASE EndPacing(s)
  BY <1>3 DEF EndPacing, tables, SubjobsStay
<1>4. CASE Poll(s)
  BY <1>4, PollStep, OneStays
<1> QED
  BY <1>1, <1>2, <1>3, <1>4 DEF LaneGoes

\* A row that stays has been seen by whom it had been seen.
LEMMA SeenRowStays ==
  ASSUME SubjobsStay, NEW i \in DOMAIN rows, i \in DOMAIN rows', rows'[i] = rows[i]
  PROVE  /\ rows[i].backend \in Seen(rows[i].email) => (rows[i].backend \in Seen(rows[i].email))'
         /\ SeenByTwo(i) => SeenByTwo(i)'
<1>1. Seen(rows[i].email) \subseteq Seen(rows[i].email)'
  <2> DEFINE e == rows[i].email
  <2>1. Seen(rows[i].email)' = {subjobs'[m].server : m \in {k \in DOMAIN subjobs' : e \in subjobs'[k].emails}}
    BY DEF Seen
  <2> HIDE DEF e
  <2> QED
    BY <2>1 DEF e, Seen, SubjobsStay
<1> QED
  BY <1>1 DEF SeenByTwo

\* A row for an email that another server has seen before.
LEMMA NewRowSeenByTwo ==
  ASSUME SubjobsStay, NEW e, NEW s, NEW i, rows'[i].email = e, rows'[i].backend = s,
         NEW t \in Seen(e), t # s
  PROVE  SeenByTwo(i)'
<1>1. PICK k \in DOMAIN subjobs : e \in subjobs[k].emails /\ subjobs[k].server = t
  BY DEF Seen
<1>2. k \in DOMAIN subjobs' /\ rows'[i].email \in subjobs'[k].emails /\ subjobs'[k].server = t
  BY <1>1 DEF SubjobsStay
<1> QED
  BY <1>2 DEF SeenByTwo, Seen

\* A step that neither stores results nor changes the round.
LEMMA SeenStays ==
  ASSUME SeenInv, UNCHANGED <<status, rows, phase, attempt, assignments, apify>>, SubjobsStay,
         failed' = {} => failed = {}, duplicates' = 0 => duplicates = 0, ToStore' = ToStore
  PROVE  SeenInv'
<1>1. RetriesStored' /\ (apify' = "answered" => status' = "completed")
  BY SeenParts DEF RetriesStored
<1>2. Clean' => BackendSeen /\ UnknownsTwice
  BY SeenParts DEF Clean
<1>3. BackendSeen => BackendSeen'
  BY SeenRowStays DEF BackendSeen
<1>4. UnknownsTwice => UnknownsTwice'
  <2> SUFFICES ASSUME NEW i \in Unknowns, attempt > 0, Twice(i) PROVE Twice(i)'
    BY DEF UnknownsTwice, Unknowns, WithVerdict
  <2>1. SeenByTwo(i) => SeenByTwo(i)'
    BY SeenRowStays DEF Unknowns, WithVerdict
  <2> QED
    BY <2>1 DEF Twice, GoesElsewhere
<1> QED
  BY <1>1, <1>2, <1>3, <1>4, SeenIf

LEMMA RetrySeen ==
  ASSUME TypeOK, JobInv, LaneInv, SeenInv, phase \in {"round", "apify"},
         \A s \in Servers : lane[s].pc = "idle", RetryRound(attempt + 1),
         UNCHANGED <<rows, subjobs, lane, failed, duplicates>>, apify' \in {apify, "failed"}
  PROVE  SeenInv'
<1>1. ToStore = {} /\ ToStore' = {}
  BY NothingToStore DEF ToStore, LaneInv, LaneOK, Idle
<1>2. status \notin Ended /\ apify # "answered"
  BY SeenParts DEF JobInv, Ended
<1>3. /\ attempt \in Nat
      /\ \/ status' = "completed" /\ phase' = "none" /\ attempt' = attempt
         \/ status' = "retrying" /\ phase' = "waiting" /\ attempt' = attempt + 1
  BY DEF TypeOK, RetryRound
<1>4. RetriesStored' /\ apify' # "answered"
  BY <1>1, <1>2 DEF RetriesStored
<1>5. Clean' => Clean /\ BackendSeen /\ UnknownsTwice
  BY <1>2, SeenParts DEF Clean, Ended
<1>6. SubjobsStay
  BY DEF SubjobsStay
<1>7. BackendSeen => BackendSeen'
  BY <1>6, SeenRowStays DEF BackendSeen
<1>8. UnknownsTwice => UnknownsTwice'
  <2> SUFFICES ASSUME UnknownsTwice, NEW i \in Unknowns, attempt' > 0 PROVE Twice(i)'
    BY DEF UnknownsTwice, Unknowns, WithVerdict
  <2>1. CASE attempt > 0
    <3>1. SeenByTwo(i)
      BY <1>1, <2>1 DEF UnknownsTwice, Twice
    <3> QED
      BY <1>6, <3>1, SeenRowStays DEF Twice, Unknowns, WithVerdict
  <2>2. CASE attempt = 0
    BY <1>3, <2>2 DEF Twice
  <2> QED
    BY <1>3, <2>1, <2>2
<1> QED
  BY <1>4, <1>5, <1>7, <1>8, SeenIf

\* A retry round starts: every unknown email goes to another server than that of
\* its row.
LEMMA WakeUpSeen ==
  ASSUME TypeOK, JobInv, LaneInv, WaitingInv, SeenInv, WakeUp
  PROVE  SeenInv'
<1> USE DEF tables, results, history
<1>1. /\ attempt \in 1..Attempts /\ assignments = UnknownAssignments(attempt)
      /\ phase = "waiting" /\ status \notin Ended
      /\ UNCHANGED <<status, rows, subjobs, attempt, assignments, apify, failed, duplicates>>
  BY DEF WakeUp, WaitingInv, JobInv, Dispatch, Ended
<1>2. /\ DOMAIN assignments = Unknowns
      /\ \A i \in Unknowns :
           /\ assignments[i].email = rows[i].email
           /\ assignments[i].server = (LastServer(i) + attempt) % NumServers
           /\ assignments[i].server \in Servers
  <2>1. attempt \in Nat
    BY <1>1
  <2>2. AssignmentsType(assignments)
    BY TypeParts
  <2> QED
    BY <1>1, <2>1, <2>2, UnknownType DEF AssignmentsType, Assigned
<1>3. ToStore' = DOMAIN assignments
  <2>1. \A s \in Servers : lane'[s].batch = {} /\ lane'[s].todo = PlacesOf(assignments, s)
    BY TypeParts, DispatchStep DEF WakeUp
  <2> QED
    BY <1>2, <2>1 DEF ToStore, PlacesOf
<1>4. RetriesStored' /\ (apify' = "answered" => status' = "completed")
  <2>1. \A p \in DOMAIN assignments : assignments[p].email \in EmailsIn(rows)
    BY <1>2, UnknownsParts DEF EmailsIn
  <2> QED
    BY <1>1, <1>3, <2>1, SeenParts DEF RetriesStored
<1>5. SubjobsStay
  BY <1>1 DEF SubjobsStay
<1>6. ASSUME Clean'
      PROVE  BackendSeen' /\ UnknownsTwice'
  <2>1. Clean /\ BackendSeen /\ UnknownsTwice
    BY <1>1, <1>6, SeenParts DEF Clean
  <2>2. BackendSeen'
    BY <1>1, <1>5, <2>1, SeenRowStays DEF BackendSeen
  <2>3. ASSUME NEW i \in Unknowns
        PROVE  Twice(i)'
    <3>1. i \in DOMAIN rows /\ rows'[i] = rows[i]
      BY <1>1, UnknownsParts
    <3>2. CASE SeenByTwo(i)
      BY <1>1, <1>5, <3>1, <3>2, SeenRowStays DEF Twice
    <3>3. CASE ~ SeenByTwo(i)
      <4>1. attempt = 1
        BY <1>1, <2>1, <3>3 DEF UnknownsTwice, Twice
      <4>2. rows[i].backend \in Servers
        <5>1. rows[i].backend \in Seen(rows[i].email)
          BY <2>1, <3>1 DEF BackendSeen
        <5> QED
          BY <5>1, SubjobParts DEF Seen
      <4>3. LastServer(i) = rows[i].backend
        BY <4>2 DEF LastServer
      <4>4. 1 % NumServers # 0
        BY <2>1 DEF Clean
      <4>5. assignments[i].server # rows[i].backend
        BY <1>2, <4>1, <4>2, <4>3, <4>4, ModMoves
      <4>6. i \in ToStore' /\ GoesElsewhere(i, i)'
        BY <1>1, <1>2, <1>3, <4>5 DEF GoesElsewhere
      <4> QED
        BY <1>1, <4>1, <4>6 DEF Twice
    <3> QED
      BY <3>2, <3>3
  <2>4. UnknownsTwice'
    BY <1>1, <2>3 DEF UnknownsTwice, Unknowns, WithVerdict
  <2> QED
    BY <2>2, <2>4
<1> QED
  BY <1>4, <1>6, SeenIf

\* A batch is stored: its server has seen the emails, and in a retry round so had
\* the one whose rows they replace.
LEMMA FetchSeen ==
  ASSUME TypeOK, JobInv, LaneInv, RemoteInv, UniqueInv, SeenInv, NEW s \in Servers, Fetch(s)
  PROVE  SeenInv'
<1> USE DEF job, history
<1>1. /\ lane[s].pc = "fetching" /\ lane[s].pc \in Busy /\ InsertResults(Fetched(s))
      /\ UNCHANGED <<status, phase, attempt, assignments, apify, failed, duplicates>>
  BY DEF Fetch, Busy
<1>2. phase = "round"
  BY <1>1 DEF LaneInv, LaneOK, Idle
<1>3. Len(Fetched(s)) \in Nat /\ DOMAIN Fetched(s) = 1..Len(Fetched(s))
  BY <1>1, FetchedType
<1>4. ToStore' \subseteq ToStore /\ ToStore \subseteq ToStore' \union lane[s].batch
  BY FetchStep, ToStoreLeaves
<1>5. EmailsIn(rows) \subseteq EmailsIn(rows')
  BY <1>1, <1>3, InsertedEmails
<1>6. RetriesStored' /\ (apify' = "answered" => status' = "completed")
  BY <1>1, <1>4, <1>5, SeenParts DEF RetriesStored
<1>7. SubjobsStay
  BY FetchStep, OneStays
<1>8. ASSUME Clean'
      PROVE  BackendSeen' /\ UnknownsTwice'
  <2>1. Clean /\ BackendSeen /\ UnknownsTwice /\ RetriesStored
    BY <1>1, <1>8, SeenParts DEF Clean
  <2>2. duplicates = 0 /\ s \in Named
    BY <2>1 DEF Clean
  <2> DEFINE old(i) == i \in DOMAIN rows /\ rows[i].email \notin EmailsIn(Fetched(s)) /\ rows'[i] = rows[i]
             fresh(i, k) == k \in DOMAIN remote[s] /\ rows'[i] = Fetched(s)[k]
  <2>3. ASSUME NEW i \in DOMAIN rows'
        PROVE  old(i) \/ \E k : fresh(i, k)
    <3>1. DOMAIN remote[s] = 1..Len(Fetched(s))
      BY <1>1, FetchedType
    <3> QED
      BY <1>1, <1>3, <3>1, InsertedRows
  <2>4. ASSUME NEW i \in DOMAIN rows', NEW k, fresh(i, k)
        PROVE  LET p == remote[s][k].place IN
               /\ p \in lane[s].batch /\ p \in ToStore /\ p \in DOMAIN assignments
               /\ assignments[p].server = s
               /\ rows'[i].email = assignments[p].email /\ rows'[i].backend = s
               /\ s \in Seen(assignments[p].email)
    <3> DEFINE p == remote[s][k].place
    <3>1. /\ p \in lane[s].batch /\ p \in DOMAIN assignments
          /\ rows'[i].email = assignments[p].email /\ rows'[i].backend = s
      BY <1>1, <2>2, <2>4, FetchedType
    <3> HIDE DEF p
    <3>2. p \in ToStore /\ assignments[p].server = s
      BY <3>1, StoredPlaces DEF LaneInv, LaneOK, PlacesOf
    <3>3. /\ lane[s].sub \in DOMAIN subjobs /\ subjobs[lane[s].sub].server = s
          /\ assignments[p].email \in subjobs[lane[s].sub].emails
      BY <1>1, <3>1 DEF LaneInv, LaneOK
    <3>4. s \in Seen(assignments[p].email)
      BY <3>3 DEF Seen
    <3> QED
      BY <3>1, <3>2, <3>4 DEF p
  <2>5. ASSUME NEW i \in DOMAIN rows'
        PROVE  (rows[i].backend \in Seen(rows[i].email))'
    <3>1. CASE old(i)
      BY <1>7, <2>1, <3>1, SeenRowStays DEF BackendSeen
    <3>2. ASSUME NEW k, fresh(i, k)
          PROVE  (rows[i].backend \in Seen(rows[i].email))'
      <4> DEFINE e == assignments[remote[s][k].place].email
      <4>1. rows'[i].email = e /\ rows'[i].backend = s /\ s \in Seen(e)
        BY <2>4, <3>2
      <4> HIDE DEF e
      <4> QED
        BY <1>7, <4>1 DEF Seen, SubjobsStay
    <3> QED
      BY <2>3, <3>1, <3>2
  <2>6. ASSUME NEW i \in Unknowns', attempt > 0
        PROVE  Twice(i)'
    <3>1. i \in DOMAIN rows' /\ rows'[i].verdict = "unknown"
      BY <2>6 DEF Unknowns, WithVerdict
    <3>2. CASE old(i)
      <4>1. Twice(i)
        BY <2>1, <2>6, <3>1, <3>2, UnknownsParts DEF UnknownsTwice
      <4>2. SeenByTwo(i) => SeenByTwo(i)'
        BY <1>7, <3>1, <3>2, SeenRowStays
      <4>3. ASSUME NEW p \in ToStore, GoesElsewhere(p, i)
            PROVE  p \in ToStore' /\ GoesElsewhere(p, i)'
        <5>1. p \notin lane[s].batch
          BY <1>1, <2>2, <3>2, <4>3, FetchedBatch DEF GoesElsewhere
        <5> QED
          BY <1>1, <1>4, <3>2, <4>3, <5>1 DEF GoesElsewhere
      <4> QED
        BY <1>1, <1>2, <4>1, <4>2, <4>3 DEF Twice
    <3>3. ASSUME NEW k, fresh(i, k)
          PROVE  SeenByTwo(i)'
      <4> DEFINE p == remote[s][k].place
                 e == assignments[p].email
      <4>1. /\ p \in lane[s].batch /\ p \in ToStore /\ p \in DOMAIN assignments
            /\ assignments[p].server = s /\ rows'[i].email = e /\ rows'[i].backend = s
        BY <2>4, <3>1, <3>3
      <4> HIDE DEF p
      <4>2. PICK j \in DOMAIN rows : rows[j].email = e
        BY <2>1, <2>6, <4>1 DEF RetriesStored, EmailsIn
      <4>3. rows[j].backend \in Seen(e)
        BY <2>1, <4>2 DEF BackendSeen
      <4>4. j \in Unknowns
        BY <2>2, <4>1, <4>2, UniqueParts, UnknownsParts DEF ToReplace, RowsOf
      <4>5. \E t \in Seen(e) : t # s
        <5>1. CASE SeenByTwo(j)
          BY <4>2, <4>3, <5>1 DEF SeenByTwo
        <5>2. CASE ~ SeenByTwo(j)
          <6>1. PICK q \in ToStore : GoesElsewhere(q, j)
            BY <1>2, <2>1, <2>6, <4>4, <5>2 DEF UnknownsTwice, Twice
          <6>2. q = p
            BY <2>2, <4>1, <4>2, <6>1, StoredPlaces, UniqueParts DEF GoesElsewhere, OnePlace
          <6> QED
            BY <4>1, <4>3, <6>1, <6>2 DEF GoesElsewhere
        <5> QED
          BY <5>1, <5>2
      <4> QED
        BY <1>7, <4>1, <4>5, NewRowSeenByTwo
    <3> QED
      BY <2>3, <3>1, <3>2, <3>3 DEF Twice
  <2> QED
    BY <1>1, <2>5, <2>6 DEF BackendSeen, UnknownsTwice
<1> QED
  BY <1>6, <1>8, SeenIf

LEMMA SeenNext ==
  ASSUME TypeOK, JobInv, LaneInv, RemoteInv, WaitingInv, UniqueInv, SeenInv, [Next]_vars
  PROVE  SeenInv'
<1> USE DEF results, tables, job, history
<1>1. phase # "round" => \A s \in Servers : lane[s].pc = "idle" /\ lane[s] = Idle
  BY DEF LaneInv, LaneOK, Idle
<1>2. ToStore' = ToStore \/ lane' # lane
  BY DEF ToStore
<1>3. subjobs' = subjobs => SubjobsStay
  BY DEF SubjobsStay
<1>4. status # "completed" => apify # "answered"
  BY SeenParts
<1>5. CASE WaiterAnswers \/ WaiterTimesOut \/ UNCHANGED vars
  BY <1>2, <1>3, <1>5, SeenStays DEF WaiterAnswers, WaiterTimesOut, vars
<1>6. CASE CreateJob \/ RunJob
  <2>1. /\ status # "completed" /\ attempt' = 0 /\ DOMAIN rows = {}
        /\ rows' = rows /\ apify' = apify
    BY <1>6 DEF CreateJob, RunJob, JobInv, Ended
  <2> QED
    BY <1>4, <2>1, SeenParts, SeenIf DEF RetriesStored, BackendSeen, UnknownsTwice
<1>7. CASE EndRound
  BY <1>7, RetrySeen DEF EndRound, RoundDone
<1>8. CASE ApifyFails
  <2>1. attempt = 0 /\ 1 = attempt + 1
    BY <1>8 DEF ApifyFails, JobInv
  <2> QED
    BY <1>1, <1>8, <2>1, RetrySeen DEF ApifyFails
<1>9. CASE CallApify
  <2>1. /\ phase = "round" /\ attempt' = 0 /\ UNCHANGED <<rows, subjobs, apify, failed, duplicates>>
    BY <1>9 DEF CallApify, RoundDone
  <2>2. status \notin Ended
    BY <2>1 DEF JobInv
  <2>3. Clean' => BackendSeen
    BY <1>4, <2>1, <2>2, SeenParts DEF Clean, Ended
  <2>4. BackendSeen => BackendSeen'
    BY <1>3, <2>1, SeenRowStays DEF BackendSeen
  <2> QED
    BY <1>4, <2>1, <2>2, <2>3, <2>4, SeenParts, SeenIf DEF RetriesStored, UnknownsTwice, Ended
<1>10. CASE ApifyAnswers \/ ApifyRaises
  <2>1. attempt' = 0
    BY <1>10 DEF ApifyAnswers, ApifyRaises, JobInv
  <2>2. ~ Clean' /\ (apify' = "answered" => status' = "completed")
    BY <1>10 DEF ApifyAnswers, ApifyRaises, Clean
  <2> QED
    BY <2>1, <2>2, SeenParts, SeenIf DEF RetriesStored
<1>11. CASE WakeUp
  BY <1>11, WakeUpSeen
<1>12. ASSUME NEW s \in Servers, LaneGoes(s)
       PROVE  SeenInv'
  <2>1. UNCHANGED <<status, rows, phase, attempt, assignments, apify, failed, duplicates>>
    BY <1>12 DEF LaneGoes, Submit, Accepted, EndPacing, Poll
  <2> QED
    BY <1>12, <2>1, LaneKeepsSubjobs, ToStoreGoes, SeenStays
<1>13. ASSUME NEW s \in Servers, BatchFails(s)
       PROVE  SeenInv'
  <2>1. UNCHANGED <<status, rows, attempt, assignments, apify>> /\ failed' # {}
    BY <1>13 DEF BatchFails
  <2>2. ToStore' \subseteq ToStore
    BY <1>13, FailStep, ToStoreLeaves
  <2> QED
    BY <2>1, <2>2, SeenParts, SeenIf DEF RetriesStored, Clean
<1>14. ASSUME NEW s \in Servers, Fetch(s)
       PROVE  SeenInv'
  BY <1>14, FetchSeen
<1>15. ASSUME Sweep
       PROVE  SeenInv'
  <2>1. status \notin {"none"} \union Ended
    BY <1>15 DEF Sweep, JobInv
  <2>2. status' = "failed" /\ apify' = apify
    BY <1>15, <2>1 DEF Sweep, TypeOK, Ended
  <2>3. ToStore' = {}
    BY <1>15, SweepStep, NothingToStore
  <2> QED
    BY <1>4, <2>1, <2>2, <2>3, SeenParts, SeenIf DEF RetriesStored, Clean, Ended
<1>16. ASSUME NEW s \in Servers, RestartAfterInsert(s)
       PROVE  SeenInv'
  BY <1>15, <1>16 DEF RestartAfterInsert
<1>17. CASE Restart \/ RestartAfterApify
  BY <1>15, <1>17 DEF Restart, RestartAfterApify
<1>18. ASSUME NEW s \in Servers, NEW v \in Verdicts, NEW p \in lane[s].batch, RemoteStores(s, p, v)
       PROVE  SeenInv'
  <2>1. UNCHANGED <<status, rows, phase, attempt, assignments, apify, failed, lane, subjobs>>
        /\ (duplicates' = 0 => duplicates = 0)
    BY <1>18, RemoteStoresStep DEF RemoteStores
  <2> QED
    BY <1>2, <1>3, <2>1, SeenStays
<1> HIDE DEF results, tables, job, history
<1> QED
  BY <1>5, <1>6, <1>7, <1>8, <1>9, <1>10, <1>11, <1>12, <1>13, <1>14, <1>16, <1>17, <1>18
     DEF Next, Job, Apify, Lane, LaneGoes

-----------------------------------------------------------------------------
(* The inductive invariant.                                                *)

LEMMA IInvInit == Init => IInv
<1> SUFFICES ASSUME Init PROVE IInv
  OBVIOUS
<1>1. /\ status = "none" /\ phase = "none" /\ attempt = 0 /\ subjobs = <<>> /\ rows = <<>>
      /\ assignments = <<>> /\ waiter.pc = "none" /\ duplicates = 0 /\ failed = {}
      /\ apify = "unused"
      /\ counts = [processed |-> 0, known |-> 0, unknown |-> 0]
      /\ \A s \in Servers : lane[s] = Idle
  BY DEF Init, NoWaiter
<1>2. TypeOK
  BY TypeInit
<1>3. \A v \in Verdicts : WithVerdict(rows, v) = {}
  BY <1>1 DEF WithVerdict
<1>4. JobInv
  <2>1. CountsAgree
    <3>1. Cardinality({}) = 0
      BY FS_EmptySet
    <3>2. \A v \in Verdicts : counts[v] = 0
      BY <1>1 DEF Verdicts
    <3> QED
      BY <1>3, <3>1, <3>2 DEF CountsAgree
  <2> QED
    BY <1>1, <2>1 DEF JobInv, Ended
<1>5. LaneInv /\ RemoteInv
  BY <1>1 DEF LaneInv, LaneOK, RemoteInv, RemoteOK, Idle, Busy
<1>6. SubjobsInv /\ CompletedBatchIsStored
  BY <1>1 DEF SubjobsInv, CompletedBatchIsStored
<1>7. BackendInv /\ WaitingInv /\ UniqueInv
  <2>1. ToStore = {}
    BY <1>1 DEF ToStore, Idle
  <2> QED
    BY <1>1, <2>1 DEF BackendInv, WaitingInv, UniqueInv, OneRowPerEmail
<1>8. CoverInv /\ ExhaustedInv /\ SeenInv
  BY <1>1 DEF CoverInv, ExhaustedInv, SeenInv
<1>9. ProgressInv
  <2>1. Refreshed(subjobs, rows).processed \in Nat
    <3>1. Refreshed(subjobs, rows) \in CountsType
      BY <1>2, RefreshedType DEF TypeOK
    <3> QED
      BY <3>1 DEF CountsType
  <2> QED
    BY <1>1, <2>1 DEF ProgressInv
<1> QED
  BY <1>2, <1>4, <1>5, <1>6, <1>7, <1>8, <1>9 DEF IInv

LEMMA IInvNext == IInv /\ [Next]_vars => IInv'
<1> SUFFICES ASSUME IInv, [Next]_vars PROVE IInv'
  OBVIOUS
<1>1. /\ TypeOK /\ JobInv /\ LaneInv /\ SubjobsInv /\ RemoteInv /\ BackendInv /\ WaitingInv
      /\ UniqueInv /\ CoverInv /\ CompletedBatchIsStored /\ ExhaustedInv /\ SeenInv /\ ProgressInv
  BY DEF IInv
<1>2. TypeOK'
  BY <1>1, TypeNext
<1>3. JobInv'
  BY <1>1, JobNext
<1>4. LaneInv' /\ RemoteInv' /\ SubjobsInv'
  BY <1>1, LaneNext
<1>5. BackendInv'
  BY <1>1, BackendNext
<1>6. WaitingInv'
  BY <1>1, WaitingNext
<1>7. UniqueInv'
  BY <1>1, UniqueNext
<1>8. CoverInv'
  BY <1>1, CoverNext
<1>9. CompletedBatchIsStored'
  BY <1>1, StoredNext
<1>10. ExhaustedInv'
  BY <1>1, ExhaustedNext
<1>11. ProgressInv'
  BY <1>1, <1>2, DuplicatesStep, ProgressStep DEF ProgressInv, TableProgress
<1>12. SeenInv'
  BY <1>1, SeenNext
<1> QED
  BY <1>2, <1>3, <1>4, <1>5, <1>6, <1>7, <1>8, <1>9, <1>10, <1>11, <1>12 DEF IInv

\* The inductive invariant holds: where the coroutines are, what the tables say of
\* them, and what the servers list agree after every step of _run_job, the lanes,
\* verify_and_wait and a restart.
THEOREM Invariant == Spec => []IInv
  BY IInvInit, IInvNext, PTL DEF Spec

-----------------------------------------------------------------------------
(* What it says of the coordinator.                                        *)

\* The tables and the coroutines only take values that the code gives them.
THEOREM TypeCorrect == Spec => []TypeOK
<1>1. IInv => TypeOK
  BY DEF IInv
<1> QED
  BY <1>1, Invariant, PTL

\* insert_results keeps one row per email through every round, for any number of
\* emails, servers and rounds, as long as no server lists an email twice.
THEOREM RowsAreUnique == Spec => []OneRowPerEmail
<1>1. IInv => OneRowPerEmail
  BY DEF IInv, UniqueInv, OneRowPerEmail
<1> QED
  BY <1>1, Invariant, PTL

\* What verify_and_wait returns is the last word on the job, and its counts are
\* those of its rows.
THEOREM AnswersAreFinal == Spec => []AnswerIsFinal
<1>1. IInv => AnswerIsFinal
  BY DEF IInv, JobInv, CountsAgree, AnswerIsFinal
<1> QED
  BY <1>1, Invariant, PTL

\* Without its coroutine, after its end or a restart, a job has ended and has no
\* subjob that is under way.
THEOREM NothingIsLeft == Spec => []NothingDangles
<1>1. IInv => NothingDangles
  <2> SUFFICES ASSUME IInv, phase = "none"
               PROVE  /\ status \in {"none", "completed", "failed"}
                      /\ \A i \in DOMAIN subjobs : subjobs[i].status \in {"completed", "failed"}
    BY DEF NothingDangles
  <2>1. status \in {"none", "completed", "failed"}
    BY DEF IInv, JobInv, Ended
  <2>2. \A s \in Servers : lane[s].pc = "idle"
    BY DEF IInv, LaneInv, LaneOK, Idle
  <2>3. ASSUME NEW i \in DOMAIN subjobs
        PROVE  subjobs[i].status \in {"completed", "failed"}
    <3>1. subjobs[i].status \notin {"submitting", "running"}
      BY <2>2 DEF IInv, SubjobsInv
    <3>2. subjobs[i] \in Subjobs
      BY SubjobParts DEF IInv
    <3> QED
      BY <3>1, <3>2 DEF Subjobs
  <2> QED
    BY <2>1, <2>3
<1> QED
  BY <1>1, Invariant, PTL

\* Without duplicates, a subjob that says completed has the results of all its
\* emails stored, or is about to; a restart between the two transactions makes the
\* job say that it has failed.
THEOREM CompletedBatchesAreStored == Spec => []CompletedBatchIsStored
<1>1. IInv => CompletedBatchIsStored
  BY DEF IInv
<1> QED
  BY <1>1, Invariant, PTL

\* A completed job has a row for every email that it did not give up with a failed
\* batch, and has retried the unknown ones in every round or left them to Apify.
THEOREM CompletedJobsAreExhausted == Spec => []CompletedIsExhausted
<1>1. IInv => CompletedIsExhausted
  BY DEF IInv, CoverInv, ExhaustedInv, CompletedIsExhausted
<1> QED
  BY <1>1, Invariant, PTL

\* The server of a retry and that of the row it is to replace.
LEMMA RetryServer ==
  ASSUME IInv, phase = "waiting", NEW p \in DOMAIN assignments,
         NEW i \in RowsOf(assignments[p].email)
  PROVE  /\ rows[i].backend \in Servers =>
              (assignments[p].server = rows[i].backend <=> attempt % NumServers = 0)
         /\ rows[i].backend \notin Servers => assignments[p].server # rows[i].backend
<1>1. attempt \in 1..Attempts /\ assignments = UnknownAssignments(attempt) /\ TypeOK
  BY DEF IInv, WaitingInv
<1>2. /\ p \in Unknowns /\ assignments[p].email = rows[p].email
      /\ assignments[p].server = (LastServer(p) + attempt) % NumServers
  BY <1>1, UnknownType
<1>3. rows[i].backend = rows[p].backend
  BY <1>1, <1>2, UnknownsParts DEF IInv, BackendInv, RowsOf
<1>4. CASE rows[p].backend \in Servers
  <2>1. LastServer(p) = rows[p].backend
    BY <1>4 DEF LastServer
  <2> QED
    BY <1>1, <1>2, <1>3, <1>4, <2>1, ModMoves
<1>5. CASE rows[p].backend \notin Servers
  <2>1. assignments[p].server \in Servers
    BY <1>1, TypeParts DEF AssignmentsType, Assigned
  <2> QED
    BY <1>3, <1>5, <2>1
<1> QED
  BY <1>4, <1>5

\* The retries of a round go to other servers than those of the results, for any
\* number of servers, unless the number of the round is a multiple of it.
THEOREM RetriesMove == Spec => [](attempt % NumServers # 0 => RetriedElsewhere)
<1>1. IInv => (attempt % NumServers # 0 => RetriedElsewhere)
  BY RetryServer DEF RetriedElsewhere
<1> QED
  BY <1>1, Invariant, PTL

\* In a round whose number is a multiple of that of the servers, an unknown email
\* goes back to the very server that its result names.
THEOREM RetriesReturn ==
  Spec => [](phase = "waiting" /\ attempt % NumServers = 0 =>
               \A p \in DOMAIN assignments : \A i \in RowsOf(assignments[p].email) :
                 rows[i].backend \in Servers => assignments[p].server = rows[i].backend)
<1>1. IInv => (phase = "waiting" /\ attempt % NumServers = 0 =>
                 \A p \in DOMAIN assignments : \A i \in RowsOf(assignments[p].email) :
                   rows[i].backend \in Servers => assignments[p].server = rows[i].backend)
  BY RetryServer
<1> QED
  BY <1>1, Invariant, PTL

\* Over all rounds the retries do what they are for, although single rounds may
\* return: with two servers or more, each listing an email once and under its
\* name, a completed job in which no batch failed and Apify was not asked leaves
\* unknown only emails that two servers have seen.
THEOREM UnknownsAreSeenTwice == Spec => []UnknownsSeenTwice
<1>1. IInv => UnknownsSeenTwice
  <2> SUFFICES ASSUME IInv, status = "completed", failed = {}, duplicates = 0, apify # "answered",
                      NumServers > 1, Attempts > 0, Named = Servers, NEW i \in Unknowns
               PROVE  SeenByTwo(i)
    BY DEF UnknownsSeenTwice, SeenByTwo
  <2>1. phase = "none" /\ attempt > 0
    BY DEF IInv, JobInv, Ended, ExhaustedInv
  <2>2. ToStore = {}
    BY <2>1 DEF IInv, LaneInv, LaneOK, Idle, ToStore
  <2>3. Twice(i)
    BY <2>1, SeenParts DEF IInv, Clean, UnknownsTwice
  <2> QED
    BY <2>1, <2>2, <2>3 DEF Twice
<1> QED
  BY <1>1, Invariant, PTL

\* No step takes a known verdict back or leaves an email that has a result without
\* one, whatever fails or is cut off, unless a server lists an email twice.
THEOREM ResultsAreKept == Spec => ResultsStay
<1> DEFINE Kept ==
      duplicates = 0 =>
        \A i \in DOMAIN rows :
          IF rows[i].verdict = "known" THEN \E j \in DOMAIN rows' : rows'[j] = rows[i]
          ELSE rows[i].email \in EmailsIn(rows')
<1>1. IInv /\ [Next]_vars => Kept
  <2> SUFFICES ASSUME IInv, [Next]_vars, duplicates = 0, NEW i \in DOMAIN rows
               PROVE  IF rows[i].verdict = "known" THEN \E j \in DOMAIN rows' : rows'[j] = rows[i]
                      ELSE rows[i].email \in EmailsIn(rows')
    OBVIOUS
  <2>0. TypeOK /\ LaneInv /\ RemoteInv /\ UniqueInv /\ OneRow
    BY UniqueParts DEF IInv
  <2>1. rows[i].email \in EmailsIn(rows')
    BY <2>0, GrowsNext DEF TablesGrow, EmailsIn
  <2>2. ASSUME rows[i].verdict = "known"
        PROVE  \E j \in DOMAIN rows' : rows'[j] = rows[i]
    <3>1. ASSUME NEW new, Len(new) \in Nat, InsertResults(new), rows[i].email \notin EmailsIn(new)
          PROVE  \E j \in DOMAIN rows' : rows'[j] = rows[i]
      BY <2>0, <3>1, InsertedRows
    <3>2. CASE rows' = rows
      BY <3>2
    <3>3. CASE ApifyAnswers \/ RestartAfterApify
      <4>1. PICK items \in ApifyItems : InsertResults(items)
        BY <3>3 DEF ApifyAnswers, RestartAfterApify
      <4>2. rows[i].email \notin EmailsIn(items)
        <5> SUFFICES ASSUME NEW k \in Unknowns, rows[k].email = rows[i].email
                     PROVE  FALSE
          BY <2>0, ItemsType DEF EmailsIn
        <5> QED
          BY <2>0, <2>2, UnknownsParts DEF OneRow
      <4>3. Len(items) \in Nat
        BY <2>0, ItemsType
      <4> QED
        BY <3>1, <4>1, <4>2, <4>3
    <3>4. ASSUME NEW s \in Servers, Fetch(s) \/ RestartAfterInsert(s)
          PROVE  \E j \in DOMAIN rows' : rows'[j] = rows[i]
      <4>1. lane[s].pc \in Busy /\ InsertResults(Fetched(s))
        BY <3>4 DEF Fetch, RestartAfterInsert, Busy
      <4>2. rows[i].email \notin EmailsIn(Fetched(s))
        BY <2>0, <2>2, <4>1, FetchedReplaces
      <4>3. Len(Fetched(s)) \in Nat
        BY <2>0, <4>1, FetchedType
      <4> QED
        BY <3>1, <4>1, <4>2, <4>3
    <3>5. \/ rows' = rows \/ ApifyAnswers \/ RestartAfterApify
          \/ \E s \in Servers : Fetch(s) \/ RestartAfterInsert(s)
      BY RowsStep
    <3> QED
      BY <3>2, <3>3, <3>4, <3>5
  <2> QED
    BY <2>1, <2>2
<1>2. [Next]_vars /\ Kept => [Kept]_vars
  OBVIOUS
<1> QED
  BY <1>1, <1>2, Invariant, PTL DEF Spec, ResultsStay

\* The progress that is shown never goes back, unless a server lists an email
\* twice.
THEOREM ProgressGoesOn == Spec => ProgressMonotone
<1> DEFINE Grown == duplicates = 0 => counts'.processed >= counts.processed
<1>1. IInv /\ IInv' /\ [Next]_vars => Grown
  <2> SUFFICES ASSUME IInv, IInv', [Next]_vars, duplicates = 0
               PROVE  counts'.processed >= counts.processed
    OBVIOUS
  <2>1. TypeOK /\ TypeOK'
    BY DEF IInv
  <2>2. counts.processed \in Nat /\ counts'.processed \in Nat
    BY <2>1 DEF TypeOK
  <2> QED
    BY <2>1, <2>2, ProgressStep DEF IInv
<1> QED
  BY <1>1, Invariant, PTL DEF Spec, ProgressMonotone
=============================================================================
