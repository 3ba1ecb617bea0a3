------------------------- MODULE Publication_proofs -------------------------
(***************************************************************************)
(* Proofs about the tables of the durable repository, for every number of  *)
(* jobs, workers, attempts, artifact kinds and digests and every length of *)
(* the leases and of the grace.                                            *)
(*                                                                         *)
(* First LeaseQueue, whose inductive invariant is LQInv; then Publication, *)
(* which extends it: whoever calls the ledger, and in whatever order,      *)
(* LedgerInv holds and the queue underneath is still the queue.            *)
(***************************************************************************)
EXTENDS Publication, TLAPS, FiniteSetTheorems, SequenceTheorems

-----------------------------------------------------------------------------
(* Type correctness *)

\* Replacing one attempt row by another keeps a sequence of attempt rows.
LEMMA AttemptUpdated ==
    ASSUME NEW s \in Seq(AttemptRow), NEW n \in 1..Len(s), NEW r \in AttemptRow
    PROVE  [s EXCEPT ![n] = r] \in Seq(AttemptRow)
  BY ExceptSeq

\* Emit appends a well-formed event.
LEMMA EmitType ==
    ASSUME LQTypeOK, NEW j \in Jobs, NEW t \in EventType, NEW n \in Nat
    PROVE  Emit(j, t, n) \in Seq(EventRow)
<1>1. [type |-> t, attempt |-> n] \in EventRow
  BY DEF EventRow
<1>2. events[j] \in Seq(EventRow)
  BY DEF LQTypeOK
<1>. QED  BY <1>1, <1>2, AppendProperties DEF Emit

\* The attempts of a job are a sequence of rows.
LEMMA AttemptsType ==
    ASSUME LQTypeOK, NEW j \in Jobs
    PROVE  /\ attempts[j] \in Seq(AttemptRow)
           /\ Len(attempts[j]) \in Nat
           /\ \A n \in 1..Len(attempts[j]) : attempts[j][n] \in AttemptRow
<1>1. attempts[j] \in Seq(AttemptRow)
  BY DEF LQTypeOK
<1>. QED  BY <1>1, LenProperties, ElementOfSeq

\* EndLeases keeps the types when every job of S has a granted lease.
LEMMA EndLeasesType ==
    ASSUME LQTypeOK, NEW S \in SUBSET Jobs, NEW m \in Nat,
           \A j \in S : Granted(j, jobs[j].current),
           EndLeases(S, m)
    PROVE  LQTypeOK'
<1>1. jobs' \in [Jobs -> JobRow]
  <2>1. SUFFICES ASSUME NEW j \in S
                 PROVE  [jobs[j] EXCEPT
                            !.state = JobStateAfter[Outcome(j, m)],
                            !.current = NoAttempt,
                            !.retry = IF Outcome(j, m) = "failed_retryable"
                                      THEN RetryDelay ELSE @] \in JobRow
    BY DEF LQTypeOK, EndLeases
  <2>2. jobs[j] \in JobRow
    BY DEF LQTypeOK
  <2>3. JobStateAfter[Outcome(j, m)] \in JobState
    BY DEF JobStateAfter, Outcome, JobState, TerminalJob
  <2>4. RetryDelay \in Nat
    BY TimeAssumption
  <2>. QED  BY <2>2, <2>3, <2>4 DEF JobRow, NoAttempt
<1>2. attempts' \in [Jobs -> Seq(AttemptRow)]
  <2>1. SUFFICES ASSUME NEW j \in S
                 PROVE  [attempts[j] EXCEPT
                            ![jobs[j].current].state = Outcome(j, m),
                            ![jobs[j].current].ttl = 0] \in Seq(AttemptRow)
    BY DEF LQTypeOK, EndLeases
  <2>. DEFINE n == jobs[j].current
              r1 == [attempts[j][n] EXCEPT !.state = Outcome(j, m)]
              r2 == [r1 EXCEPT !.ttl = 0]
  <2>2. attempts[j] \in Seq(AttemptRow) /\ n \in 1..Len(attempts[j])
        /\ attempts[j][n] \in AttemptRow
    BY AttemptsType DEF Granted
  <2>3. r1 \in AttemptRow /\ r2 \in AttemptRow
    BY <2>2 DEF AttemptRow, AttemptState, Outcome
  <2>4. [attempts[j] EXCEPT ![n].state = Outcome(j, m), ![n].ttl = 0]
        = [attempts[j] EXCEPT ![n] = r2]
    BY <2>2, LenProperties
  <2>. QED  BY <2>2, <2>3, <2>4, AttemptUpdated
<1>3. workers' \in [Workers -> WorkerState]
  BY DEF LQTypeOK, EndLeases, ReleasedWorkers, WorkerState
<1>4. events' \in [Jobs -> Seq(EventRow)]
  <2>1. ASSUME NEW j \in S
        PROVE  CloseEvents(j, m) \in Seq(EventRow)
    <3>1. jobs[j].current \in Nat
      BY DEF LQTypeOK, JobRow
    <3>2. EventAfter[Outcome(j, m)] \in EventType
      BY DEF EventAfter, Outcome, EventType
    <3>. QED  BY <3>1, <3>2, EmitType DEF CloseEvents
  <2>. QED  BY <2>1 DEF LQTypeOK, EndLeases
<1>. QED  BY <1>1, <1>2, <1>3, <1>4 DEF LQTypeOK

\* A cancellation request, from either path, keeps the types.
LEMMA CancelType ==
    ASSUME LQTypeOK, NEW j \in Jobs, RequestCancel(j) \/ ApiRequestCancel(j)
    PROVE  LQTypeOK'
<1>1. jobs[j] \in JobRow
  BY DEF LQTypeOK
<1>2. [jobs[j] EXCEPT !.state = IF @ = "queued" THEN "cancelled" ELSE @,
                      !.cancel = TRUE] \in JobRow
  BY <1>1 DEF JobRow, JobState, TerminalJob
<1>3. jobs' \in [Jobs -> JobRow]
  BY <1>2 DEF LQTypeOK, RequestCancel, ApiRequestCancel
<1>4. Emit(j, "cancel_requested", jobs[j].current) \in Seq(EventRow)
  BY <1>1, EmitType DEF JobRow, EventType
<1>. QED  BY <1>3, <1>4 DEF LQTypeOK, RequestCancel, ApiRequestCancel

\* create_job keeps the types.
LEMMA CreateType ==
    ASSUME LQTypeOK, NEW j \in Jobs, CreateJob(j)
    PROVE  LQTypeOK'
<1>1. Cardinality(Created) + 1 \in Nat
  <2>1. Created \in SUBSET Jobs
    BY DEF Created
  <2>2. IsFiniteSet(Created)
    BY <2>1, JobsAssumption, FS_Subset
  <2>. QED  BY <2>2, FS_CardinalityType
<1>2. [jobs[j] EXCEPT !.state = "queued", !.created = Cardinality(Created) + 1] \in JobRow
  <2>1. jobs[j] \in JobRow
    BY DEF LQTypeOK
  <2>. QED  BY <1>1, <2>1 DEF JobRow, JobState
<1>3. jobs' \in [Jobs -> JobRow]
  BY <1>2 DEF LQTypeOK, CreateJob
<1>4. Emit(j, "job_created", NoAttempt) \in Seq(EventRow)
  BY EmitType DEF NoAttempt, EventType
<1>. QED  BY <1>3, <1>4 DEF LQTypeOK, CreateJob

\* The claim's grant keeps the types.
LEMMA GrantType ==
    ASSUME LQTypeOK, NEW w \in Workers, NEW j \in Jobs, Grant(w, j)
    PROVE  LQTypeOK'
<1>. DEFINE r == [worker |-> w, epoch |-> NextEpoch(j), state |-> "active",
                  ttl |-> LeaseSeconds]
<1>1. jobs[j] \in JobRow /\ attempts[j] \in Seq(AttemptRow) /\ Len(attempts[j]) \in Nat
  BY AttemptsType DEF LQTypeOK
<1>2. r \in AttemptRow
  BY <1>1, TimeAssumption DEF AttemptRow, AttemptState, NextEpoch, JobRow
<1>3. attempts' \in [Jobs -> Seq(AttemptRow)]
  <2>1. Append(attempts[j], r) \in Seq(AttemptRow)
    BY <1>1, <1>2, AppendProperties
  <2>2. attempts' = [attempts EXCEPT ![j] = Append(attempts[j], r)]
    BY DEF Grant
  <2>. QED  BY <2>1, <2>2 DEF LQTypeOK
<1>4. jobs' \in [Jobs -> JobRow]
  <2>0. NextEpoch(j) \in Nat /\ Len(attempts[j]) + 1 \in Nat
    BY <1>1 DEF JobRow, NextEpoch
  <2>1. [jobs[j] EXCEPT !.state = "running", !.current = Len(attempts[j]) + 1,
                        !.epoch = NextEpoch(j), !.retry = 0] \in JobRow
    BY <1>1, <2>0 DEF JobRow, JobState
  <2>. QED  BY <2>1 DEF LQTypeOK, Grant
<1>5. Emit(j, "attempt_started", Len(attempts[j]) + 1) \in Seq(EventRow)
  BY <1>1, EmitType DEF EventType
<1>6. workers' \in [Workers -> WorkerState]
  BY DEF LQTypeOK, Grant, BusyWorkers, WorkerState
<1>. QED  BY <1>3, <1>4, <1>5, <1>6 DEF LQTypeOK, Grant

\* A heartbeat keeps the types.
LEMMA HeartbeatType ==
    ASSUME LQTypeOK, NEW j \in Jobs, NEW n \in Nat, Heartbeat(j, n)
    PROVE  LQTypeOK'
<1>. DEFINE r == [attempts[j][n] EXCEPT !.ttl = LeaseSeconds]
<1>1. n \in 1..Len(attempts[j])
  BY DEF Heartbeat, LockCurrent, Granted
<1>2. r \in AttemptRow
  BY <1>1, AttemptsType, TimeAssumption DEF AttemptRow
<1>3. [attempts[j] EXCEPT ![n] = r] \in Seq(AttemptRow)
  BY <1>1, <1>2, AttemptsType, AttemptUpdated
<1>4. attempts' = [attempts EXCEPT ![j] = [attempts[j] EXCEPT ![n] = r]]
  BY DEF Heartbeat
<1>. QED  BY <1>3, <1>4 DEF LQTypeOK, Heartbeat

\* The clock keeps the types.
LEMMA TickType ==
    ASSUME LQTypeOK, Tick
    PROVE  LQTypeOK'
<1>1. \A t \in Nat : Before(t) \in Nat
  BY DEF Before
<1>2. jobs' \in [Jobs -> JobRow]
  <2>1. ASSUME NEW j \in Jobs
        PROVE  [jobs[j] EXCEPT !.retry = Before(@)] \in JobRow
    <3>1. jobs[j] \in JobRow
      BY DEF LQTypeOK
    <3>2. Before(jobs[j].retry) \in Nat
      BY <1>1, <3>1 DEF JobRow
    <3>. QED  BY <3>1, <3>2 DEF JobRow
  <2>. QED  BY <2>1 DEF Tick
<1>3. attempts' \in [Jobs -> Seq(AttemptRow)]
  <2>1. ASSUME NEW j \in Jobs
        PROVE  [n \in 1..Len(attempts[j]) |->
                    [attempts[j][n] EXCEPT !.ttl = Before(@)]] \in Seq(AttemptRow)
    <3>1. ASSUME NEW n \in 1..Len(attempts[j])
          PROVE  [attempts[j][n] EXCEPT !.ttl = Before(@)] \in AttemptRow
      <4>1. attempts[j][n] \in AttemptRow
        BY AttemptsType
      <4>2. Before(attempts[j][n].ttl) \in Nat
        BY <1>1, <4>1 DEF AttemptRow
      <4>. QED  BY <4>1, <4>2 DEF AttemptRow
    <3>2. Len(attempts[j]) \in Nat
      BY AttemptsType
    <3>. DEFINE f == [n \in 1..Len(attempts[j]) |->
                        [attempts[j][n] EXCEPT !.ttl = Before(@)]]
    <3>3. f \in [1..Len(attempts[j]) -> AttemptRow]
      BY <3>1
    <3>. HIDE DEF f
    <3>4. f \in Seq(AttemptRow)
      BY <3>2, <3>3, SeqDef
    <3>. QED  BY <3>4 DEF f
  <2>. QED  BY <2>1 DEF Tick
<1>. QED  BY <1>2, <1>3 DEF LQTypeOK, Tick

\* Every job in an expired batch, and every job whose lease is locked, has a
\* granted lease that is the current one.
LEMMA LockedIsGranted ==
    ASSUME NEW j \in Jobs, NEW n, NEW b \in BOOLEAN, LockCurrent(j, n, b)
    PROVE  /\ n = jobs[j].current
           /\ Granted(j, n)
           /\ jobs[j].state = "running"
  BY DEF LockCurrent

\* A step keeps the types.
LEMMA StepType ==
    ASSUME LQTypeOK, [LQNext]_lqVars
    PROVE  LQTypeOK'
<1>1. CASE UNCHANGED lqVars
  BY <1>1 DEF lqVars, LQTypeOK
<1>2. ASSUME NEW j \in Jobs, CreateJob(j) \/ RequestCancel(j) \/ ApiRequestCancel(j)
      PROVE  LQTypeOK'
  BY <1>2, CreateType, CancelType
<1>3. ASSUME NEW w \in Workers, RegisterWorker(w)
      PROVE  LQTypeOK'
  BY <1>3 DEF RegisterWorker, LQTypeOK, WorkerState
<1>4. ASSUME NEW w \in Workers, NEW j \in Jobs, NEW locked \in SUBSET Jobs,
             ClaimNext(w, j, locked)
      PROVE  LQTypeOK'
  BY <1>4, GrantType DEF ClaimNext
<1>5. ASSUME NEW l \in Leases, Heartbeat(l[1], l[2])
      PROVE  LQTypeOK'
  <2>1. l[1] \in Jobs /\ l[2] \in Nat
    BY DEF Leases
  <2>. QED  BY <1>5, <2>1, HeartbeatType
<1>6. ASSUME NEW l \in Leases, NEW m \in {1, MaxAttempts},
             CancelCurrent(l[1], l[2]) \/ FailRetryable(l[1], l[2], m)
      PROVE  LQTypeOK'
  <2>1. l[1] \in Jobs /\ {l[1]} \in SUBSET Jobs /\ m \in Nat /\ 1 \in Nat
    BY LimitAssumption DEF Leases
  <2>2. Granted(l[1], jobs[l[1]].current)
    BY <1>6, <2>1, LockedIsGranted DEF CancelCurrent, FailRetryable
  <2>3. EndLeases({l[1]}, 1) \/ EndLeases({l[1]}, m)
    BY <1>6 DEF CancelCurrent, FailRetryable
  <2>. QED  BY <2>1, <2>2, <2>3, EndLeasesType
<1>7. ASSUME NEW batch \in SUBSET Jobs, ReapExpired(batch)
      PROVE  LQTypeOK'
  <2>1. \A j \in batch : Granted(j, jobs[j].current)
    BY <1>7, LockedIsGranted DEF ReapExpired, Expired
  <2>2. EndLeases(batch, MaxAttempts) /\ MaxAttempts \in Nat
    BY <1>7, LimitAssumption DEF ReapExpired
  <2>. QED  BY <2>1, <2>2, EndLeasesType
<1>8. CASE Tick
  BY <1>8, TickType
<1>9. 1 \in {1, MaxAttempts}
  OBVIOUS
<1>. QED  BY <1>1, <1>2, <1>3, <1>4, <1>5, <1>6, <1>7, <1>8, <1>9 DEF LQNext, QueueStep

\* Empty tables are well typed.
LEMMA InitType ==
    ASSUME LQInit
    PROVE  LQTypeOK
<1>1. AbsentJob \in JobRow
  BY DEF AbsentJob, JobRow, JobState, NoAttempt
<1>2. <<>> \in Seq(AttemptRow) /\ <<>> \in Seq(EventRow)
  BY EmptySeq
<1>. QED  BY <1>1, <1>2 DEF LQInit, LQTypeOK, WorkerState

\* Type correctness: the rows of jobs, job_attempts, workers and job_events stay
\* well formed under every operation of the queue.
THEOREM TypeCorrect == LQSpec => []LQTypeOK
  BY InitType, StepType, PTL DEF LQSpec

-----------------------------------------------------------------------------
(* The inductive invariant *)

\* A step that only renews, ages or audits leases keeps the invariant.
LEMMA SameLeases ==
    ASSUME LQInv, LQTypeOK', workers' = workers,
           \A j \in Jobs :
              /\ jobs'[j].state = jobs[j].state
              /\ jobs'[j].current = jobs[j].current
              /\ jobs'[j].epoch = jobs[j].epoch
              /\ jobs'[j].cancel = jobs[j].cancel
              /\ Len(attempts'[j]) = Len(attempts[j])
              /\ \A n \in 1..Len(attempts[j]) :
                    /\ attempts'[j][n].worker = attempts[j][n].worker
                    /\ attempts'[j][n].epoch = attempts[j][n].epoch
                    /\ attempts'[j][n].state = attempts[j][n].state
    PROVE  LQInv'
<1>. USE DEF LQInv
<1>1. AbsentIsFresh' /\ EpochCounts'
  BY DEF AbsentIsFresh, EpochCounts
<1>2. RunningHasLease'
  BY DEF RunningHasLease, Granted
<1>3. ActiveIsCurrent'
  BY DEF ActiveIsCurrent
<1>4. \A w \in Workers, j \in Jobs : Holds(w, j)' <=> Holds(w, j)
  BY DEF Holds, RunningHasLease, Granted
<1>5. OneJobEach' /\ BusyHolds'
  BY <1>4 DEF OneJobEach, BusyHolds
<1>6. RetryBudget' /\ CancelIsSticky'
  BY DEF RetryBudget, CancelIsSticky
<1>. QED  BY <1>1, <1>2, <1>3, <1>5, <1>6

\* A heartbeat keeps the invariant.
LEMMA HeartbeatInv ==
    ASSUME LQInv, NEW j \in Jobs, NEW n \in Nat, Heartbeat(j, n)
    PROVE  LQInv'
<1>1. LQTypeOK'
  BY HeartbeatType DEF LQInv
<1>2. n \in 1..Len(attempts[j])
  BY DEF Heartbeat, LockCurrent, Granted
<1>. DEFINE r == [attempts[j][n] EXCEPT !.ttl = LeaseSeconds]
<1>3. r \in AttemptRow /\ attempts[j] \in Seq(AttemptRow)
      /\ r.worker = attempts[j][n].worker /\ r.epoch = attempts[j][n].epoch
      /\ r.state = attempts[j][n].state
  BY <1>2, AttemptsType, TimeAssumption DEF AttemptRow, LQInv
<1>4. attempts' = [attempts EXCEPT ![j] = [attempts[j] EXCEPT ![n] = r]]
  BY DEF Heartbeat
<1>. HIDE DEF r
<1>5. \A k \in Jobs :
        /\ Len(attempts'[k]) = Len(attempts[k])
        /\ \A i \in 1..Len(attempts[k]) :
            /\ attempts'[k][i].worker = attempts[k][i].worker
            /\ attempts'[k][i].epoch = attempts[k][i].epoch
            /\ attempts'[k][i].state = attempts[k][i].state
  <2>1. attempts'[j] = [attempts[j] EXCEPT ![n] = r]
        /\ \A k \in Jobs : k # j => attempts'[k] = attempts[k]
    BY <1>4 DEF LQInv, LQTypeOK
  <2>2. /\ Len([attempts[j] EXCEPT ![n] = r]) = Len(attempts[j])
        /\ \A i \in 1..Len(attempts[j]) :
            [attempts[j] EXCEPT ![n] = r][i] = IF i = n THEN r ELSE attempts[j][i]
    BY <1>2, <1>3, ExceptSeq
  <2>. QED  BY <1>3, <2>1, <2>2
<1>. QED  BY <1>1, <1>5, SameLeases DEF Heartbeat

\* The clock keeps the invariant.
LEMMA TickInv ==
    ASSUME LQInv, Tick
    PROVE  LQInv'
<1>1. LQTypeOK'
  BY TickType DEF LQInv
<1>2. ASSUME NEW j \in Jobs
      PROVE  /\ jobs'[j].state = jobs[j].state
             /\ jobs'[j].current = jobs[j].current
             /\ jobs'[j].epoch = jobs[j].epoch
             /\ jobs'[j].cancel = jobs[j].cancel
  <2>1. jobs'[j] = [jobs[j] EXCEPT !.retry = Before(@)] /\ jobs[j] \in JobRow
    BY DEF Tick, LQInv, LQTypeOK
  <2>. QED  BY <2>1 DEF JobRow
<1>3. ASSUME NEW j \in Jobs
      PROVE  /\ Len(attempts'[j]) = Len(attempts[j])
             /\ \A n \in 1..Len(attempts[j]) :
                  /\ attempts'[j][n].worker = attempts[j][n].worker
                  /\ attempts'[j][n].epoch = attempts[j][n].epoch
                  /\ attempts'[j][n].state = attempts[j][n].state
  <2>1. Len(attempts[j]) \in Nat /\ attempts'[j] \in Seq(AttemptRow)
        /\ \A n \in 1..Len(attempts[j]) : attempts[j][n] \in AttemptRow
    BY <1>1, AttemptsType DEF LQInv, LQTypeOK
  <2>2. attempts'[j] = [n \in 1..Len(attempts[j]) |->
                            [attempts[j][n] EXCEPT !.ttl = Before(@)]]
    BY DEF Tick
  <2>3. Len(attempts'[j]) = Len(attempts[j])
    <3>1. DOMAIN attempts'[j] = 1..Len(attempts[j])
      BY <2>2
    <3>2. DOMAIN attempts'[j] = 1..Len(attempts'[j]) /\ Len(attempts'[j]) \in Nat
      BY <2>1, LenProperties
    <3>. QED  BY <2>1, <3>1, <3>2
  <2>4. ASSUME NEW n \in 1..Len(attempts[j])
        PROVE  /\ attempts'[j][n].worker = attempts[j][n].worker
               /\ attempts'[j][n].epoch = attempts[j][n].epoch
               /\ attempts'[j][n].state = attempts[j][n].state
    <3>1. attempts'[j][n] = [attempts[j][n] EXCEPT !.ttl = Before(@)]
      BY <2>2
    <3>. QED  BY <2>1, <3>1 DEF AttemptRow
  <2>. QED  BY <2>3, <2>4
<1>. QED  BY <1>1, <1>2, <1>3, SameLeases DEF Tick

\* A step that changes only the visible state of jobs that are not running, or
\* the cancellation flag of running ones, keeps the invariant.
LEMMA SameHolders ==
    ASSUME LQInv, LQTypeOK', workers' = workers, attempts' = attempts,
           \A j \in Jobs :
              /\ jobs'[j].current = jobs[j].current
              /\ jobs'[j].epoch = jobs[j].epoch
              /\ jobs'[j].state = "running" <=> jobs[j].state = "running"
              /\ jobs'[j].state = "absent" => jobs[j].state = "absent",
           RetryBudget', CancelIsSticky'
    PROVE  LQInv'
<1>. USE DEF LQInv
<1>1. AbsentIsFresh' /\ EpochCounts'
  BY DEF AbsentIsFresh, EpochCounts
<1>2. RunningHasLease'
  BY DEF RunningHasLease, Granted
<1>3. ActiveIsCurrent'
  BY DEF ActiveIsCurrent
<1>4. \A w \in Workers, j \in Jobs : Holds(w, j)' <=> Holds(w, j)
  BY DEF Holds
<1>5. OneJobEach' /\ BusyHolds'
  BY <1>4 DEF OneJobEach, BusyHolds
<1>. QED  BY <1>1, <1>2, <1>3, <1>5

\* create_job keeps the invariant.
LEMMA CreateInv ==
    ASSUME LQInv, NEW j \in Jobs, CreateJob(j)
    PROVE  LQInv'
<1>1. LQTypeOK'
  BY CreateType DEF LQInv
<1>2. jobs[j] \in JobRow /\ jobs \in [Jobs -> JobRow]
  BY DEF LQInv, LQTypeOK
<1>3. /\ jobs'[j].state = "queued"
      /\ jobs'[j].current = jobs[j].current
      /\ jobs'[j].epoch = jobs[j].epoch
      /\ jobs'[j].cancel = jobs[j].cancel
      /\ \A k \in Jobs : k # j => jobs'[k] = jobs[k]
  BY <1>2 DEF CreateJob, JobRow
<1>4. RetryBudget'
  <2>1. Len(attempts[j]) = 0
    BY DEF CreateJob, LQInv, AbsentIsFresh
  <2>2. attempts' = attempts
    BY DEF CreateJob
  <2>. QED  BY <1>3, <2>1, <2>2, LimitAssumption DEF RetryBudget, LQInv
<1>5. CancelIsSticky'
  <2>1. ~jobs[j].cancel
    BY DEF CreateJob, LQInv, CancelIsSticky
  <2>. QED  BY <1>3, <2>1 DEF CancelIsSticky, LQInv
<1>. QED  BY <1>1, <1>3, <1>4, <1>5, SameHolders DEF CreateJob

\* A cancellation request, from either path, keeps the invariant.
LEMMA CancelInv ==
    ASSUME LQInv, NEW j \in Jobs, RequestCancel(j) \/ ApiRequestCancel(j)
    PROVE  LQInv'
<1>1. LQTypeOK'
  BY CancelType DEF LQInv
<1>2. jobs[j] \in JobRow /\ jobs \in [Jobs -> JobRow]
  BY DEF LQInv, LQTypeOK
<1>3. /\ jobs[j].state \in {"queued", "running"}
      /\ jobs'[j].state = IF jobs[j].state = "queued" THEN "cancelled" ELSE jobs[j].state
      /\ jobs'[j].current = jobs[j].current
      /\ jobs'[j].epoch = jobs[j].epoch
      /\ jobs'[j].cancel = TRUE
      /\ \A k \in Jobs : k # j => jobs'[k] = jobs[k]
      /\ attempts' = attempts /\ workers' = workers
  BY <1>2 DEF RequestCancel, ApiRequestCancel, JobRow
<1>4. RetryBudget' /\ CancelIsSticky'
  BY <1>3 DEF RetryBudget, CancelIsSticky, LQInv
<1>. QED  BY <1>1, <1>3, <1>4, SameHolders

\* The registration of a worker keeps the invariant.
LEMMA RegisterInv ==
    ASSUME LQInv, NEW w \in Workers, RegisterWorker(w)
    PROVE  LQInv'
<1>1. LQTypeOK'
  BY DEF RegisterWorker, LQInv, LQTypeOK, WorkerState
<1>2. \A v \in Workers : workers'[v] = "busy" <=> workers[v] = "busy"
  BY DEF RegisterWorker, LQInv, LQTypeOK
<1>3. ActiveIsCurrent'
  BY <1>2, AttemptsType DEF RegisterWorker, LQInv, ActiveIsCurrent, AttemptRow
<1>4. BusyHolds'
  BY <1>2 DEF RegisterWorker, LQInv, BusyHolds, Holds
<1>. QED  BY <1>1, <1>3, <1>4
          DEF RegisterWorker, LQInv, AbsentIsFresh, EpochCounts, RunningHasLease,
              Granted, OneJobEach, Holds, RetryBudget, CancelIsSticky

\* The claim: the new lease is the job's last, its worker held nothing.
LEMMA GrantInv ==
    ASSUME LQInv, NEW w \in Workers, NEW j \in Jobs,
           workers[w] = "ready", jobs[j].state = "queued", ~jobs[j].cancel,
           Grant(w, j)
    PROVE  LQInv'
<1>. DEFINE N == Len(attempts[j])
            r == [worker |-> w, epoch |-> NextEpoch(j), state |-> "active",
                  ttl |-> LeaseSeconds]
<1>1. LQTypeOK'
  BY GrantType DEF LQInv
<1>2. /\ jobs[j] \in JobRow /\ jobs \in [Jobs -> JobRow]
      /\ attempts \in [Jobs -> Seq(AttemptRow)]
      /\ workers \in [Workers -> WorkerState]
      /\ \A k \in Jobs : Len(attempts[k]) \in Nat
      /\ \A k \in Jobs : \A i \in 1..Len(attempts[k]) : attempts[k][i] \in AttemptRow
  BY AttemptsType DEF LQInv, LQTypeOK
<1>3. r \in AttemptRow /\ r.worker = w /\ r.state = "active" /\ r.epoch = N + 1
  <2>1. jobs[j].epoch = N
    BY DEF LQInv, EpochCounts
  <2>. QED  BY <1>2, <2>1, TimeAssumption DEF AttemptRow, AttemptState, NextEpoch, JobRow
<1>. HIDE DEF r
<1>4. /\ Len(attempts'[j]) = N + 1
      /\ \A i \in 1..N : attempts'[j][i] = attempts[j][i]
      /\ attempts'[j][N + 1] = r
      /\ \A k \in Jobs : k # j => attempts'[k] = attempts[k]
  <2>1. attempts' = [attempts EXCEPT ![j] = Append(attempts[j], r)]
    BY DEF Grant, r
  <2>2. attempts[j] \in Seq(AttemptRow)
    BY <1>2
  <2>3. attempts'[j] = Append(attempts[j], r)
        /\ \A k \in Jobs : k # j => attempts'[k] = attempts[k]
    BY <1>2, <2>1
  <2>. QED  BY <1>3, <2>2, <2>3, AppendProperties
<1>5. /\ jobs'[j].state = "running"
      /\ jobs'[j].current = N + 1
      /\ jobs'[j].epoch = jobs[j].epoch + 1
      /\ jobs'[j].cancel = jobs[j].cancel
      /\ \A k \in Jobs : k # j => jobs'[k] = jobs[k]
  BY <1>2 DEF Grant, JobRow, NextEpoch
<1>6. workers'[w] = "busy" /\ \A v \in Workers : v # w => workers'[v] = workers[v]
  BY <1>2 DEF Grant, BusyWorkers
<1>. USE DEF LQInv
<1>7. N \in Nat
  BY <1>2
<1>. HIDE DEF N
<1>8. AbsentIsFresh'
  BY <1>4, <1>5 DEF AbsentIsFresh
<1>9. EpochCounts'
  <2>1. ASSUME NEW k \in Jobs, k # j
        PROVE  /\ jobs'[k].epoch = Len(attempts'[k])
               /\ \A n \in 1..Len(attempts'[k]) : attempts'[k][n].epoch = n
    BY <1>4, <1>5, <2>1 DEF EpochCounts
  <2>2. jobs'[j].epoch = Len(attempts'[j])
    BY <1>4, <1>5 DEF EpochCounts, N
  <2>3. ASSUME NEW n \in 1..Len(attempts'[j])
        PROVE  attempts'[j][n].epoch = n
    <3>1. CASE n = N + 1
      BY <1>3, <1>4, <3>1
    <3>2. CASE n # N + 1
      <4>1. n \in 1..N
        BY <1>4, <1>7, <3>2
      <4>. QED  BY <1>4, <4>1 DEF EpochCounts, N
    <3>. QED  BY <3>1, <3>2
  <2>. QED  BY <2>1, <2>2, <2>3 DEF EpochCounts
<1>10. RunningHasLease'
  <2>1. ASSUME NEW k \in Jobs, k # j, jobs'[k].state = "running"
        PROVE  /\ jobs'[k].current = Len(attempts'[k])
               /\ Granted(k, jobs[k].current)'
               /\ attempts'[k][jobs'[k].current].state = "active"
    BY <1>4, <1>5, <2>1 DEF RunningHasLease, Granted
  <2>2. /\ jobs'[j].current = Len(attempts'[j])
        /\ Granted(j, jobs[j].current)'
        /\ attempts'[j][jobs'[j].current].state = "active"
    BY <1>3, <1>4, <1>5, <1>7 DEF Granted
  <2>. QED  BY <2>1, <2>2 DEF RunningHasLease
<1>11. \A i \in 1..N : attempts[j][i].state # "active"
  BY DEF ActiveIsCurrent, N
<1>12. ActiveIsCurrent'
  <2>1. ASSUME NEW k \in Jobs, k # j, NEW n \in 1..Len(attempts'[k]),
               attempts'[k][n].state = "active"
        PROVE  /\ jobs'[k].state = "running" /\ jobs'[k].current = n
               /\ workers'[attempts'[k][n].worker] = "busy"
    <3>1. attempts[k][n].worker \in Workers
      BY <1>2, <1>4, <2>1 DEF AttemptRow
    <3>. QED  BY <1>4, <1>5, <1>6, <2>1, <3>1 DEF ActiveIsCurrent
  <2>2. ASSUME NEW n \in 1..Len(attempts'[j]), attempts'[j][n].state = "active"
        PROVE  /\ jobs'[j].state = "running" /\ jobs'[j].current = n
               /\ workers'[attempts'[j][n].worker] = "busy"
    <3>1. n = N + 1
      BY <1>4, <1>7, <1>11, <2>2
    <3>. QED  BY <1>3, <1>4, <1>5, <1>6, <3>1
  <2>. QED  BY <2>1, <2>2 DEF ActiveIsCurrent
<1>13. \A k \in Jobs : ~Holds(w, k)
  <2>1. SUFFICES ASSUME NEW k \in Jobs, Holds(w, k)  PROVE FALSE
    OBVIOUS
  <2>2. workers[w] = "busy"
    BY <2>1 DEF Holds, RunningHasLease, Granted, ActiveIsCurrent
  <2>. QED  BY <2>2
<1>14. \A v \in Workers, k \in Jobs :
            Holds(v, k)' <=> IF k = j THEN v = w ELSE Holds(v, k)
  BY <1>3, <1>4, <1>5 DEF Holds
<1>15. OneJobEach' /\ BusyHolds'
  <2>1. OneJobEach'
    BY <1>13, <1>14 DEF OneJobEach
  <2>2. ASSUME NEW v \in Workers, workers'[v] = "busy"
        PROVE  \E k \in Jobs : Holds(v, k)'
    <3>1. CASE v = w
      BY <1>14, <3>1
    <3>2. CASE v # w
      <4>1. PICK k \in Jobs : Holds(v, k)
        BY <1>6, <2>2, <3>2 DEF BusyHolds
      <4>2. k # j
        BY <4>1 DEF Holds
      <4>. QED  BY <1>14, <4>1, <4>2
    <3>. QED  BY <3>1, <3>2
  <2>. QED  BY <2>1, <2>2 DEF BusyHolds
<1>16. RetryBudget'
  <2>1. N < MaxAttempts
    BY DEF RetryBudget, N
  <2>. QED  BY <1>4, <1>5, <1>7, <2>1, LimitAssumption DEF RetryBudget
<1>17. CancelIsSticky'
  BY <1>5 DEF CancelIsSticky
<1>. QED  BY <1>1, <1>8, <1>9, <1>10, <1>12, <1>15, <1>16, <1>17

\* The end of leases, whatever the outcome: the jobs S leave the running state,
\* their last attempt row is closed and their workers are released.
LEMMA EndedInv ==
    ASSUME LQInv, LQTypeOK', NEW S \in SUBSET Jobs,
           \A j \in Jobs \ S : jobs'[j] = jobs[j] /\ attempts'[j] = attempts[j],
           \A j \in S :
              /\ jobs[j].state = "running"
              /\ jobs'[j].state \in TerminalJob \cup {"queued"}
              /\ jobs'[j].state = "queued" => jobs[j].current < MaxAttempts
              /\ jobs'[j].state = "cancelled" <=> jobs[j].cancel
              /\ jobs'[j].epoch = jobs[j].epoch
              /\ jobs'[j].cancel = jobs[j].cancel
              /\ Len(attempts'[j]) = Len(attempts[j])
              /\ \A n \in 1..Len(attempts[j]) :
                    /\ attempts'[j][n].worker = attempts[j][n].worker
                    /\ attempts'[j][n].epoch = attempts[j][n].epoch
                    /\ n # jobs[j].current =>
                            attempts'[j][n].state = attempts[j][n].state
              /\ attempts'[j][jobs[j].current].state # "active",
           \A w \in Workers :
              workers'[w] = IF \E j \in S : attempts[j][jobs[j].current].worker = w
                            THEN "ready" ELSE workers[w]
    PROVE  LQInv'
<1>. USE DEF LQInv
<1>1. \A j \in Jobs : jobs'[j].state = "running" <=> jobs[j].state = "running" /\ j \notin S
  BY DEF TerminalJob
<1>2. \A j \in Jobs : Len(attempts[j]) \in Nat
  BY AttemptsType
<1>3. \A j \in Jobs : \A n \in 1..Len(attempts[j]) : attempts[j][n].worker \in Workers
  BY AttemptsType DEF AttemptRow
<1>4. AbsentIsFresh'
  BY DEF AbsentIsFresh, TerminalJob
<1>5. EpochCounts'
  <2>1. ASSUME NEW j \in Jobs \ S
        PROVE  /\ jobs'[j].epoch = Len(attempts'[j])
               /\ \A n \in 1..Len(attempts'[j]) : attempts'[j][n].epoch = n
    BY <2>1 DEF EpochCounts
  <2>2. ASSUME NEW j \in S
        PROVE  /\ jobs'[j].epoch = Len(attempts'[j])
               /\ \A n \in 1..Len(attempts'[j]) : attempts'[j][n].epoch = n
    BY <2>2 DEF EpochCounts
  <2>. QED  BY <2>1, <2>2 DEF EpochCounts
<1>6. RunningHasLease'
  BY <1>1 DEF RunningHasLease, Granted
<1>7. \A w \in Workers, j \in Jobs : Holds(w, j)' <=> Holds(w, j) /\ j \notin S
  BY <1>1 DEF Holds
<1>8. OneJobEach'
  BY <1>7 DEF OneJobEach
<1>9. BusyHolds'
  <2>1. ASSUME NEW w \in Workers, workers'[w] = "busy"
        PROVE  \E j \in Jobs : Holds(w, j)'
    <3>1. workers[w] = "busy" /\ ~\E j \in S : attempts[j][jobs[j].current].worker = w
      BY <2>1
    <3>2. PICK j \in Jobs : Holds(w, j)
      BY <3>1 DEF BusyHolds
    <3>3. j \notin S
      BY <3>1, <3>2 DEF Holds
    <3>. QED  BY <1>7, <3>2, <3>3
  <2>. QED  BY <2>1 DEF BusyHolds
<1>10. ActiveIsCurrent'
  <2>1. ASSUME NEW j \in Jobs, NEW n \in 1..Len(attempts'[j]),
               attempts'[j][n].state = "active"
        PROVE  /\ jobs'[j].state = "running" /\ jobs'[j].current = n
               /\ workers'[attempts'[j][n].worker] = "busy"
    <3>1. j \notin S
      <4>1. SUFFICES ASSUME j \in S  PROVE FALSE
        OBVIOUS
      <4>2. n \in 1..Len(attempts[j]) /\ n # jobs[j].current
        BY <2>1, <4>1
      <4>3. attempts[j][n].state = "active"
        BY <2>1, <4>1, <4>2
      <4>. QED  BY <4>2, <4>3 DEF ActiveIsCurrent
    <3>2. jobs'[j] = jobs[j] /\ attempts'[j] = attempts[j]
      BY <3>1
    <3>3. jobs[j].state = "running" /\ jobs[j].current = n
          /\ workers[attempts[j][n].worker] = "busy"
      BY <2>1, <3>2 DEF ActiveIsCurrent
    <3>. DEFINE w == attempts[j][n].worker
    <3>4. w \in Workers
      BY <1>3, <2>1, <3>2
    <3>5. \A k \in S : attempts[k][jobs[k].current].worker # w
      <4>1. SUFFICES ASSUME NEW k \in S, attempts[k][jobs[k].current].worker = w
                     PROVE  FALSE
        OBVIOUS
      <4>2. Holds(w, k) /\ Holds(w, j)
        BY <3>3, <4>1 DEF Holds
      <4>. QED  BY <3>1, <3>4, <4>1, <4>2 DEF OneJobEach
    <3>6. workers'[w] = "busy"
      BY <3>3, <3>4, <3>5
    <3>. QED  BY <3>2, <3>3, <3>6
  <2>. QED  BY <2>1 DEF ActiveIsCurrent
<1>11. RetryBudget'
  <2>1. ASSUME NEW j \in S
        PROVE  jobs[j].current = Len(attempts[j])
    BY DEF RunningHasLease
  <2>. QED  BY <2>1 DEF RetryBudget
<1>12. CancelIsSticky'
  BY DEF CancelIsSticky, TerminalJob
<1>. QED  BY <1>4, <1>5, <1>6, <1>8, <1>9, <1>10, <1>11, <1>12

\* _finish_lease and reap_expired keep the invariant.
LEMMA EndLeasesInv ==
    ASSUME LQInv, NEW S \in SUBSET Jobs, NEW m \in 1..MaxAttempts,
           \A j \in S : jobs[j].state = "running",
           EndLeases(S, m)
    PROVE  LQInv'
<1>1. \A j \in S : Granted(j, jobs[j].current)
  BY DEF LQInv, RunningHasLease
<1>2. m \in Nat /\ m <= MaxAttempts
  BY LimitAssumption
<1>3. LQTypeOK'
  BY <1>1, <1>2, EndLeasesType DEF LQInv
<1>4. \A j \in Jobs \ S : jobs'[j] = jobs[j] /\ attempts'[j] = attempts[j]
  BY DEF EndLeases
<1>5. \A w \in Workers :
        workers'[w] = IF \E j \in S : attempts[j][jobs[j].current].worker = w
                      THEN "ready" ELSE workers[w]
  BY DEF EndLeases, ReleasedWorkers
<1>6. ASSUME NEW j \in S
      PROVE  /\ jobs'[j].state = JobStateAfter[Outcome(j, m)]
             /\ jobs'[j].epoch = jobs[j].epoch
             /\ jobs'[j].cancel = jobs[j].cancel
  <2>1. jobs[j] \in JobRow
    BY DEF LQInv, LQTypeOK
  <2>2. jobs'[j] = [jobs[j] EXCEPT
                        !.state = JobStateAfter[Outcome(j, m)],
                        !.current = NoAttempt,
                        !.retry = IF Outcome(j, m) = "failed_retryable"
                                  THEN RetryDelay ELSE @]
    BY DEF EndLeases
  <2>. QED  BY <2>1, <2>2 DEF JobRow
<1>7. ASSUME NEW j \in S
      PROVE  /\ jobs'[j].state \in TerminalJob \cup {"queued"}
             /\ jobs'[j].state = "queued" => jobs[j].current < MaxAttempts
             /\ jobs'[j].state = "cancelled" <=> jobs[j].cancel
  <2>1. jobs[j].current \in Nat /\ jobs[j].cancel \in BOOLEAN
    BY DEF LQInv, LQTypeOK, JobRow
  <2>. QED  BY <1>2, <1>6, <2>1, LimitAssumption DEF JobStateAfter, Outcome, TerminalJob
<1>8. ASSUME NEW j \in S
      PROVE  /\ Len(attempts'[j]) = Len(attempts[j])
             /\ \A n \in 1..Len(attempts[j]) :
                    /\ attempts'[j][n].worker = attempts[j][n].worker
                    /\ attempts'[j][n].epoch = attempts[j][n].epoch
                    /\ n # jobs[j].current =>
                            attempts'[j][n].state = attempts[j][n].state
             /\ attempts'[j][jobs[j].current].state # "active"
  <2>. DEFINE c == jobs[j].current
              r1 == [attempts[j][c] EXCEPT !.state = Outcome(j, m)]
              r == [r1 EXCEPT !.ttl = 0]
  <2>1. attempts[j] \in Seq(AttemptRow) /\ c \in 1..Len(attempts[j])
        /\ attempts[j][c] \in AttemptRow
    BY <1>1, AttemptsType DEF Granted, LQInv
  <2>2. r1 \in AttemptRow /\ r1.worker = attempts[j][c].worker
        /\ r1.epoch = attempts[j][c].epoch /\ r1.state = Outcome(j, m)
    BY <2>1 DEF AttemptRow, AttemptState, Outcome
  <2>3. r \in AttemptRow /\ r.worker = attempts[j][c].worker
        /\ r.epoch = attempts[j][c].epoch /\ r.state = Outcome(j, m)
    <3>. HIDE DEF r1
    <3>. QED  BY <2>2 DEF AttemptRow
  <2>4. Outcome(j, m) # "active"
    BY DEF Outcome
  <2>5. attempts'[j] = [attempts[j] EXCEPT ![c] = r]
    <3>1. attempts'[j] = [attempts[j] EXCEPT ![c].state = Outcome(j, m), ![c].ttl = 0]
      BY DEF EndLeases
    <3>. QED  BY <2>1, <3>1, LenProperties
  <2>. HIDE DEF r
  <2>6. /\ Len([attempts[j] EXCEPT ![c] = r]) = Len(attempts[j])
        /\ \A n \in 1..Len(attempts[j]) :
            [attempts[j] EXCEPT ![c] = r][n] = IF n = c THEN r ELSE attempts[j][n]
    BY <2>1, <2>3, ExceptSeq
  <2>. QED  BY <2>1, <2>3, <2>4, <2>5, <2>6
<1>9. \A j \in S :
        /\ jobs[j].state = "running"
        /\ jobs'[j].state \in TerminalJob \cup {"queued"}
        /\ jobs'[j].state = "queued" => jobs[j].current < MaxAttempts
        /\ jobs'[j].state = "cancelled" <=> jobs[j].cancel
        /\ jobs'[j].epoch = jobs[j].epoch
        /\ jobs'[j].cancel = jobs[j].cancel
        /\ Len(attempts'[j]) = Len(attempts[j])
        /\ \A n \in 1..Len(attempts[j]) :
              /\ attempts'[j][n].worker = attempts[j][n].worker
              /\ attempts'[j][n].epoch = attempts[j][n].epoch
              /\ n # jobs[j].current =>
                      attempts'[j][n].state = attempts[j][n].state
        /\ attempts'[j][jobs[j].current].state # "active"
  BY <1>6, <1>7, <1>8
<1>. QED  BY <1>3, <1>4, <1>5, <1>9, EndedInv

\* Empty tables satisfy the invariant.
LEMMA InitInv ==
    ASSUME LQInit
    PROVE  LQInv
<1>1. LQTypeOK
  BY InitType
<1>2. /\ \A j \in Jobs : jobs[j].state = "absent" /\ jobs[j].epoch = 0 /\ ~jobs[j].cancel
      /\ \A j \in Jobs : Len(attempts[j]) = 0
      /\ \A w \in Workers : workers[w] = "absent"
  BY EmptySeq DEF LQInit, AbsentJob
<1>. QED  BY <1>1, <1>2, LimitAssumption
          DEF LQInv, AbsentIsFresh, EpochCounts, RunningHasLease, ActiveIsCurrent,
              OneJobEach, Holds, BusyHolds, RetryBudget, CancelIsSticky

\* Every step keeps the invariant.
LEMMA StepInv ==
    ASSUME LQInv, [LQNext]_lqVars
    PROVE  LQInv'
<1>1. CASE UNCHANGED lqVars
  <2>1. LQTypeOK'
    BY StepType DEF LQInv
  <2>. QED  BY <1>1, <2>1, SameLeases DEF lqVars
<1>2. ASSUME NEW j \in Jobs, CreateJob(j) \/ RequestCancel(j) \/ ApiRequestCancel(j)
      PROVE  LQInv'
  BY <1>2, CreateInv, CancelInv
<1>3. ASSUME NEW w \in Workers, RegisterWorker(w)
      PROVE  LQInv'
  BY <1>3, RegisterInv
<1>4. ASSUME NEW w \in Workers, NEW j \in Jobs, NEW locked \in SUBSET Jobs,
             ClaimNext(w, j, locked)
      PROVE  LQInv'
  BY <1>4, GrantInv DEF ClaimNext, Claimable
<1>5. ASSUME NEW l \in Leases, Heartbeat(l[1], l[2])
      PROVE  LQInv'
  <2>1. l[1] \in Jobs /\ l[2] \in Nat
    BY DEF Leases
  <2>. QED  BY <1>5, <2>1, HeartbeatInv
<1>6. ASSUME NEW l \in Leases, NEW m \in {1, MaxAttempts},
             CancelCurrent(l[1], l[2]) \/ FailRetryable(l[1], l[2], m)
      PROVE  LQInv'
  <2>1. l[1] \in Jobs /\ {l[1]} \in SUBSET Jobs /\ m \in 1..MaxAttempts /\ 1 \in 1..MaxAttempts
    BY LimitAssumption DEF Leases
  <2>2. jobs[l[1]].state = "running"
    BY <1>6, <2>1, LockedIsGranted DEF CancelCurrent, FailRetryable
  <2>3. EndLeases({l[1]}, 1) \/ EndLeases({l[1]}, m)
    BY <1>6 DEF CancelCurrent, FailRetryable
  <2>. QED  BY <2>1, <2>2, <2>3, EndLeasesInv
<1>7. ASSUME NEW batch \in SUBSET Jobs, ReapExpired(batch)
      PROVE  LQInv'
  <2>1. \A j \in batch : jobs[j].state = "running"
    BY <1>7, LockedIsGranted DEF ReapExpired, Expired
  <2>2. EndLeases(batch, MaxAttempts) /\ MaxAttempts \in 1..MaxAttempts
    BY <1>7, LimitAssumption DEF ReapExpired
  <2>. QED  BY <2>1, <2>2, EndLeasesInv
<1>8. CASE Tick
  BY <1>8, TickInv
<1>9. 1 \in {1, MaxAttempts}
  OBVIOUS
<1>. QED  BY <1>1, <1>2, <1>3, <1>4, <1>5, <1>6, <1>7, <1>8, <1>9 DEF LQNext, QueueStep

\* The inductive invariant holds in every reachable state.
THEOREM Invariance == LQSpec => []LQInv
  BY InitInv, StepInv, PTL DEF LQSpec

-----------------------------------------------------------------------------
(* The safety properties *)

\* A lease in ActiveLeases is an active attempt of one job.
LEMMA ActiveLease ==
    ASSUME LQInv, NEW l \in ActiveLeases
    PROVE  /\ l[1] \in Jobs
           /\ l[2] \in 1..Len(attempts[l[1]])
           /\ l = <<l[1], l[2]>>
           /\ attempts[l[1]][l[2]].state = "active"
           /\ attempts[l[1]][l[2]].worker \in Workers
<1>1. l \in Jobs \X (1..MaxAttempts) /\ Granted(l[1], l[2])
      /\ attempts[l[1]][l[2]].state = "active"
  BY DEF ActiveLeases, Leases
<1>2. l[1] \in Jobs /\ l[2] \in 1..Len(attempts[l[1]]) /\ l = <<l[1], l[2]>>
  BY <1>1 DEF Granted
<1>. QED  BY <1>1, <1>2, AttemptsType DEF LQInv, AttemptRow

\* The invariant implies that executors are exclusive.
LEMMA InvExclusive ==
    ASSUME LQInv
    PROVE  ExclusiveLease
<1>1. ASSUME NEW l \in ActiveLeases
      PROVE  LockCurrent(l[1], l[2], FALSE)
  <2>1. jobs[l[1]].state = "running" /\ jobs[l[1]].current = l[2]
        /\ workers[attempts[l[1]][l[2]].worker] = "busy"
    BY ActiveLease DEF LQInv, ActiveIsCurrent
  <2>2. jobs[l[1]].epoch = attempts[l[1]][l[2]].epoch
    BY <2>1, ActiveLease DEF LQInv, EpochCounts, RunningHasLease
  <2>. QED  BY <2>1, <2>2, ActiveLease DEF LockCurrent, Granted
<1>2. ASSUME NEW l \in ActiveLeases, NEW k \in ActiveLeases, l # k
      PROVE  /\ l[1] # k[1]
             /\ attempts[l[1]][l[2]].worker # attempts[k[1]][k[2]].worker
  <2>1. jobs[l[1]].state = "running" /\ jobs[l[1]].current = l[2]
        /\ jobs[k[1]].state = "running" /\ jobs[k[1]].current = k[2]
    BY ActiveLease DEF LQInv, ActiveIsCurrent
  <2>2. l[1] # k[1]
    <3>1. l = <<l[1], l[2]>> /\ k = <<k[1], k[2]>>
      BY ActiveLease
    <3>. QED  BY <1>2, <2>1, <3>1
  <2>. DEFINE w == attempts[l[1]][l[2]].worker
  <2>3. ASSUME attempts[k[1]][k[2]].worker = w
        PROVE  FALSE
    <3>1. w \in Workers /\ l[1] \in Jobs /\ k[1] \in Jobs
      BY ActiveLease
    <3>2. Holds(w, l[1]) /\ Holds(w, k[1])
      BY <2>1, <2>3 DEF Holds
    <3>. QED  BY <2>2, <3>1, <3>2 DEF LQInv, OneJobEach
  <2>. QED  BY <2>2, <2>3
<1>. QED  BY <1>1, <1>2 DEF ExclusiveLease

\* One executor per job and per worker, for any number of them.
THEOREM Exclusive == LQSpec => []ExclusiveLease
  BY Invariance, InvExclusive, PTL

\* The invariant implies that no row is stranded.
LEMMA InvNoStranded ==
    ASSUME LQInv
    PROVE  NoStrandedRow
<1>1. ASSUME NEW j \in Jobs, jobs[j].state = "running"
      PROVE  <<j, jobs[j].current>> \in ActiveLeases
  <2>1. Granted(j, jobs[j].current) /\ attempts[j][jobs[j].current].state = "active"
    BY <1>1 DEF LQInv, RunningHasLease
  <2>2. Len(attempts[j]) <= MaxAttempts /\ Len(attempts[j]) \in Nat
    BY AttemptsType DEF LQInv, RetryBudget
  <2>3. jobs[j].current \in 1..MaxAttempts
    BY <2>1, <2>2, LimitAssumption DEF Granted
  <2>. QED  BY <2>1, <2>3 DEF ActiveLeases, Leases
<1>2. ASSUME NEW w \in Workers, workers[w] = "busy"
      PROVE  \E l \in ActiveLeases : attempts[l[1]][l[2]].worker = w
  <2>1. PICK j \in Jobs : Holds(w, j)
    BY <1>2 DEF LQInv, BusyHolds
  <2>2. <<j, jobs[j].current>> \in ActiveLeases
    BY <1>1, <2>1 DEF Holds
  <2>. QED  BY <2>1, <2>2 DEF Holds
<1>. QED  BY <1>1, <1>2 DEF NoStrandedRow

\* No worker stays busy and no job stays running without an active attempt that
\* the reaper can end.
THEOREM NothingStranded == LQSpec => []NoStrandedRow
  BY Invariance, InvNoStranded, PTL

\* A job is never started more often than its retry budget allows.
THEOREM BudgetKept == LQSpec => []RetryBudget
<1>1. LQInv => RetryBudget
  BY DEF LQInv
<1>. QED  BY <1>1, Invariance, PTL

\* The invariant implies that epochs fence.
LEMMA InvEpochs ==
    ASSUME LQInv
    PROVE  EpochFences
  BY AttemptsType DEF LQInv, EpochCounts, EpochFences

\* Epochs are fencing tokens: later leases carry higher ones.
THEOREM EpochsFence == LQSpec => []EpochFences
  BY Invariance, InvEpochs, PTL

\* A cancellation is neither lost nor invented.
THEOREM CancelKept == LQSpec => []CancelIsSticky
<1>1. LQInv => CancelIsSticky
  BY DEF LQInv
<1>. QED  BY <1>1, Invariance, PTL

-----------------------------------------------------------------------------
(* A lost lease stays lost *)

\* A step that leaves a job and its attempts alone makes no lease of the job
\* current, unless it makes a worker busy.
LEMMA NoNewLease ==
    ASSUME NEW j \in Jobs, NEW n, LeaseCurrent(j, n)',
           jobs'[j] = jobs[j], attempts'[j] = attempts[j],
           workers[attempts[j][n].worker] = "busy"
    PROVE  LeaseCurrent(j, n)
  BY DEF LeaseCurrent, LockCurrent, Granted

\* The end of leases makes no lease current.
LEMMA EndMakesNone ==
    ASSUME LQInv, NEW S \in SUBSET Jobs, NEW m \in 1..MaxAttempts,
           EndLeases(S, m), NEW j \in Jobs, NEW n, LeaseCurrent(j, n)'
    PROVE  LeaseCurrent(j, n)
<1>1. jobs'[j].state = "running"
  BY DEF LeaseCurrent, LockCurrent
<1>2. j \notin S
  <2>1. SUFFICES ASSUME j \in S  PROVE FALSE
    OBVIOUS
  <2>2. jobs[j] \in JobRow
    BY DEF LQInv, LQTypeOK
  <2>3. jobs'[j].state = JobStateAfter[Outcome(j, m)]
    BY <2>1, <2>2 DEF EndLeases, JobRow
  <2>. QED  BY <1>1, <2>3 DEF JobStateAfter, Outcome
<1>3. jobs'[j] = jobs[j] /\ attempts'[j] = attempts[j]
  BY <1>2 DEF EndLeases
<1>4. n \in 1..Len(attempts[j]) /\ workers'[attempts[j][n].worker] = "busy"
  BY <1>3 DEF LeaseCurrent, LockCurrent, Granted
<1>5. attempts[j][n].worker \in Workers
  BY <1>4, AttemptsType DEF LQInv, AttemptRow
<1>6. workers[attempts[j][n].worker] = "busy"
  BY <1>4, <1>5 DEF EndLeases, ReleasedWorkers
<1>. QED  BY <1>3, <1>6, NoNewLease

\* No step makes a lease current that was granted before the step and was not
\* current then.
LEMMA StepMakesNone ==
    ASSUME LQInv, [LQNext]_lqVars, NEW j \in Jobs, NEW n \in 1..Len(attempts[j]),
           LeaseCurrent(j, n)'
    PROVE  LeaseCurrent(j, n)
<1>. DEFINE v == attempts[j][n].worker
<1>0. /\ jobs[j] \in JobRow /\ jobs'[j].state = "running" /\ ~jobs'[j].cancel
      /\ jobs'[j].current = n /\ n \in Nat /\ Len(attempts[j]) \in Nat
      /\ v \in Workers /\ attempts'[j][n].state = "active"
      /\ workers'[attempts'[j][n].worker] = "busy"
  <2>1. jobs[j] \in JobRow /\ attempts[j][n] \in AttemptRow /\ Len(attempts[j]) \in Nat
    BY AttemptsType DEF LQInv, LQTypeOK
  <2>2. /\ jobs'[j].state = "running" /\ ~jobs'[j].cancel /\ jobs'[j].current = n
        /\ attempts'[j][n].state = "active" /\ workers'[attempts'[j][n].worker] = "busy"
    BY DEF LeaseCurrent, LockCurrent
  <2>. QED  BY <2>1, <2>2 DEF AttemptRow
<1>1. CASE UNCHANGED lqVars
  BY <1>1 DEF lqVars, LeaseCurrent, LockCurrent, Granted
<1>2. ASSUME NEW k \in Jobs, CreateJob(k)
      PROVE  LeaseCurrent(j, n)
  <2>1. k # j
    BY <1>0, <1>2 DEF CreateJob, LQInv, LQTypeOK, JobRow
  <2>2. jobs'[j] = jobs[j] /\ attempts' = attempts /\ workers' = workers
    BY <1>2, <2>1 DEF CreateJob, LQInv, LQTypeOK
  <2>. QED  BY <1>0, <2>2, NoNewLease
<1>3. ASSUME NEW k \in Jobs, RequestCancel(k) \/ ApiRequestCancel(k)
      PROVE  LeaseCurrent(j, n)
  <2>1. k # j
    BY <1>0, <1>3 DEF RequestCancel, ApiRequestCancel, LQInv, LQTypeOK, JobRow
  <2>2. jobs'[j] = jobs[j] /\ attempts' = attempts /\ workers' = workers
    BY <1>3, <2>1 DEF RequestCancel, ApiRequestCancel, LQInv, LQTypeOK
  <2>. QED  BY <1>0, <2>2, NoNewLease
<1>4. ASSUME NEW w \in Workers, RegisterWorker(w)
      PROVE  LeaseCurrent(j, n)
  <2>1. jobs' = jobs /\ attempts' = attempts /\ workers' = [workers EXCEPT ![w] = "ready"]
    BY <1>4 DEF RegisterWorker
  <2>2. workers[v] = "busy"
    BY <1>0, <2>1 DEF LQInv, LQTypeOK
  <2>. QED  BY <2>1, <2>2, NoNewLease
<1>5. ASSUME NEW w \in Workers, NEW k \in Jobs, Grant(w, k)
      PROVE  LeaseCurrent(j, n)
  <2>1. k # j
    <3>1. SUFFICES ASSUME k = j  PROVE FALSE
      OBVIOUS
    <3>2. jobs'[j].current = Len(attempts[j]) + 1
      BY <1>0, <1>5, <3>1 DEF Grant, LQInv, LQTypeOK, JobRow
    <3>. QED  BY <1>0, <3>2
  <2>2. jobs'[j] = jobs[j] /\ attempts'[j] = attempts[j]
    BY <1>5, <2>1 DEF Grant, LQInv, LQTypeOK
  <2>3. workers[v] = "busy"
    BY <1>0, <2>2 DEF LQInv, ActiveIsCurrent
  <2>. QED  BY <2>2, <2>3, NoNewLease
<1>6. ASSUME NEW k \in Jobs, NEW m \in Nat, Heartbeat(k, m)
      PROVE  LeaseCurrent(j, n)
  <2>1. CASE k = j
    BY <1>0, <1>6, <2>1 DEF Heartbeat, LeaseCurrent, LockCurrent
  <2>2. CASE k # j
    <3>1. jobs'[j] = jobs[j] /\ attempts'[j] = attempts[j] /\ workers' = workers
      BY <1>6, <2>2 DEF Heartbeat, LQInv, LQTypeOK
    <3>. QED  BY <1>0, <3>1, NoNewLease
  <2>. QED  BY <2>1, <2>2
<1>7. ASSUME NEW k \in Jobs, NEW i, NEW m \in {1, MaxAttempts},
             CancelCurrent(k, i) \/ FailRetryable(k, i, m)
      PROVE  LeaseCurrent(j, n)
  <2>1. {k} \in SUBSET Jobs /\ m \in 1..MaxAttempts /\ 1 \in 1..MaxAttempts
    BY LimitAssumption
  <2>2. EndLeases({k}, 1) \/ EndLeases({k}, m)
    BY <1>7 DEF CancelCurrent, FailRetryable
  <2>. QED  BY <2>1, <2>2, EndMakesNone
<1>8. ASSUME NEW batch \in SUBSET Jobs, ReapExpired(batch)
      PROVE  LeaseCurrent(j, n)
  <2>1. EndLeases(batch, MaxAttempts) /\ MaxAttempts \in 1..MaxAttempts
    BY <1>8, LimitAssumption DEF ReapExpired
  <2>. QED  BY <2>1, EndMakesNone
<1>9. CASE Tick
  <2>1. workers' = workers
    BY <1>9 DEF Tick
  <2>2. /\ jobs'[j].state = jobs[j].state /\ jobs'[j].current = jobs[j].current
        /\ jobs'[j].epoch = jobs[j].epoch /\ jobs'[j].cancel = jobs[j].cancel
    BY <1>0, <1>9 DEF Tick, JobRow
  <2>3. attempts'[j][n] = [attempts[j][n] EXCEPT !.ttl = Before(@)]
    BY <1>0, <1>9 DEF Tick
  <2>4. attempts[j][n] \in AttemptRow
    BY AttemptsType DEF LQInv
  <2>5. /\ attempts'[j][n].worker = v
        /\ attempts'[j][n].epoch = attempts[j][n].epoch
        /\ attempts'[j][n].state = attempts[j][n].state
        /\ attempts'[j][n].ttl = Before(attempts[j][n].ttl)
    BY <2>3, <2>4 DEF AttemptRow
  <2>6. attempts'[j][n].ttl > 0 => attempts[j][n].ttl > 0
    BY <2>4, <2>5 DEF Before, AttemptRow
  <2>. QED  BY <2>1, <2>2, <2>5, <2>6 DEF LeaseCurrent, LockCurrent, Granted
<1>10. 1 \in {1, MaxAttempts} /\ \A l \in Leases : l[1] \in Jobs /\ l[2] \in Nat
  BY DEF Leases
<1>. QED  BY <1>1, <1>2, <1>3, <1>4, <1>5, <1>6, <1>7, <1>8, <1>9, <1>10
          DEF LQNext, QueueStep, ClaimNext

\* A lost lease is lost for ever, whatever the other workers, the clients, the
\* reaper and the clock do.
THEOREM LostForEver == LQSpec => StaleStaysStale
<1>1. LQInv /\ [LQNext]_lqVars =>
        [\A l \in Leases : ~LeaseCurrent(l[1], l[2]) => ~LeaseCurrent(l[1], l[2])']_lqVars
  <2>1. SUFFICES ASSUME LQInv, [LQNext]_lqVars, NEW l \in Leases,
                        LeaseCurrent(l[1], l[2])'
                 PROVE  LeaseCurrent(l[1], l[2])
    OBVIOUS
  <2>2. l[1] \in Jobs /\ l[2] \in 1..Len(attempts[l[1]])
    BY DEF Leases, Granted
  <2>. QED  BY <2>1, <2>2, StepMakesNone
<1>. QED  BY <1>1, Invariance, PTL DEF LQSpec, StaleStaysStale

-----------------------------------------------------------------------------
(* LeaseQueue implements JobLifecycle: every transaction of the queue is one
   step of the lifecycle or leaves what a client can see alone. *)


\* The worker of the current attempt of j, as the refinement mapping reads it.
Holder(j) ==
    IF jobs[j].state = "running"
    THEN {attempts[j][jobs[j].current].worker} ELSE {}

\* The initial states map to initial states.
LEMMA InitRefines ==
    ASSUME LQInit
    PROVE  Lifecycle!LifecycleInit
<1>1. /\ \A j \in Jobs : jobs[j].state = "absent" /\ jobs[j].cancel = FALSE
      /\ \A j \in Jobs : Len(attempts[j]) = 0
  BY EmptySeq DEF LQInit, AbsentJob
<1>. QED  BY <1>1 DEF Lifecycle!LifecycleInit

\* Steps that change neither states, flags, attempts nor executors are hidden.
LEMMA Hidden ==
    ASSUME \A j \in Jobs :
              /\ jobs'[j].state = jobs[j].state
              /\ jobs'[j].cancel = jobs[j].cancel
              /\ Len(attempts'[j]) = Len(attempts[j])
              /\ Holder(j)' = Holder(j)
    PROVE  UNCHANGED Lifecycle!lifecycleVars
  BY DEF Lifecycle!lifecycleVars, Holder

\* A heartbeat changes the expiry of one attempt only.
LEMMA HeartbeatHidden ==
    ASSUME LQInv, NEW j \in Jobs, NEW n \in Nat, Heartbeat(j, n)
    PROVE  UNCHANGED Lifecycle!lifecycleVars
<1>1. n \in 1..Len(attempts[j]) /\ jobs' = jobs /\ jobs[j].current = n
  BY DEF Heartbeat, LockCurrent, Granted
<1>. DEFINE r == [attempts[j][n] EXCEPT !.ttl = LeaseSeconds]
<1>2. r \in AttemptRow /\ attempts[j] \in Seq(AttemptRow)
      /\ r.worker = attempts[j][n].worker
  BY <1>1, AttemptsType, TimeAssumption DEF AttemptRow, LQInv
<1>3. attempts'[j] = [attempts[j] EXCEPT ![n] = r]
      /\ \A k \in Jobs : k # j => attempts'[k] = attempts[k]
  BY DEF Heartbeat, LQInv, LQTypeOK
<1>. HIDE DEF r
<1>4. /\ Len([attempts[j] EXCEPT ![n] = r]) = Len(attempts[j])
      /\ [attempts[j] EXCEPT ![n] = r][n] = r
  BY <1>1, <1>2, ExceptSeq
<1>5. ASSUME NEW k \in Jobs
      PROVE  Len(attempts'[k]) = Len(attempts[k]) /\ Holder(k)' = Holder(k)
  <2>1. CASE k = j
    BY <1>1, <1>2, <1>3, <1>4, <2>1 DEF Holder
  <2>2. CASE k # j
    BY <1>1, <1>3, <2>2 DEF Holder
  <2>. QED  BY <2>1, <2>2
<1>. QED  BY <1>1, <1>5, Hidden

\* The clock changes what is left of delays and leases only.
LEMMA TickHidden ==
    ASSUME LQInv, Tick
    PROVE  UNCHANGED Lifecycle!lifecycleVars
<1>1. ASSUME NEW j \in Jobs
      PROVE  /\ jobs'[j].state = jobs[j].state
             /\ jobs'[j].cancel = jobs[j].cancel
             /\ jobs'[j].current = jobs[j].current
  <2>1. jobs[j] \in JobRow
    BY DEF LQInv, LQTypeOK
  <2>. QED  BY <2>1 DEF Tick, JobRow
<1>2. ASSUME NEW j \in Jobs
      PROVE  /\ Len(attempts'[j]) = Len(attempts[j])
             /\ \A n \in 1..Len(attempts[j]) :
                    attempts'[j][n].worker = attempts[j][n].worker
  <2>1. Len(attempts[j]) \in Nat /\ \A n \in 1..Len(attempts[j]) : attempts[j][n] \in AttemptRow
    BY AttemptsType DEF LQInv
  <2>2. attempts'[j] = [n \in 1..Len(attempts[j]) |->
                            [attempts[j][n] EXCEPT !.ttl = Before(@)]]
    BY DEF Tick
  <2>3. attempts'[j] \in Seq(AttemptRow)
    BY TickType DEF LQInv, LQTypeOK
  <2>4. DOMAIN attempts'[j] = 1..Len(attempts[j]) /\ DOMAIN attempts'[j] = 1..Len(attempts'[j])
        /\ Len(attempts'[j]) \in Nat
    BY <2>2, <2>3, LenProperties
  <2>5. Len(attempts'[j]) = Len(attempts[j])
    BY <2>1, <2>4
  <2>. QED  BY <2>1, <2>2, <2>5 DEF AttemptRow
<1>3. ASSUME NEW j \in Jobs
      PROVE  Holder(j)' = Holder(j)
  BY <1>1, <1>2 DEF Holder, LQInv, RunningHasLease, Granted
<1>. QED  BY <1>1, <1>2, <1>3, Hidden

\* create_job is the client's Submit.
LEMMA CreateRefines ==
    ASSUME LQInv, NEW j \in Jobs, CreateJob(j)
    PROVE  Lifecycle!Submit(j)
<1>1. /\ jobs[j].state = "absent"
      /\ \A k \in Jobs : jobs[k] \in JobRow
      /\ jobs'[j].state = "queued" /\ jobs'[j].cancel = jobs[j].cancel
      /\ \A k \in Jobs : k # j => jobs'[k] = jobs[k]
      /\ attempts' = attempts
  BY DEF CreateJob, LQInv, LQTypeOK, JobRow
<1>2. \A k \in Jobs : Holder(k)' = Holder(k) /\ jobs'[k].cancel = jobs[k].cancel
  BY <1>1 DEF Holder
<1>. QED  BY <1>1, <1>2 DEF Lifecycle!Submit, Holder

\* Both cancellation paths are the client's AskCancel.
LEMMA CancelRefines ==
    ASSUME LQInv, NEW j \in Jobs, RequestCancel(j) \/ ApiRequestCancel(j)
    PROVE  Lifecycle!AskCancel(j)
<1>1. /\ jobs[j].state \in {"queued", "running"}
      /\ jobs[j] \in JobRow
      /\ jobs'[j] = [jobs[j] EXCEPT !.state = IF @ = "queued" THEN "cancelled" ELSE @,
                                    !.cancel = TRUE]
      /\ \A k \in Jobs : k # j => jobs'[k] = jobs[k]
      /\ attempts' = attempts
  BY DEF RequestCancel, ApiRequestCancel, LQInv, LQTypeOK
<1>2. /\ jobs'[j].state = (IF jobs[j].state = "queued" THEN "cancelled" ELSE jobs[j].state)
      /\ jobs'[j].cancel = TRUE
      /\ jobs'[j].current = jobs[j].current
  BY <1>1 DEF JobRow
<1>3. \A k \in Jobs : Holder(k)' = Holder(k)
  BY <1>1, <1>2 DEF Holder
<1>4. /\ [k \in Jobs |-> jobs'[k].cancel]
         = [[k \in Jobs |-> jobs[k].cancel] EXCEPT ![j] = TRUE]
      /\ [k \in Jobs |-> Holder(k)'] = [k \in Jobs |-> Holder(k)]
      /\ [k \in Jobs |-> Len(attempts'[k])] = [k \in Jobs |-> Len(attempts[k])]
  BY <1>1, <1>2, <1>3
<1>5. CASE jobs[j].state = "queued"
  <2>1. [k \in Jobs |-> jobs'[k].state]
        = [[k \in Jobs |-> jobs[k].state] EXCEPT ![j] = "cancelled"]
    BY <1>1, <1>2, <1>5
  <2>. QED  BY <1>4, <1>5, <2>1 DEF Lifecycle!AskCancel, Holder
<1>6. CASE jobs[j].state = "running"
  <2>1. [k \in Jobs |-> jobs'[k].state] = [k \in Jobs |-> jobs[k].state]
    BY <1>1, <1>2, <1>6
  <2>. QED  BY <1>4, <1>6, <2>1 DEF Lifecycle!AskCancel, Holder
<1>. QED  BY <1>1, <1>5, <1>6

\* A claim is a Start: its worker executes nothing else and the budget is not
\* used up, although claim_next looks at neither.
LEMMA ClaimRefines ==
    ASSUME LQInv, NEW w \in Workers, NEW j \in Jobs, NEW locked \in SUBSET Jobs,
           ClaimNext(w, j, locked)
    PROVE  Lifecycle!Start(j, w)
<1>. DEFINE r == [worker |-> w, epoch |-> NextEpoch(j), state |-> "active",
                  ttl |-> LeaseSeconds]
            N == Len(attempts[j])
<1>1. /\ jobs[j].state = "queued" /\ ~jobs[j].cancel /\ workers[w] = "ready"
      /\ Grant(w, j)
  BY DEF ClaimNext, Claimable
<1>2. N < MaxAttempts
  BY <1>1 DEF LQInv, RetryBudget
<1>3. ASSUME NEW k \in Jobs
      PROVE  w \notin Holder(k)
  BY <1>1 DEF Holder, LQInv, RunningHasLease, ActiveIsCurrent, Granted
<1>4. jobs[j] \in JobRow /\ attempts[j] \in Seq(AttemptRow) /\ N \in Nat
  BY AttemptsType DEF LQInv, LQTypeOK
<1>5. /\ jobs'[j].state = "running" /\ jobs'[j].current = N + 1
      /\ jobs'[j].cancel = jobs[j].cancel
      /\ \A k \in Jobs : k # j => jobs'[k] = jobs[k] /\ attempts'[k] = attempts[k]
      /\ attempts'[j] = Append(attempts[j], r)
  BY <1>1, <1>4 DEF Grant, LQInv, LQTypeOK, JobRow
<1>6. r \in AttemptRow /\ r.worker = w
  BY <1>4, TimeAssumption DEF AttemptRow, AttemptState, NextEpoch, JobRow
<1>. HIDE DEF r
<1>7. Len(attempts'[j]) = N + 1 /\ attempts'[j][N + 1] = r
  BY <1>4, <1>5, <1>6, AppendProperties
<1>8. Holder(j)' = {w} /\ \A k \in Jobs : k # j => Holder(k)' = Holder(k)
  BY <1>5, <1>6, <1>7 DEF Holder
<1>. QED  BY <1>1, <1>2, <1>3, <1>5, <1>7, <1>8 DEF Lifecycle!Start, Holder

\* The end of leases is a Finish of their jobs.
LEMMA EndRefines ==
    ASSUME LQInv, LQInv', NEW S \in SUBSET Jobs, S # {}, NEW m \in 1..MaxAttempts,
           \A j \in S : jobs[j].state = "running",
           EndLeases(S, m)
    PROVE  Lifecycle!Finish(S)
<1>1. \A j \in Jobs \ S : jobs'[j] = jobs[j] /\ attempts'[j] = attempts[j]
  BY DEF EndLeases
<1>2. ASSUME NEW j \in S
      PROVE  /\ jobs'[j].state = JobStateAfter[Outcome(j, m)]
             /\ jobs'[j].cancel = jobs[j].cancel
  <2>1. jobs[j] \in JobRow
    BY DEF LQInv, LQTypeOK
  <2>. QED  BY <2>1 DEF EndLeases, JobRow
<1>3. ASSUME NEW j \in S
      PROVE  jobs[j].current = Len(attempts[j]) /\ Len(attempts[j]) \in Nat
  BY AttemptsType DEF LQInv, RunningHasLease
<1>4. \A j \in Jobs : Len(attempts'[j]) = Len(attempts[j])
  <2>1. ASSUME NEW j \in S
        PROVE  Len(attempts'[j]) = Len(attempts[j])
    <3>1. jobs'[j].epoch = jobs[j].epoch
      <4>1. jobs[j] \in JobRow
        BY DEF LQInv, LQTypeOK
      <4>. QED  BY <4>1 DEF EndLeases, JobRow
    <3>. QED  BY <3>1 DEF LQInv, EpochCounts
  <2>. QED  BY <1>1, <2>1
<1>5. ASSUME NEW j \in S
      PROVE  /\ jobs[j].cancel => jobs'[j].state = "cancelled"
             /\ ~jobs[j].cancel =>
                    \/ jobs'[j].state = "failed"
                    \/ jobs'[j].state = "queued" /\ Len(attempts[j]) < MaxAttempts
  BY <1>2, <1>3, LimitAssumption DEF JobStateAfter, Outcome
<1>6. \A j \in Jobs : jobs'[j].state \in {"absent", "queued", "running", "succeeded",
                                          "failed", "cancelled"}
  BY DEF LQInv, LQTypeOK, JobRow, JobState, TerminalJob
<1>7. \A j \in Jobs : Holder(j)' = IF j \in S THEN {} ELSE Holder(j)
  BY <1>1, <1>5 DEF Holder
<1>8. \A j \in Jobs : jobs'[j].cancel = jobs[j].cancel
  BY <1>1, <1>2
<1>. QED  BY <1>1, <1>4, <1>5, <1>6, <1>7, <1>8 DEF Lifecycle!Finish, Lifecycle!After, Holder

\* Every step of the queue is a step of the lifecycle or hidden.
LEMMA StepRefines ==
    ASSUME LQInv, LQInv', [LQNext]_lqVars
    PROVE  [Lifecycle!LifecycleNext]_(Lifecycle!lifecycleVars)
<1>1. CASE UNCHANGED lqVars
  BY <1>1, Hidden DEF lqVars, Holder
<1>2. ASSUME NEW j \in Jobs, CreateJob(j) \/ RequestCancel(j) \/ ApiRequestCancel(j)
      PROVE  Lifecycle!LifecycleNext
  BY <1>2, CreateRefines, CancelRefines DEF Lifecycle!LifecycleNext
<1>3. ASSUME NEW w \in Workers, RegisterWorker(w)
      PROVE  UNCHANGED Lifecycle!lifecycleVars
  BY <1>3, Hidden DEF RegisterWorker, Holder
<1>4. ASSUME NEW w \in Workers, NEW j \in Jobs, NEW locked \in SUBSET Jobs,
             ClaimNext(w, j, locked)
      PROVE  Lifecycle!LifecycleNext
  BY <1>4, ClaimRefines DEF Lifecycle!LifecycleNext
<1>5. ASSUME NEW l \in Leases, Heartbeat(l[1], l[2])
      PROVE  UNCHANGED Lifecycle!lifecycleVars
  <2>1. l[1] \in Jobs /\ l[2] \in Nat
    BY DEF Leases
  <2>. QED  BY <1>5, <2>1, HeartbeatHidden
<1>6. ASSUME NEW l \in Leases, NEW m \in {1, MaxAttempts},
             CancelCurrent(l[1], l[2]) \/ FailRetryable(l[1], l[2], m)
      PROVE  Lifecycle!LifecycleNext
  <2>1. {l[1]} \in SUBSET Jobs /\ m \in 1..MaxAttempts /\ 1 \in 1..MaxAttempts
        /\ {l[1]} # {} /\ l[1] \in Jobs
    BY LimitAssumption DEF Leases
  <2>2. jobs[l[1]].state = "running"
    BY <1>6, <2>1, LockedIsGranted DEF CancelCurrent, FailRetryable
  <2>3. EndLeases({l[1]}, 1) \/ EndLeases({l[1]}, m)
    BY <1>6 DEF CancelCurrent, FailRetryable
  <2>4. Lifecycle!Finish({l[1]})
    BY <2>1, <2>2, <2>3, EndRefines
  <2>. QED  BY <2>1, <2>4 DEF Lifecycle!LifecycleNext
<1>7. ASSUME NEW batch \in SUBSET Jobs, ReapExpired(batch)
      PROVE  Lifecycle!LifecycleNext
  <2>1. \A j \in batch : jobs[j].state = "running"
    BY <1>7, LockedIsGranted DEF ReapExpired, Expired
  <2>2. EndLeases(batch, MaxAttempts) /\ MaxAttempts \in 1..MaxAttempts /\ batch # {}
    BY <1>7, LimitAssumption DEF ReapExpired
  <2>3. Lifecycle!Finish(batch)
    BY <2>1, <2>2, EndRefines
  <2>. QED  BY <2>3 DEF Lifecycle!LifecycleNext
<1>8. CASE Tick
  BY <1>8, TickHidden
<1>9. 1 \in {1, MaxAttempts}
  OBVIOUS
<1>. QED  BY <1>1, <1>2, <1>3, <1>4, <1>5, <1>6, <1>7, <1>8, <1>9 DEF LQNext, QueueStep

\* The queue implements the lifecycle that clients are promised, for any number
\* of jobs, workers and attempts.
THEOREM QueueImplementsLifecycle == LQSpec => ImplementsLifecycle
  BY InitRefines, StepRefines, Invariance, PTL
     DEF LQSpec, ImplementsLifecycle, Lifecycle!LifecycleSpec

-----------------------------------------------------------------------------
(* The event log tells the history of the attempts.  The lemmas are about a log
   and the attempt rows it speaks of, whatever step wrote them. *)

LogOf(log, types, n) == {i \in DOMAIN log : log[i].type \in types /\ log[i].attempt = n}

\* The two halves of AuditTrail for one attempt.
StartLogged(log, n) ==
    \E s \in DOMAIN log :
        /\ LogOf(log, {"attempt_started"}, n) = {s}
        /\ n > 1 => \E c \in LogOf(log, ClosingEvents, n - 1) : c < s
EndLogged(log, state, n) ==
    IF state = "active"
    THEN LogOf(log, ClosingEvents, n) = {}
    ELSE \E c \in DOMAIN log :
            /\ LogOf(log, ClosingEvents, n) = {c}
            /\ log[c].type = ClosedBy[state]

\* The log of a job is as it must be.
Logged(log, rows) ==
    /\ \A n \in 1..Len(rows) : StartLogged(log, n) /\ EndLogged(log, rows[n].state, n)
    /\ \A i \in DOMAIN log :
        log[i].type \in ClosingEvents \cup {"attempt_started"} => log[i].attempt \in 1..Len(rows)

\* All logs are as they must be.
LEMMA LoggedIsAudit ==
    AuditTrail /\ EventsOfGranted <=> \A j \in Jobs : Logged(events[j], attempts[j])
  BY DEF AuditTrail, EventsOfGranted, Granted, EventsOf, Logged, StartLogged, EndLogged, LogOf

\* A log stays right when no state of an attempt changes.
LEMMA SameLog ==
    ASSUME NEW log, NEW rows, NEW new, Logged(log, rows), Len(new) = Len(rows),
           \A n \in 1..Len(rows) : new[n].state = rows[n].state
    PROVE  Logged(log, new)
  BY DEF Logged

\* What an event that is appended adds to a log.
LEMMA Appended ==
    ASSUME NEW log \in Seq(EventRow), NEW t \in EventType, NEW a \in Nat
    PROVE  LET new == Append(log, [type |-> t, attempt |-> a])
               p == Len(log) + 1
           IN  /\ p \in Nat /\ p \notin DOMAIN log /\ DOMAIN new = DOMAIN log \cup {p}
               /\ new[p].type = t /\ new[p].attempt = a
               /\ \A i \in DOMAIN log : i < p /\ new[i] = log[i]
               /\ \A types, n : IF t \in types /\ a = n
                                 THEN LogOf(new, types, n) = LogOf(log, types, n) \cup {p}
                                 ELSE LogOf(new, types, n) = LogOf(log, types, n)
<1>. DEFINE e == [type |-> t, attempt |-> a]
            new == Append(log, e)
            p == Len(log) + 1
<1>1. e \in EventRow /\ e.type = t /\ e.attempt = a
  BY DEF EventRow
<1>. HIDE DEF e
<1>2. /\ Len(log) \in Nat /\ DOMAIN log = 1..Len(log)
      /\ DOMAIN new = 1..p /\ new[p] = e
      /\ \A i \in 1..Len(log) : new[i] = log[i]
  <2>1. /\ Append(log, e) \in Seq(EventRow)
        /\ Len(Append(log, e)) = p
        /\ \A i \in 1..Len(log) : Append(log, e)[i] = log[i]
        /\ Append(log, e)[p] = e
    BY <1>1, AppendProperties
  <2>2. DOMAIN Append(log, e) = 1..p
    BY <2>1, LenProperties
  <2>. QED  BY <2>1, <2>2, LenProperties
<1>3. p \in Nat /\ p \notin DOMAIN log /\ DOMAIN new = DOMAIN log \cup {p}
      /\ \A i \in DOMAIN log : i < p
  BY <1>2
<1>. HIDE DEF p, new
<1>4. ASSUME NEW types, NEW n
      PROVE  IF t \in types /\ a = n
             THEN LogOf(new, types, n) = LogOf(log, types, n) \cup {p}
             ELSE LogOf(new, types, n) = LogOf(log, types, n)
  BY <1>1, <1>2, <1>3 DEF LogOf
<1>5. /\ p \in Nat /\ p \notin DOMAIN log /\ DOMAIN new = DOMAIN log \cup {p}
      /\ new[p].type = t /\ new[p].attempt = a
      /\ \A i \in DOMAIN log : i < p /\ new[i] = log[i]
      /\ \A types, n : IF t \in types /\ a = n
                        THEN LogOf(new, types, n) = LogOf(log, types, n) \cup {p}
                        ELSE LogOf(new, types, n) = LogOf(log, types, n)
  BY <1>1, <1>2, <1>3, <1>4
<1>. QED  BY <1>5 DEF new, p, e

\* An event that neither starts nor closes an attempt.
LEMMA OtherLog ==
    ASSUME NEW log \in Seq(EventRow), NEW rows, Logged(log, rows), NEW a \in Nat,
           NEW t \in {"job_created", "cancel_requested"}
    PROVE  Logged(Append(log, [type |-> t, attempt |-> a]), rows)
<1>. DEFINE new == Append(log, [type |-> t, attempt |-> a])
            p == Len(log) + 1
<1>1. t \in EventType /\ t \notin ClosingEvents /\ t # "attempt_started"
  BY DEF EventType, ClosingEvents
<1>2. /\ DOMAIN new = DOMAIN log \cup {p}
      /\ new[p].type = t
      /\ \A i \in DOMAIN log : new[i] = log[i]
      /\ \A types, n : IF t \in types /\ a = n
                        THEN LogOf(new, types, n) = LogOf(log, types, n) \cup {p}
                        ELSE LogOf(new, types, n) = LogOf(log, types, n)
  BY <1>1, Appended
<1>. HIDE DEF new, p
<1>3. \A n : /\ LogOf(new, ClosingEvents, n) = LogOf(log, ClosingEvents, n)
             /\ LogOf(new, {"attempt_started"}, n) = LogOf(log, {"attempt_started"}, n)
  BY <1>1, <1>2
<1>4. ASSUME NEW n \in 1..Len(rows)  PROVE StartLogged(new, n)
  BY <1>2, <1>3 DEF Logged, StartLogged
<1>5. ASSUME NEW n \in 1..Len(rows)  PROVE EndLogged(new, rows[n].state, n)
  <2>1. EndLogged(log, rows[n].state, n)
    BY DEF Logged
  <2>2. \A c \in DOMAIN log : c \in DOMAIN new /\ new[c] = log[c]
    BY <1>2
  <2>. QED  BY <1>3, <2>1, <2>2 DEF EndLogged
<1>6. ASSUME NEW i \in DOMAIN new, new[i].type \in ClosingEvents \cup {"attempt_started"}
      PROVE  new[i].attempt \in 1..Len(rows)
  BY <1>1, <1>2, <1>6 DEF Logged
<1>7. Logged(new, rows)
  BY <1>4, <1>5, <1>6 DEF Logged
<1>. QED  BY <1>7 DEF new

\* The start of the next attempt, when the one before it has ended.
LEMMA StartLog ==
    ASSUME NEW log \in Seq(EventRow), NEW rows \in Seq(AttemptRow), Logged(log, rows),
           NEW row \in AttemptRow, row.state = "active",
           Len(rows) > 0 => rows[Len(rows)].state # "active"
    PROVE  Logged(Append(log, [type |-> "attempt_started", attempt |-> Len(rows) + 1]),
                  Append(rows, row))
<1>. DEFINE N == Len(rows)
            t == "attempt_started"
            new == Append(log, [type |-> t, attempt |-> N + 1])
            more == Append(rows, row)
            p == Len(log) + 1
<1>1. t \in EventType /\ t \notin ClosingEvents /\ N \in Nat
  BY LenProperties DEF EventType, ClosingEvents
<1>2. /\ DOMAIN new = DOMAIN log \cup {p}
      /\ new[p].type = t /\ new[p].attempt = N + 1
      /\ \A i \in DOMAIN log : i < p /\ new[i] = log[i]
      /\ \A types, n : IF t \in types /\ N + 1 = n
                        THEN LogOf(new, types, n) = LogOf(log, types, n) \cup {p}
                        ELSE LogOf(new, types, n) = LogOf(log, types, n)
  BY <1>1, Appended
<1>3. Len(more) = N + 1 /\ more[N + 1] = row /\ \A n \in 1..N : more[n] = rows[n]
  BY AppendProperties
<1>. HIDE DEF new, p, more, N
<1>4. /\ \A n : LogOf(new, ClosingEvents, n) = LogOf(log, ClosingEvents, n)
      /\ \A n \in 1..N : LogOf(new, {"attempt_started"}, n) = LogOf(log, {"attempt_started"}, n)
  BY <1>1, <1>2
<1>5. /\ LogOf(log, {"attempt_started"}, N + 1) = {}
      /\ LogOf(log, ClosingEvents, N + 1) = {}
  <2>1. \A i \in DOMAIN log :
          log[i].type \in ClosingEvents \cup {"attempt_started"} => log[i].attempt # N + 1
    BY <1>1 DEF Logged, N
  <2>. QED  BY <2>1 DEF LogOf
<1>6. StartLogged(new, N + 1)
  <2>1. SUFFICES ASSUME NEW k \in Nat, k = N + 1  PROVE StartLogged(new, k)
    BY <1>1
  <2>2. LogOf(new, {"attempt_started"}, k) = {p} /\ p \in DOMAIN new
    BY <1>2, <1>5, <2>1
  <2>3. ASSUME k > 1  PROVE \E c \in LogOf(new, ClosingEvents, k - 1) : c < p
    <3>1. N \in 1..N /\ N > 0 /\ k - 1 = N
      BY <1>1, <2>1, <2>3
    <3>2. EndLogged(log, rows[N].state, N) /\ rows[N].state # "active"
      BY <3>1 DEF Logged, N
    <3>3. PICK c \in DOMAIN log : LogOf(log, ClosingEvents, N) = {c}
      BY <3>2 DEF EndLogged
    <3>4. LogOf(new, ClosingEvents, k - 1) = {c} /\ c < p
      BY <1>2, <1>4, <3>1, <3>3
    <3>. QED  BY <3>4
  <2>. QED  BY <2>2, <2>3 DEF StartLogged
<1>7. EndLogged(new, row.state, N + 1)
  BY <1>4, <1>5 DEF EndLogged
<1>8. ASSUME NEW n \in 1..N  PROVE StartLogged(new, n) /\ EndLogged(new, rows[n].state, n)
  <2>1. StartLogged(log, n) /\ EndLogged(log, rows[n].state, n)
    BY DEF Logged, N
  <2>2. \A c \in DOMAIN log : c \in DOMAIN new /\ new[c] = log[c]
    BY <1>2
  <2>3. StartLogged(new, n)
    BY <1>4, <2>1, <2>2 DEF StartLogged
  <2>4. EndLogged(new, rows[n].state, n)
    BY <1>4, <2>1, <2>2 DEF EndLogged
  <2>. QED  BY <2>3, <2>4
<1>9. \A n \in 1..Len(more) : StartLogged(new, n) /\ EndLogged(new, more[n].state, n)
  <2>1. \A n \in 1..Len(more) : n = N + 1 \/ n \in 1..N
    BY <1>1, <1>3
  <2>. QED  BY <1>3, <1>6, <1>7, <1>8, <2>1
<1>10. ASSUME NEW i \in DOMAIN new, new[i].type \in ClosingEvents \cup {"attempt_started"}
       PROVE  new[i].attempt \in 1..Len(more)
  <2>1. CASE i = p
    BY <1>1, <1>2, <1>3, <2>1
  <2>2. CASE i \in DOMAIN log
    <3>1. log[i].attempt \in 1..N
      BY <1>2, <1>10, <2>2 DEF Logged, N
    <3>. QED  BY <1>1, <1>2, <1>3, <2>2, <3>1
  <2>. QED  BY <1>2, <2>1, <2>2
<1>11. Logged(new, more)
  BY <1>9, <1>10 DEF Logged
<1>. QED  BY <1>11 DEF new, more, N

\* The end of the last attempt, with the event that its final state calls for.
LEMMA EndLog ==
    ASSUME NEW log \in Seq(EventRow), NEW rows, NEW ends, Logged(log, rows),
           NEW N \in Nat, N > 0, Len(rows) = N, Len(ends) = N,
           rows[N].state = "active", ends[N].state # "active",
           \A n \in 1..N : n # N => ends[n].state = rows[n].state,
           NEW t \in ClosingEvents, t = ClosedBy[ends[N].state]
    PROVE  Logged(Append(log, [type |-> t, attempt |-> N]), ends)
<1>. DEFINE new == Append(log, [type |-> t, attempt |-> N])
            p == Len(log) + 1
<1>1. t \in EventType /\ t # "attempt_started"
  BY DEF EventType, ClosingEvents
<1>2. /\ DOMAIN new = DOMAIN log \cup {p}
      /\ new[p].type = t /\ new[p].attempt = N
      /\ \A i \in DOMAIN log : i < p /\ new[i] = log[i]
      /\ \A types, n : IF t \in types /\ N = n
                        THEN LogOf(new, types, n) = LogOf(log, types, n) \cup {p}
                        ELSE LogOf(new, types, n) = LogOf(log, types, n)
  BY <1>1, Appended
<1>. HIDE DEF new, p
<1>3. /\ \A n : LogOf(new, {"attempt_started"}, n) = LogOf(log, {"attempt_started"}, n)
      /\ \A n : n # N => LogOf(new, ClosingEvents, n) = LogOf(log, ClosingEvents, n)
      /\ \A n : LogOf(log, ClosingEvents, n) \subseteq LogOf(new, ClosingEvents, n)
      /\ LogOf(new, ClosingEvents, N) = LogOf(log, ClosingEvents, N) \cup {p}
  BY <1>1, <1>2
<1>4. \A c \in DOMAIN log : c \in DOMAIN new /\ new[c] = log[c]
  BY <1>2
<1>5. ASSUME NEW n \in 1..N  PROVE StartLogged(new, n)
  <2>1. StartLogged(log, n)
    BY DEF Logged
  <2>. QED  BY <1>3, <1>4, <2>1 DEF StartLogged
<1>6. ASSUME NEW n \in 1..N  PROVE EndLogged(new, ends[n].state, n)
  <2>1. EndLogged(log, rows[n].state, n)
    BY DEF Logged
  <2>2. CASE n = N
    <3>1. LogOf(new, ClosingEvents, N) = {p}
      BY <1>3, <2>1, <2>2 DEF EndLogged
    <3>. QED  BY <1>2, <2>2, <3>1 DEF EndLogged
  <2>3. CASE n # N
    BY <1>3, <1>4, <2>1, <2>3 DEF EndLogged
  <2>. QED  BY <2>2, <2>3
<1>7. ASSUME NEW i \in DOMAIN new, new[i].type \in ClosingEvents \cup {"attempt_started"}
      PROVE  new[i].attempt \in 1..N
  <2>1. CASE i = p
    BY <1>2, <2>1
  <2>2. CASE i \in DOMAIN log
    <3>1. log[i].attempt \in 1..N
      BY <1>2, <1>7, <2>2 DEF Logged
    <3>. QED  BY <1>2, <2>2, <3>1
  <2>. QED  BY <1>2, <2>1, <2>2
<1>8. Logged(new, ends)
  BY <1>5, <1>6, <1>7 DEF Logged
<1>. QED  BY <1>8 DEF new

AuditInv == AuditTrail /\ EventsOfGranted

\* The logs after a step are right when each of them is.
LEMMA LoggedNext ==
    ASSUME \A j \in Jobs : Logged(events'[j], attempts'[j])
    PROVE  AuditInv'
  BY DEF AuditInv, AuditTrail, EventsOfGranted, Granted, EventsOf, Logged, StartLogged,
         EndLogged, LogOf

\* The end of leases closes the log of every lease it ends.
LEMMA EndLeasesAudit ==
    ASSUME LQInv, AuditInv, NEW S \in SUBSET Jobs, NEW m \in 1..MaxAttempts,
           \A j \in S : jobs[j].state = "running",
           EndLeases(S, m)
    PROVE  AuditInv'
<1>1. SUFFICES ASSUME NEW j \in Jobs  PROVE Logged(events'[j], attempts'[j])
  BY LoggedNext
<1>2. Logged(events[j], attempts[j])
  BY LoggedIsAudit DEF AuditInv
<1>3. CASE j \notin S
  BY <1>2, <1>3 DEF EndLeases
<1>4. CASE j \in S
  <2>1. PICK N \in Nat : N = Len(attempts[j])
    BY AttemptsType DEF LQInv
  <2>2. N > 0 /\ jobs[j].current = N /\ attempts[j][N].state = "active"
    BY <1>4, <2>1 DEF LQInv, RunningHasLease, Granted
  <2>3. PICK o \in {"cancelled", "failed_terminal", "failed_retryable"} : o = Outcome(j, m)
    BY DEF Outcome
  <2>4. /\ EventAfter[o] \in ClosingEvents /\ EventAfter[o] = ClosedBy[o] /\ o # "active"
    BY <2>3 DEF EventAfter, ClosedBy, ClosingEvents
  <2>5. events'[j] = Append(events[j], [type |-> EventAfter[o], attempt |-> N])
    BY <1>4, <2>2, <2>3 DEF EndLeases, CloseEvents, Emit
  <2>. DEFINE r1 == [attempts[j][N] EXCEPT !.state = o]
              r == [r1 EXCEPT !.ttl = 0]
  <2>6. attempts[j] \in Seq(AttemptRow) /\ N \in 1..Len(attempts[j])
        /\ attempts[j][N] \in AttemptRow
    BY <2>1, <2>2, AttemptsType DEF LQInv
  <2>7. r1 \in AttemptRow /\ r1.state = o
    BY <2>3, <2>6 DEF AttemptRow, AttemptState
  <2>8. r \in AttemptRow /\ r.state = o
    <3>. HIDE DEF r1
    <3>. QED  BY <2>7 DEF AttemptRow
  <2>9. attempts'[j] = [attempts[j] EXCEPT ![N] = r]
    <3>1. attempts'[j] = [attempts[j] EXCEPT ![N].state = o, ![N].ttl = 0]
      BY <1>4, <2>2, <2>3 DEF EndLeases
    <3>. QED  BY <2>6, <3>1, LenProperties
  <2>. HIDE DEF r
  <2>10. /\ Len(attempts'[j]) = N
         /\ \A n \in 1..N : attempts'[j][n] = IF n = N THEN r ELSE attempts[j][n]
    BY <2>1, <2>6, <2>8, <2>9, ExceptSeq
  <2>11. events[j] \in Seq(EventRow)
    BY DEF LQInv, LQTypeOK
  <2>12. attempts'[j][N].state = o /\ \A n \in 1..N : n # N => attempts'[j][n].state = attempts[j][n].state
    BY <2>2, <2>8, <2>10
  <2>13. Logged(Append(events[j], [type |-> EventAfter[o], attempt |-> N]), attempts'[j])
    BY <1>2, <2>1, <2>2, <2>4, <2>10, <2>11, <2>12, EndLog
  <2>. QED  BY <2>5, <2>13
<1>. QED  BY <1>3, <1>4

\* A step that writes at most an event about the job itself keeps the logs.
LEMMA QuietAudit ==
    ASSUME LQInv, AuditInv,
           \A j \in Jobs :
              /\ Len(attempts'[j]) = Len(attempts[j])
              /\ \A n \in 1..Len(attempts[j]) : attempts'[j][n].state = attempts[j][n].state
              /\ \/ events'[j] = events[j]
                 \/ \E t \in {"job_created", "cancel_requested"}, a \in Nat :
                        events'[j] = Emit(j, t, a)
    PROVE  AuditInv'
<1>1. SUFFICES ASSUME NEW j \in Jobs  PROVE Logged(events'[j], attempts'[j])
  BY LoggedNext
<1>2. Logged(events[j], attempts[j]) /\ events[j] \in Seq(EventRow)
  BY LoggedIsAudit DEF AuditInv, LQInv, LQTypeOK
<1>3. Logged(events[j], attempts'[j])
  BY <1>2, SameLog
<1>4. ASSUME NEW t \in {"job_created", "cancel_requested"}, NEW a \in Nat,
             events'[j] = Emit(j, t, a)
      PROVE  Logged(events'[j], attempts'[j])
  BY <1>2, <1>3, <1>4, OtherLog DEF Emit
<1>. QED  BY <1>3, <1>4

\* A heartbeat and the clock change no state of an attempt.
LEMMA RenewalStates ==
    ASSUME LQInv, Tick \/ \E j \in Jobs, n \in Nat : Heartbeat(j, n)
    PROVE  /\ events' = events
           /\ \A j \in Jobs :
                /\ Len(attempts'[j]) = Len(attempts[j])
                /\ \A n \in 1..Len(attempts[j]) : attempts'[j][n].state = attempts[j][n].state
<1>1. ASSUME Tick, NEW j \in Jobs
      PROVE  /\ Len(attempts'[j]) = Len(attempts[j])
             /\ \A n \in 1..Len(attempts[j]) : attempts'[j][n].state = attempts[j][n].state
  <2>1. Len(attempts[j]) \in Nat /\ \A n \in 1..Len(attempts[j]) : attempts[j][n] \in AttemptRow
    BY AttemptsType DEF LQInv
  <2>2. attempts'[j] = [n \in 1..Len(attempts[j]) |->
                            [attempts[j][n] EXCEPT !.ttl = Before(@)]]
    BY <1>1 DEF Tick
  <2>3. attempts'[j] \in Seq(AttemptRow)
    BY <1>1, TickType DEF LQInv, LQTypeOK
  <2>4. DOMAIN attempts'[j] = 1..Len(attempts[j]) /\ DOMAIN attempts'[j] = 1..Len(attempts'[j])
        /\ Len(attempts'[j]) \in Nat
    BY <2>2, <2>3, LenProperties
  <2>5. Len(attempts'[j]) = Len(attempts[j])
    BY <2>1, <2>4
  <2>. QED  BY <2>1, <2>2, <2>5 DEF AttemptRow
<1>2. ASSUME NEW j \in Jobs, NEW n \in Nat, Heartbeat(j, n), NEW k \in Jobs
      PROVE  /\ Len(attempts'[k]) = Len(attempts[k])
             /\ \A i \in 1..Len(attempts[k]) : attempts'[k][i].state = attempts[k][i].state
  <2>1. n \in 1..Len(attempts[j])
    BY <1>2 DEF Heartbeat, LockCurrent, Granted
  <2>. DEFINE r == [attempts[j][n] EXCEPT !.ttl = LeaseSeconds]
  <2>2. r \in AttemptRow /\ attempts[j] \in Seq(AttemptRow) /\ r.state = attempts[j][n].state
    BY <2>1, AttemptsType, TimeAssumption DEF AttemptRow, LQInv
  <2>3. attempts'[j] = [attempts[j] EXCEPT ![n] = r]
        /\ (k # j => attempts'[k] = attempts[k])
    BY <1>2 DEF Heartbeat, LQInv, LQTypeOK
  <2>. HIDE DEF r
  <2>4. /\ Len([attempts[j] EXCEPT ![n] = r]) = Len(attempts[j])
        /\ \A i \in 1..Len(attempts[j]) :
            [attempts[j] EXCEPT ![n] = r][i] = IF i = n THEN r ELSE attempts[j][i]
    BY <2>1, <2>2, ExceptSeq
  <2>. QED  BY <2>2, <2>3, <2>4
<1>3. events' = events
  BY DEF Tick, Heartbeat
<1>. QED  BY <1>1, <1>2, <1>3

\* A claim writes the start of the attempt it grants.
LEMMA GrantAudit ==
    ASSUME LQInv, AuditInv, NEW w \in Workers, NEW j \in Jobs, jobs[j].state = "queued",
           Grant(w, j)
    PROVE  AuditInv'
<1>1. SUFFICES ASSUME NEW k \in Jobs  PROVE Logged(events'[k], attempts'[k])
  BY LoggedNext
<1>2. Logged(events[k], attempts[k])
  BY LoggedIsAudit DEF AuditInv
<1>3. CASE k # j
  BY <1>2, <1>3 DEF Grant, LQInv, LQTypeOK
<1>4. CASE k = j
  <2>. DEFINE r == [worker |-> w, epoch |-> NextEpoch(j), state |-> "active",
                    ttl |-> LeaseSeconds]
  <2>1. jobs[j] \in JobRow /\ attempts[j] \in Seq(AttemptRow) /\ events[j] \in Seq(EventRow)
        /\ Len(attempts[j]) \in Nat
    BY AttemptsType DEF LQInv, LQTypeOK
  <2>2. r \in AttemptRow /\ r.state = "active"
    BY <2>1, TimeAssumption DEF AttemptRow, AttemptState, NextEpoch, JobRow
  <2>3. /\ attempts'[j] = Append(attempts[j], r)
        /\ events'[j] = Append(events[j], [type |-> "attempt_started",
                                           attempt |-> Len(attempts[j]) + 1])
    BY DEF Grant, Emit, LQInv, LQTypeOK
  <2>. HIDE DEF r
  <2>4. Len(attempts[j]) > 0 => attempts[j][Len(attempts[j])].state # "active"
    <3>1. Len(attempts[j]) > 0 => Len(attempts[j]) \in 1..Len(attempts[j])
      BY <2>1
    <3>. QED  BY <3>1 DEF LQInv, ActiveIsCurrent
  <2>. QED  BY <1>2, <1>4, <2>1, <2>2, <2>3, <2>4, StartLog
<1>. QED  BY <1>3, <1>4

\* Every operation of the queue and the clock keep the logs.
LEMMA StepAudit ==
    ASSUME LQInv, AuditInv, [LQNext]_lqVars
    PROVE  AuditInv'
<1>1. CASE UNCHANGED lqVars
  BY <1>1, QuietAudit DEF lqVars
<1>2. ASSUME NEW j \in Jobs, CreateJob(j) \/ RequestCancel(j) \/ ApiRequestCancel(j)
      PROVE  AuditInv'
  <2>1. jobs[j].current \in Nat /\ NoAttempt \in Nat /\ events \in [Jobs -> Seq(EventRow)]
    BY DEF LQInv, LQTypeOK, JobRow, NoAttempt
  <2>2. attempts' = attempts /\ \A k \in Jobs : k # j => events'[k] = events[k]
    BY <1>2, <2>1 DEF CreateJob, RequestCancel, ApiRequestCancel
  <2>3. events'[j] = Emit(j, "job_created", NoAttempt)
        \/ events'[j] = Emit(j, "cancel_requested", jobs[j].current)
    BY <1>2, <2>1 DEF CreateJob, RequestCancel, ApiRequestCancel
  <2>4. \E t \in {"job_created", "cancel_requested"}, a \in Nat : events'[j] = Emit(j, t, a)
    BY <2>1, <2>3
  <2>. QED  BY <2>2, <2>4, QuietAudit
<1>3. ASSUME NEW w \in Workers, RegisterWorker(w)
      PROVE  AuditInv'
  BY <1>3, QuietAudit DEF RegisterWorker
<1>4. ASSUME NEW w \in Workers, NEW j \in Jobs, NEW locked \in SUBSET Jobs,
             ClaimNext(w, j, locked)
      PROVE  AuditInv'
  BY <1>4, GrantAudit DEF ClaimNext, Claimable
<1>5. ASSUME NEW l \in Leases, Heartbeat(l[1], l[2])
      PROVE  AuditInv'
  <2>1. l[1] \in Jobs /\ l[2] \in Nat
    BY DEF Leases
  <2>. QED  BY <1>5, <2>1, RenewalStates, QuietAudit
<1>6. ASSUME NEW l \in Leases, NEW m \in {1, MaxAttempts},
             CancelCurrent(l[1], l[2]) \/ FailRetryable(l[1], l[2], m)
      PROVE  AuditInv'
  <2>1. l[1] \in Jobs /\ {l[1]} \in SUBSET Jobs /\ m \in 1..MaxAttempts /\ 1 \in 1..MaxAttempts
    BY LimitAssumption DEF Leases
  <2>2. jobs[l[1]].state = "running"
    BY <1>6, <2>1, LockedIsGranted DEF CancelCurrent, FailRetryable
  <2>3. EndLeases({l[1]}, 1) \/ EndLeases({l[1]}, m)
    BY <1>6 DEF CancelCurrent, FailRetryable
  <2>. QED  BY <2>1, <2>2, <2>3, EndLeasesAudit
<1>7. ASSUME NEW batch \in SUBSET Jobs, ReapExpired(batch)
      PROVE  AuditInv'
  <2>1. \A j \in batch : jobs[j].state = "running"
    BY <1>7, LockedIsGranted DEF ReapExpired, Expired
  <2>2. EndLeases(batch, MaxAttempts) /\ MaxAttempts \in 1..MaxAttempts
    BY <1>7, LimitAssumption DEF ReapExpired
  <2>. QED  BY <2>1, <2>2, EndLeasesAudit
<1>8. CASE Tick
  BY <1>8, RenewalStates, QuietAudit
<1>9. 1 \in {1, MaxAttempts}
  OBVIOUS
<1>. QED  BY <1>1, <1>2, <1>3, <1>4, <1>5, <1>6, <1>7, <1>8, <1>9 DEF LQNext, QueueStep

\* Empty logs are right.
LEMMA InitAudit == LQInit => AuditInv
<1>1. ASSUME LQInit, NEW j \in Jobs
      PROVE  Len(attempts[j]) = 0 /\ DOMAIN events[j] = {}
  <2>1. attempts[j] = <<>> /\ events[j] = <<>>
    BY <1>1 DEF LQInit
  <2>. QED  BY <2>1, EmptySeq
<1>. QED  BY <1>1 DEF AuditInv, AuditTrail, EventsOfGranted

\* The job_events of a job tell the history of its attempts: one start each, one
\* closing event of the right kind for each that ended, and in this order.
THEOREM AuditTrailKept == LQSpec => []AuditTrail
<1>1. LQInit => AuditInv
  BY InitAudit
<1>2. LQInv /\ AuditInv /\ [LQNext]_lqVars => AuditInv'
  BY StepAudit
<1>3. AuditInv => AuditTrail
  BY DEF AuditInv
<1>. QED  BY Invariance, <1>1, <1>2, <1>3, PTL DEF LQSpec

-----------------------------------------------------------------------------
(* What a step of the queue does to a succeeded job: nothing *)

\* The end of leases neither shortens the history nor touches a succeeded job.
LEMMA EndKeepsWinner ==
    ASSUME LQInv, NEW S \in SUBSET Jobs, NEW m \in 1..MaxAttempts,
           \A i \in S : jobs[i].state = "running",
           EndLeases(S, m), NEW j \in Jobs
    PROVE  /\ Len(attempts'[j]) = Len(attempts[j])
           /\ jobs'[j].state = "succeeded" <=> jobs[j].state = "succeeded"
           /\ jobs[j].state = "succeeded" =>
                jobs'[j] = jobs[j] /\ attempts'[j] = attempts[j]
<1>1. CASE j \notin S
  <2>1. jobs'[j] = jobs[j] /\ attempts'[j] = attempts[j]
    BY <1>1 DEF EndLeases
  <2>. QED  BY <2>1
<1>2. CASE j \in S
  <2>1. jobs[j] \in JobRow /\ jobs[j].state = "running"
    BY <1>2 DEF LQInv, LQTypeOK
  <2>2. jobs'[j].state = JobStateAfter[Outcome(j, m)]
    BY <1>2, <2>1 DEF EndLeases, JobRow
  <2>3. jobs'[j].state # "succeeded"
    BY <2>2 DEF JobStateAfter, Outcome
  <2>4. Len(attempts'[j]) = Len(attempts[j])
    <3>1. LQInv'
      BY EndLeasesInv
    <3>2. /\ Len(attempts[j]) \in Nat /\ DOMAIN attempts[j] = 1..Len(attempts[j])
          /\ Len(attempts'[j]) \in Nat /\ DOMAIN attempts'[j] = 1..Len(attempts'[j])
      BY <3>1, LenProperties DEF LQInv, LQTypeOK
    <3>3. DOMAIN attempts'[j] = DOMAIN attempts[j]
      BY <1>2 DEF EndLeases
    <3>. QED  BY <3>2, <3>3
  <2>. QED  BY <2>1, <2>3, <2>4
<1>. QED  BY <1>1, <1>2

\* No operation of the queue and no tick of its clock takes a lease out of the
\* history, makes a job succeed, or touches the winner of one that did.
LEMMA QueueKeepsWinner ==
    ASSUME LQInv, [LQNext]_lqVars, NEW j \in Jobs
    PROVE  /\ Len(attempts[j]) <= Len(attempts'[j])
           /\ jobs'[j].state = "succeeded" <=> jobs[j].state = "succeeded"
           /\ jobs[j].state = "succeeded" =>
                /\ jobs'[j].winner = jobs[j].winner
                /\ \A n \in 1..Len(attempts[j]) :
                        attempts'[j][n].state = attempts[j][n].state
<1>. DEFINE Kept == /\ Len(attempts[j]) <= Len(attempts'[j])
                    /\ jobs'[j].state = "succeeded" <=> jobs[j].state = "succeeded"
                    /\ jobs[j].state = "succeeded" =>
                        /\ jobs'[j].winner = jobs[j].winner
                        /\ \A n \in 1..Len(attempts[j]) :
                                attempts'[j][n].state = attempts[j][n].state
<1>0. /\ jobs \in [Jobs -> JobRow] /\ jobs[j] \in JobRow
      /\ attempts \in [Jobs -> Seq(AttemptRow)] /\ attempts[j] \in Seq(AttemptRow)
      /\ Len(attempts[j]) \in Nat
      /\ \A n \in 1..Len(attempts[j]) : attempts[j][n] \in AttemptRow
  BY AttemptsType DEF LQInv, LQTypeOK
<1>1. CASE UNCHANGED lqVars
  BY <1>0, <1>1 DEF lqVars
<1>2. ASSUME NEW k \in Jobs, CreateJob(k) \/ RequestCancel(k) \/ ApiRequestCancel(k)
      PROVE  Kept
  <2>1. attempts' = attempts
        /\ (jobs'[j] = jobs[j] \/ (jobs[j].state # "succeeded" /\ jobs'[j].state # "succeeded"))
    BY <1>0, <1>2 DEF CreateJob, RequestCancel, ApiRequestCancel, JobRow
  <2>. QED  BY <1>0, <2>1
<1>3. ASSUME NEW w \in Workers, RegisterWorker(w)
      PROVE  Kept
  BY <1>0, <1>3 DEF RegisterWorker
<1>4. ASSUME NEW w \in Workers, NEW k \in Jobs, NEW locked \in SUBSET Jobs,
             ClaimNext(w, k, locked)
      PROVE  Kept
  <2>1. Grant(w, k) /\ jobs[k].state = "queued"
    BY <1>4 DEF ClaimNext, Claimable
  <2>2. CASE k # j
    <3>1. jobs'[j] = jobs[j] /\ attempts'[j] = attempts[j]
      BY <1>0, <2>1, <2>2 DEF Grant
    <3>. QED  BY <1>0, <3>1
  <2>3. CASE k = j
    <3>. DEFINE r == [worker |-> w, epoch |-> NextEpoch(j), state |-> "active",
                      ttl |-> LeaseSeconds]
    <3>1. jobs'[j].state = "running"
      BY <1>0, <2>1, <2>3 DEF Grant, JobRow
    <3>2. attempts'[j] = Append(attempts[j], r)
      BY <1>0, <2>1, <2>3 DEF Grant
    <3>3. r \in AttemptRow
      BY <1>0, TimeAssumption DEF AttemptRow, AttemptState, NextEpoch, JobRow
    <3>. HIDE DEF r
    <3>4. Len(attempts'[j]) = Len(attempts[j]) + 1
      BY <1>0, <3>2, <3>3, AppendProperties
    <3>. QED  BY <1>0, <2>1, <2>3, <3>1, <3>4
  <2>. QED  BY <2>2, <2>3
<1>5. ASSUME NEW k \in Jobs, NEW m \in Nat, Heartbeat(k, m)
      PROVE  Kept
  <2>1. jobs' = jobs /\ jobs[k].state = "running"
    BY <1>5 DEF Heartbeat, LockCurrent
  <2>2. Len(attempts'[j]) = Len(attempts[j])
    <3>1. LQInv'
      BY <1>5, HeartbeatInv
    <3>2. /\ DOMAIN attempts[j] = 1..Len(attempts[j])
          /\ Len(attempts'[j]) \in Nat /\ DOMAIN attempts'[j] = 1..Len(attempts'[j])
      BY <3>1, LenProperties DEF LQInv, LQTypeOK
    <3>3. DOMAIN attempts'[j] = DOMAIN attempts[j]
      BY <1>0, <1>5 DEF Heartbeat
    <3>. QED  BY <1>0, <3>2, <3>3
  <2>3. jobs[j].state = "succeeded" => attempts'[j] = attempts[j]
    BY <1>0, <1>5, <2>1 DEF Heartbeat
  <2>. QED  BY <1>0, <2>1, <2>2, <2>3
<1>6. ASSUME NEW k \in Jobs, NEW i, NEW m \in {1, MaxAttempts},
             CancelCurrent(k, i) \/ FailRetryable(k, i, m)
      PROVE  Kept
  <2>1. {k} \in SUBSET Jobs /\ m \in 1..MaxAttempts /\ 1 \in 1..MaxAttempts
    BY LimitAssumption
  <2>2. PICK b \in 1..MaxAttempts : EndLeases({k}, b)
    BY <1>6, <2>1 DEF CancelCurrent, FailRetryable
  <2>3. \A l \in {k} : jobs[l].state = "running"
    BY <1>6 DEF CancelCurrent, FailRetryable, LockCurrent
  <2>4. /\ Len(attempts'[j]) = Len(attempts[j])
        /\ jobs'[j].state = "succeeded" <=> jobs[j].state = "succeeded"
        /\ jobs[j].state = "succeeded" =>
            jobs'[j] = jobs[j] /\ attempts'[j] = attempts[j]
    BY <2>1, <2>2, <2>3, EndKeepsWinner
  <2>. QED  BY <1>0, <2>4
<1>7. ASSUME NEW batch \in SUBSET Jobs, ReapExpired(batch)
      PROVE  Kept
  <2>1. EndLeases(batch, MaxAttempts) /\ MaxAttempts \in 1..MaxAttempts
    BY <1>7, LimitAssumption DEF ReapExpired
  <2>2. \A l \in batch : jobs[l].state = "running"
    BY <1>7 DEF ReapExpired, Expired, LockCurrent
  <2>. QED  BY <1>0, <2>1, <2>2, EndKeepsWinner
<1>8. CASE Tick
  <2>1. jobs'[j].state = jobs[j].state /\ jobs'[j].winner = jobs[j].winner
    BY <1>0, <1>8 DEF Tick, JobRow
  <2>2. attempts'[j] = [n \in 1..Len(attempts[j]) |->
                            [attempts[j][n] EXCEPT !.ttl = Before(@)]]
    BY <1>8 DEF Tick
  <2>3. Len(attempts'[j]) = Len(attempts[j])
    <3>1. LQInv'
      BY <1>8, TickInv
    <3>2. Len(attempts'[j]) \in Nat /\ DOMAIN attempts'[j] = 1..Len(attempts'[j])
      BY <3>1, LenProperties DEF LQInv, LQTypeOK
    <3>. QED  BY <1>0, <2>2, <3>2
  <2>4. \A n \in 1..Len(attempts[j]) : attempts'[j][n].state = attempts[j][n].state
    BY <1>0, <2>2 DEF AttemptRow
  <2>. QED  BY <1>0, <2>1, <2>3, <2>4
<1>9. 1 \in {1, MaxAttempts} /\ \A l \in Leases : l[1] \in Jobs /\ l[2] \in Nat
  BY DEF Leases
<1>. QED  BY <1>1, <1>2, <1>3, <1>4, <1>5, <1>6, <1>7, <1>8, <1>9 DEF LQNext, QueueStep

-----------------------------------------------------------------------------
(* Steps that keep the queue, and steps that keep the rows *)

\* A publication is the triple of its parts.
LEMMA PubParts ==
    ASSUME NEW p \in PubId
    PROVE  /\ p[1] \in Jobs /\ p[2] \in 1..MaxAttempts /\ p[3] \in Kinds
           /\ p = <<p[1], p[2], p[3]>>
  BY DEF PubId

\* A state that differs in nothing of the queue has the same current leases.
LEMMA SameQueue ==
    ASSUME LQInv, UNCHANGED lqVars
    PROVE  /\ LQInv'
           /\ \A j, n : LeaseCurrent(j, n)' <=> LeaseCurrent(j, n)
           /\ \A j, n : Granted(j, n)' <=> Granted(j, n)
<1>1. LQInv'
  BY StepInv
<1>. QED  BY <1>1 DEF lqVars, LeaseCurrent, LockCurrent, Granted

\* One row of the ledger is rewritten to r and the queue is left alone.
LEMMA RowStep ==
    ASSUME LedgerInv, UNCHANGED <<lqVars, artifacts>>,
           NEW p \in PubId, NEW r \in PubRow, pubs' = [pubs EXCEPT ![p] = r],
           blobs \subseteq blobs', blobs' \subseteq Digests,
           r.state # "none", Granted(p[1], p[2]),
           r.state = "finalized" <=> pubs[p].state = "finalized",
           pubs[p].state = "finalized" => r.blob = pubs[p].blob,
           r.state \in {"object_written", "validated", "finalized"} => r.digest \in Digests,
           r.state \in {"validated", "finalized"} => r.blob = r.digest /\ r.blob \in blobs',
           r.state \in TerminalPub => r.stale \in {NotStale, 0},
           r.stale # NotStale \/ r.state = "abandoned" => ~OwnerCurrent(p)
    PROVE  LedgerInv'
<1>1. /\ LQInv' /\ LQTypeOK'
      /\ \A j, n : LeaseCurrent(j, n)' <=> LeaseCurrent(j, n)
      /\ \A j, n : Granted(j, n)' <=> Granted(j, n)
      /\ jobs' = jobs /\ attempts' = attempts
  BY SameQueue DEF LedgerInv, lqVars, LQInv
<1>2. pubs' \in [PubId -> PubRow] /\ pubs \in [PubId -> PubRow]
      /\ pubs'[p] = r /\ \A q \in PubId : q # p => pubs'[q] = pubs[q]
  BY DEF LedgerInv, LedgerTypeOK
<1>3. LedgerTypeOK'
  BY <1>1, <1>2 DEF LedgerInv, LedgerTypeOK
<1>4. RowHasLease' /\ TerminalAtRest'
  BY <1>1, <1>2 DEF LedgerInv, RowHasLease, TerminalAtRest
<1>5. /\ \A q \in PubId : pubs'[q].state = "finalized" <=> pubs[q].state = "finalized"
      /\ \A q \in PubId : pubs[q].state = "finalized" => pubs'[q].blob = pubs[q].blob
  BY <1>2
<1>6. \A a \in artifacts :
        <<a.job, a.attempt, a.kind>> \in PubId
        /\ pubs[<<a.job, a.attempt, a.kind>>].state = "finalized"
  BY DEF LedgerInv, LedgerTypeOK, ArtifactRow, ArtifactOfRow, OnlyWinnerExposed, PubId
<1>7. ArtifactOfRow'
  BY <1>5, <1>6 DEF LedgerInv, ArtifactOfRow
<1>8. WinnerRows'
  <2>1. ASSUME NEW j \in Jobs, jobs[j].state = "succeeded", NEW k \in RequiredKinds[j]
        PROVE  <<j, jobs[j].winner, k>> \in PubId
    <3>1. k \in Kinds /\ Granted(j, jobs[j].winner)
      BY <2>1, KindsAssumption DEF LedgerInv, WinnerRows
    <3>2. Len(attempts[j]) <= MaxAttempts /\ Len(attempts[j]) \in Nat
      BY AttemptsType DEF LedgerInv, LQInv, RetryBudget
    <3>. QED  BY <3>1, <3>2, LimitAssumption DEF PubId, Granted
  <2>2. ASSUME NEW j \in Jobs, jobs[j].state = "succeeded", NEW k \in RequiredKinds[j]
        PROVE  /\ pubs'[<<j, jobs[j].winner, k>>].state = "finalized"
               /\ [job |-> j, attempt |-> jobs[j].winner, kind |-> k,
                   blob |-> pubs'[<<j, jobs[j].winner, k>>].blob] \in artifacts
    <3>1. <<j, jobs[j].winner, k>> \in PubId
      BY <2>1, <2>2
    <3>. QED  BY <1>5, <2>2, <3>1 DEF LedgerInv, WinnerRows
  <2>3. ASSUME NEW j \in Jobs, jobs[j].state = "succeeded"
        PROVE  Granted(j, jobs[j].winner) /\ attempts[j][jobs[j].winner].state = "succeeded"
    BY <2>3 DEF LedgerInv, WinnerRows
  <2>. QED  BY <1>1, <2>2, <2>3 DEF WinnerRows, Granted
<1>9. OnlyWinnerExposed'
  BY <1>1, <1>5, <1>6 DEF LedgerInv, OnlyWinnerExposed
<1>10. OpenRowHasEvidence'
  BY <1>2 DEF LedgerInv, OpenRowHasEvidence
<1>11. CondemnedIsStale'
  BY <1>1, <1>2 DEF LedgerInv, CondemnedIsStale, OwnerCurrent
<1>. QED  BY <1>1, <1>3, <1>4, <1>7, <1>8, <1>9, <1>10, <1>11 DEF LedgerInv

\* A step of the queue or of its clock, next to which the grace of open rows may
\* run down: no winner is disturbed and no condemned row gets its lease back.
LEMMA QueueLedgerStep ==
    ASSUME LedgerInv, [LQNext]_lqVars, UNCHANGED <<blobs, artifacts>>,
           pubs' \in [PubId -> PubRow],
           \A p \in PubId :
              /\ pubs'[p].state = pubs[p].state
              /\ pubs'[p].digest = pubs[p].digest
              /\ pubs'[p].blob = pubs[p].blob
              /\ pubs'[p].stale = NotStale <=> pubs[p].stale = NotStale
              /\ pubs[p].stale \in {NotStale, 0} => pubs'[p].stale = pubs[p].stale
    PROVE  LedgerInv'
<1>1. LQInv' /\ LQTypeOK'
  BY StepInv DEF LedgerInv, LQInv
<1>2. ASSUME NEW j \in Jobs
      PROVE  /\ Len(attempts[j]) <= Len(attempts'[j])
             /\ jobs'[j].state = "succeeded" <=> jobs[j].state = "succeeded"
             /\ jobs[j].state = "succeeded" =>
                  /\ jobs'[j].winner = jobs[j].winner
                  /\ \A n \in 1..Len(attempts[j]) :
                          attempts'[j][n].state = attempts[j][n].state
  BY QueueKeepsWinner DEF LedgerInv
<1>3. \A j \in Jobs : Len(attempts[j]) \in Nat /\ Len(attempts'[j]) \in Nat
  BY <1>1, AttemptsType, LenProperties DEF LedgerInv, LQInv, LQTypeOK
<1>4. \A j \in Jobs : \A n : Granted(j, n) => Granted(j, n)'
  BY <1>2, <1>3 DEF Granted
<1>5. LedgerTypeOK'
  BY <1>1 DEF LedgerInv, LedgerTypeOK
<1>6. RowHasLease' /\ TerminalAtRest'
  BY <1>4, PubParts DEF LedgerInv, RowHasLease, TerminalAtRest
<1>7. \A a \in artifacts : <<a.job, a.attempt, a.kind>> \in PubId
  BY DEF LedgerInv, LedgerTypeOK, ArtifactRow, ArtifactOfRow, PubId
<1>8. ArtifactOfRow' /\ OpenRowHasEvidence'
  BY <1>7 DEF LedgerInv, ArtifactOfRow, OpenRowHasEvidence
<1>9. OnlyWinnerExposed'
  BY <1>2, <1>7, PubParts DEF LedgerInv, OnlyWinnerExposed
<1>10. WinnerRows'
  <2>1. ASSUME NEW j \in Jobs, jobs'[j].state = "succeeded"
        PROVE  /\ Granted(j, jobs[j].winner)'
               /\ attempts'[j][jobs'[j].winner].state = "succeeded"
               /\ jobs[j].state = "succeeded" /\ jobs'[j].winner = jobs[j].winner
               /\ jobs[j].winner \in 1..MaxAttempts
    <3>1. jobs[j].state = "succeeded" /\ jobs'[j].winner = jobs[j].winner
      BY <1>2, <2>1
    <3>2. jobs[j].winner \in 1..Len(attempts[j])
          /\ attempts[j][jobs[j].winner].state = "succeeded"
      BY <3>1 DEF LedgerInv, WinnerRows, Granted
    <3>3. attempts'[j][jobs[j].winner].state = "succeeded"
      BY <1>2, <3>1, <3>2
    <3>4. Granted(j, jobs[j].winner)'
      BY <1>2, <1>3, <3>1, <3>2 DEF Granted
    <3>5. jobs[j].winner \in 1..MaxAttempts
      BY <1>3, <3>2, LimitAssumption DEF LedgerInv, LQInv, RetryBudget
    <3>. QED  BY <3>1, <3>3, <3>4, <3>5
  <2>2. ASSUME NEW j \in Jobs, jobs'[j].state = "succeeded", NEW k \in RequiredKinds[j]
        PROVE  /\ pubs'[<<j, jobs'[j].winner, k>>].state = "finalized"
               /\ [job |-> j, attempt |-> jobs'[j].winner, kind |-> k,
                   blob |-> pubs'[<<j, jobs'[j].winner, k>>].blob] \in artifacts
    <3>1. jobs[j].state = "succeeded" /\ jobs'[j].winner = jobs[j].winner
          /\ <<j, jobs[j].winner, k>> \in PubId
      BY <2>1, <2>2, KindsAssumption DEF PubId
    <3>. QED  BY <2>2, <3>1 DEF LedgerInv, WinnerRows
  <2>. QED  BY <2>1, <2>2 DEF WinnerRows
<1>11. CondemnedIsStale'
  <2>1. SUFFICES ASSUME NEW p \in PubId,
                        pubs'[p].stale # NotStale \/ pubs'[p].state = "abandoned",
                        LeaseCurrent(p[1], p[2])'
                 PROVE  FALSE
    BY DEF CondemnedIsStale, OwnerCurrent
  <2>2. ~LeaseCurrent(p[1], p[2]) /\ Granted(p[1], p[2])
    BY <2>1 DEF LedgerInv, CondemnedIsStale, OwnerCurrent, RowHasLease
  <2>. QED  BY <2>1, <2>2, PubParts, StepMakesNone DEF LedgerInv, Granted
<1>. QED  BY <1>1, <1>5, <1>6, <1>8, <1>9, <1>10, <1>11 DEF LedgerInv

-----------------------------------------------------------------------------
(* The operations of the lease holder *)

\* The lease that an operation locks was granted, and nothing condemns the rows
\* of a current lease.
LEMMA HeldRow ==
    ASSUME LedgerInv, NEW p \in PubId, LockLease(p[1], p[2])
    PROVE  /\ Granted(p[1], p[2])
           /\ OwnerCurrent(p)
           /\ pubs[p].stale = NotStale
           /\ pubs[p].state # "abandoned"
           /\ pubs[p] \in PubRow
  BY DEF LockLease, LeaseCurrent, LockCurrent, OwnerCurrent, LedgerInv, LedgerTypeOK,
         CondemnedIsStale

\* reserve keeps the invariant.
LEMMA ReserveInv ==
    ASSUME LedgerInv, NEW p \in PubId, Reserve(p)
    PROVE  LedgerInv'
<1>. DEFINE r == [pubs[p] EXCEPT !.state = "reserved"]
<1>1. /\ Granted(p[1], p[2]) /\ OwnerCurrent(p) /\ pubs[p].stale = NotStale
      /\ pubs[p] \in PubRow
  BY HeldRow DEF Reserve
<1>2. /\ r \in PubRow /\ r.state = "reserved" /\ r.stale = NotStale
  BY <1>1 DEF PubRow, PubState, OpenPub
<1>3. pubs' = [pubs EXCEPT ![p] = r] /\ UNCHANGED <<lqVars, artifacts>> /\ blobs' = blobs
      /\ pubs[p].state = "none"
  BY DEF Reserve
<1>4. blobs \subseteq Digests
  BY DEF LedgerInv, LedgerTypeOK
<1>. HIDE DEF r
<1>. QED  BY <1>1, <1>2, <1>3, <1>4, RowStep DEF TerminalPub

\* record_object keeps the invariant.
LEMMA RecordObjectInv ==
    ASSUME LedgerInv, NEW p \in PubId, NEW v, NEW d \in Digests, RecordObject(p, v, d)
    PROVE  LedgerInv'
<1>. DEFINE u == pubs[p].version + 1
            r == [pubs[p] EXCEPT !.state = "object_written", !.version = u, !.digest = d]
<1>1. /\ Granted(p[1], p[2]) /\ OwnerCurrent(p) /\ pubs[p].stale = NotStale
      /\ pubs[p] \in PubRow
  BY HeldRow DEF RecordObject
<1>0. u \in Nat
  BY <1>1 DEF PubRow
<1>. HIDE DEF u
<1>2. /\ r \in PubRow /\ r.state = "object_written" /\ r.stale = NotStale /\ r.digest = d
  BY <1>0, <1>1 DEF PubRow, PubState, OpenPub
<1>3. pubs' = [pubs EXCEPT ![p] = r] /\ UNCHANGED <<lqVars, artifacts>> /\ blobs' = blobs
      /\ pubs[p].state = "reserved"
  BY DEF u, RecordObject, AtVersion
<1>4. blobs \subseteq Digests
  BY DEF LedgerInv, LedgerTypeOK
<1>. HIDE DEF r
<1>. QED  BY <1>1, <1>2, <1>3, <1>4, RowStep DEF TerminalPub

\* record_validated keeps the invariant: the row names a blob that is there.
LEMMA RecordValidatedInv ==
    ASSUME LedgerInv, NEW p \in PubId, NEW v, NEW d \in Digests, RecordValidated(p, v, d)
    PROVE  LedgerInv'
<1>. DEFINE u == pubs[p].version + 1
            r == [pubs[p] EXCEPT !.state = "validated", !.version = u, !.blob = d]
<1>1. /\ Granted(p[1], p[2]) /\ OwnerCurrent(p) /\ pubs[p].stale = NotStale
      /\ pubs[p] \in PubRow /\ pubs[p].digest = d
  BY HeldRow DEF RecordValidated
<1>0. u \in Nat
  BY <1>1 DEF PubRow
<1>. HIDE DEF u
<1>2. /\ r \in PubRow /\ r.state = "validated" /\ r.stale = NotStale
      /\ r.digest = d /\ r.blob = d
  BY <1>0, <1>1 DEF PubRow, PubState, OpenPub
<1>3. pubs' = [pubs EXCEPT ![p] = r] /\ UNCHANGED <<lqVars, artifacts>>
      /\ blobs' = blobs \cup {d} /\ pubs[p].state = "object_written"
  BY DEF u, RecordValidated, AtVersion
<1>4. blobs \subseteq Digests
  BY DEF LedgerInv, LedgerTypeOK
<1>. HIDE DEF r
<1>. QED  BY <1>1, <1>2, <1>3, <1>4, RowStep DEF TerminalPub

\* reject keeps the invariant.
LEMMA RejectInv ==
    ASSUME LedgerInv, NEW p \in PubId, NEW v, Reject(p, v)
    PROVE  LedgerInv'
<1>. DEFINE u == pubs[p].version + 1
            r == [pubs[p] EXCEPT !.state = "rejected", !.version = u]
<1>1. /\ Granted(p[1], p[2]) /\ OwnerCurrent(p) /\ pubs[p].stale = NotStale
      /\ pubs[p] \in PubRow
  BY HeldRow DEF Reject
<1>0. u \in Nat
  BY <1>1 DEF PubRow
<1>. HIDE DEF u
<1>2. /\ r \in PubRow /\ r.state = "rejected" /\ r.stale = NotStale
  BY <1>0, <1>1 DEF PubRow, PubState, TerminalPub
<1>3. pubs' = [pubs EXCEPT ![p] = r] /\ UNCHANGED <<lqVars, artifacts>> /\ blobs' = blobs
      /\ pubs[p].state \in OpenPub
  BY DEF u, Reject, AtVersion
<1>4. blobs \subseteq Digests
  BY DEF LedgerInv, LedgerTypeOK
<1>. HIDE DEF r
<1>. QED  BY <1>1, <1>2, <1>3, <1>4, RowStep DEF TerminalPub, OpenPub

-----------------------------------------------------------------------------
(* The operations of the sweeper and the clock *)

\* The first abandon of a row keeps the invariant: its lease is not current.
LEMMA BeginGraceInv ==
    ASSUME LedgerInv, NEW p \in PubId, NEW v, BeginGrace(p, v)
    PROVE  LedgerInv'
<1>. DEFINE u == pubs[p].version + 1
            r == [pubs[p] EXCEPT !.stale = Grace, !.version = u]
<1>1. /\ pubs[p].state \in OpenPub /\ ~OwnerCurrent(p) /\ pubs[p] \in PubRow
  BY DEF BeginGrace, AtVersion, LedgerInv, LedgerTypeOK
<1>0. u \in Nat /\ Grace \in 0..Grace
  BY <1>1, GraceAssumption DEF PubRow
<1>. HIDE DEF u
<1>2. r \in PubRow /\ r.state = pubs[p].state /\ r.blob = pubs[p].blob /\ r.digest = pubs[p].digest
  BY <1>0, <1>1 DEF PubRow
<1>3. pubs' = [pubs EXCEPT ![p] = r] /\ UNCHANGED <<lqVars, artifacts>> /\ blobs' = blobs
  BY DEF u, BeginGrace
<1>4. blobs \subseteq Digests /\ Granted(p[1], p[2])
      /\ (pubs[p].state \in {"object_written", "validated"} => pubs[p].digest \in Digests)
      /\ (pubs[p].state = "validated" => pubs[p].blob = pubs[p].digest /\ pubs[p].blob \in blobs)
  BY <1>1 DEF LedgerInv, LedgerTypeOK, RowHasLease, OpenRowHasEvidence, OpenPub
<1>. HIDE DEF r
<1>. QED  BY <1>1, <1>2, <1>3, <1>4, RowStep DEF TerminalPub, OpenPub

\* The end of the grace keeps the invariant.
LEMMA AbandonInv ==
    ASSUME LedgerInv, NEW p \in PubId, NEW v, Abandon(p, v)
    PROVE  LedgerInv'
<1>. DEFINE u == pubs[p].version + 1
            r == [pubs[p] EXCEPT !.state = "abandoned", !.version = u]
<1>1. /\ pubs[p].state \in OpenPub /\ ~OwnerCurrent(p) /\ pubs[p] \in PubRow
      /\ pubs[p].stale = 0
  BY DEF Abandon, AtVersion, LedgerInv, LedgerTypeOK
<1>0. u \in Nat
  BY <1>1 DEF PubRow
<1>. HIDE DEF u
<1>2. r \in PubRow /\ r.state = "abandoned" /\ r.stale = 0
  BY <1>0, <1>1 DEF PubRow, PubState, TerminalPub
<1>3. pubs' = [pubs EXCEPT ![p] = r] /\ UNCHANGED <<lqVars, artifacts>> /\ blobs' = blobs
  BY DEF u, Abandon
<1>4. blobs \subseteq Digests /\ Granted(p[1], p[2])
  BY <1>1 DEF LedgerInv, LedgerTypeOK, RowHasLease, OpenPub
<1>. HIDE DEF r
<1>. QED  BY <1>1, <1>2, <1>3, <1>4, RowStep DEF TerminalPub, OpenPub

\* Cleanup evidence keeps the invariant.
LEMMA RecordCleanupInv ==
    ASSUME LedgerInv, NEW p \in PubId, NEW v, RecordCleanup(p, v)
    PROVE  LedgerInv'
<1>. DEFINE u == pubs[p].version + 1
            r == [pubs[p] EXCEPT !.cleaned = TRUE, !.version = u]
<1>1. /\ pubs[p].state \in TerminalPub /\ pubs[p] \in PubRow
  BY DEF RecordCleanup, AtVersion, LedgerInv, LedgerTypeOK
<1>0. u \in Nat
  BY <1>1 DEF PubRow
<1>. HIDE DEF u
<1>2. r \in PubRow /\ r.state = pubs[p].state /\ r.blob = pubs[p].blob
      /\ r.digest = pubs[p].digest /\ r.stale = pubs[p].stale
  BY <1>0, <1>1 DEF PubRow
<1>3. pubs' = [pubs EXCEPT ![p] = r] /\ UNCHANGED <<lqVars, artifacts>> /\ blobs' = blobs
  BY DEF u, RecordCleanup
<1>4. /\ blobs \subseteq Digests /\ Granted(p[1], p[2])
      /\ pubs[p].stale \in {NotStale, 0}
      /\ pubs[p].stale # NotStale \/ pubs[p].state = "abandoned" => ~OwnerCurrent(p)
      /\ (pubs[p].state \in {"object_written", "validated", "finalized"} =>
            pubs[p].digest \in Digests)
      /\ (pubs[p].state \in {"validated", "finalized"} =>
            pubs[p].blob = pubs[p].digest /\ pubs[p].blob \in blobs)
  BY <1>1 DEF LedgerInv, LedgerTypeOK, RowHasLease, OpenRowHasEvidence, TerminalPub,
              TerminalAtRest, CondemnedIsStale
<1>. HIDE DEF r
<1>. QED  BY <1>1, <1>2, <1>3, <1>4, RowStep DEF TerminalPub

\* The clock keeps the invariant.
LEMMA LedgerTickInv ==
    ASSUME LedgerInv, LedgerTick
    PROVE  LedgerInv'
<1>1. [LQNext]_lqVars /\ UNCHANGED <<blobs, artifacts>>
  BY DEF LedgerTick, LQNext
<1>2. ASSUME NEW p \in PubId
      PROVE  /\ pubs'[p] \in PubRow
             /\ pubs'[p].state = pubs[p].state
             /\ pubs'[p].digest = pubs[p].digest
             /\ pubs'[p].blob = pubs[p].blob
             /\ pubs'[p].stale = NotStale <=> pubs[p].stale = NotStale
             /\ pubs[p].stale \in {NotStale, 0} => pubs'[p].stale = pubs[p].stale
  <2>1. pubs[p] \in PubRow
    BY DEF LedgerInv, LedgerTypeOK
  <2>2. pubs[p].stale \in {NotStale} \cup 0..Grace
    BY <2>1 DEF PubRow
  <2>. DEFINE t == GraceAfter(pubs[p].stale)
  <2>3. /\ t \in {NotStale} \cup 0..Grace
        /\ t = NotStale <=> pubs[p].stale = NotStale
        /\ pubs[p].stale \in {NotStale, 0} => t = pubs[p].stale
    BY <2>2, GraceAssumption DEF GraceAfter, NotStale
  <2>4. pubs'[p] = [pubs[p] EXCEPT !.stale = t]
    BY DEF LedgerTick
  <2>. HIDE DEF t
  <2>. QED  BY <2>1, <2>3, <2>4 DEF PubRow
<1>3. pubs' \in [PubId -> PubRow]
  <2>1. DOMAIN pubs' = PubId /\ pubs' = [p \in PubId |-> pubs'[p]]
    BY DEF LedgerTick
  <2>. QED  BY <1>2, <2>1
<1>. QED  BY <1>1, <1>2, <1>3, QueueLedgerStep

-----------------------------------------------------------------------------
(* Finalization *)

\* What finalize does to the queue: the lease <<j, n>> of the running job j ends
\* in success, nothing else of the queue changes but its worker and its log.
LEMMA FinalizeQueue ==
    ASSUME LedgerInv, NEW j \in Jobs, NEW n, NEW vs, Finalize(j, n, vs)
    PROVE  /\ LQInv'
           /\ n \in 1..Len(attempts[j]) /\ n \in 1..MaxAttempts
           /\ jobs[j].state = "running"
           /\ jobs'[j].state = "succeeded" /\ jobs'[j].winner = n
           /\ \A i \in Jobs : i # j => jobs'[i] = jobs[i] /\ attempts'[i] = attempts[i]
           /\ Len(attempts'[j]) = Len(attempts[j])
           /\ attempts'[j][n].state = "succeeded"
           /\ \A i \in 1..Len(attempts[j]) : i # n => attempts'[j][i] = attempts[j][i]
           /\ events' = [events EXCEPT ![j] = Emit(j, "job_succeeded", n)]
<1>. DEFINE c == attempts[j][n]
            r == [[c EXCEPT !.state = "succeeded"] EXCEPT !.ttl = 0]
            s == [jobs[j] EXCEPT !.state = "succeeded", !.current = NoAttempt, !.winner = n]
<1>1. /\ n \in 1..Len(attempts[j]) /\ jobs[j].state = "running" /\ jobs[j].current = n
      /\ ~jobs[j].cancel
  BY DEF Finalize, LockLease, LeaseCurrent, LockCurrent, Granted
<1>2. /\ jobs \in [Jobs -> JobRow] /\ jobs[j] \in JobRow
      /\ attempts \in [Jobs -> Seq(AttemptRow)] /\ attempts[j] \in Seq(AttemptRow)
      /\ workers \in [Workers -> WorkerState] /\ events \in [Jobs -> Seq(EventRow)]
      /\ Len(attempts[j]) \in Nat /\ c \in AttemptRow /\ Len(attempts[j]) <= MaxAttempts
  BY <1>1, AttemptsType DEF LedgerInv, LQInv, LQTypeOK, RetryBudget
<1>3. n \in Nat /\ n \in 1..MaxAttempts
  BY <1>1, <1>2, LimitAssumption
<1>4. /\ r \in AttemptRow /\ r.worker = c.worker /\ r.epoch = c.epoch
      /\ r.state = "succeeded" /\ c.worker \in Workers
  BY <1>2 DEF AttemptRow, AttemptState
<1>5. /\ s \in JobRow /\ s.state = "succeeded" /\ s.winner = n
      /\ s.epoch = jobs[j].epoch /\ s.cancel = jobs[j].cancel
  BY <1>2, <1>3 DEF JobRow, JobState, TerminalJob, NoAttempt
<1>6. jobs' = [jobs EXCEPT ![j] = s]
  BY <1>2 DEF Finalize
<1>7. attempts' = [attempts EXCEPT ![j] = [attempts[j] EXCEPT ![n] = r]]
  BY <1>1, <1>2, LenProperties DEF Finalize
<1>8. workers' = [workers EXCEPT ![c.worker] = "ready"]
  BY DEF Finalize
<1>9. events' = [events EXCEPT ![j] = Emit(j, "job_succeeded", n)]
  BY DEF Finalize
<1>. HIDE DEF r, s
<1>10. /\ attempts'[j] = [attempts[j] EXCEPT ![n] = r]
       /\ jobs'[j] = s
       /\ \A i \in Jobs : i # j => jobs'[i] = jobs[i] /\ attempts'[i] = attempts[i]
  BY <1>2, <1>6, <1>7
<1>11. /\ attempts'[j] \in Seq(AttemptRow)
       /\ Len(attempts'[j]) = Len(attempts[j])
       /\ \A i \in 1..Len(attempts[j]) :
            attempts'[j][i] = IF i = n THEN r ELSE attempts[j][i]
  BY <1>1, <1>2, <1>4, <1>10, ExceptSeq
<1>12. LQTypeOK'
  <2>1. Emit(j, "job_succeeded", n) \in Seq(EventRow)
    BY <1>3, EmitType DEF LedgerInv, LQInv, EventType
  <2>2. jobs' \in [Jobs -> JobRow] /\ attempts' \in [Jobs -> Seq(AttemptRow)]
    BY <1>2, <1>5, <1>6, <1>7, <1>10, <1>11
  <2>3. workers' \in [Workers -> WorkerState] /\ events' \in [Jobs -> Seq(EventRow)]
    BY <1>2, <1>8, <1>9, <2>1 DEF WorkerState
  <2>. QED  BY <2>2, <2>3 DEF LQTypeOK
<1>13. \A w \in Workers :
        workers'[w] = IF \E i \in {j} : attempts[i][jobs[i].current].worker = w
                      THEN "ready" ELSE workers[w]
  BY <1>1, <1>2, <1>4, <1>8
<1>14. \A i \in {j} :
        /\ jobs[i].state = "running"
        /\ jobs'[i].state \in TerminalJob \cup {"queued"}
        /\ jobs'[i].state = "queued" => jobs[i].current < MaxAttempts
        /\ jobs'[i].state = "cancelled" <=> jobs[i].cancel
        /\ jobs'[i].epoch = jobs[i].epoch
        /\ jobs'[i].cancel = jobs[i].cancel
        /\ Len(attempts'[i]) = Len(attempts[i])
        /\ \A m \in 1..Len(attempts[i]) :
              /\ attempts'[i][m].worker = attempts[i][m].worker
              /\ attempts'[i][m].epoch = attempts[i][m].epoch
              /\ m # jobs[i].current =>
                      attempts'[i][m].state = attempts[i][m].state
        /\ attempts'[i][jobs[i].current].state # "active"
  BY <1>1, <1>4, <1>5, <1>10, <1>11 DEF TerminalJob
<1>15. LQInv'
  <2>1. \A i \in Jobs \ {j} : jobs'[i] = jobs[i] /\ attempts'[i] = attempts[i]
    BY <1>10
  <2>2. LQInv /\ {j} \in SUBSET Jobs
    BY DEF LedgerInv
  <2>. QED  BY <1>12, <1>13, <1>14, <2>1, <2>2, EndedInv
<1>. QED  BY <1>1, <1>3, <1>4, <1>5, <1>9, <1>10, <1>11, <1>15

\* Finalization makes no lease current.
LEMMA FinalizeMakesNone ==
    ASSUME LedgerInv, NEW j \in Jobs, NEW n, NEW vs, Finalize(j, n, vs),
           NEW i \in Jobs, NEW m, LeaseCurrent(i, m)'
    PROVE  LeaseCurrent(i, m)
<1>1. i # j
  BY FinalizeQueue DEF LeaseCurrent, LockCurrent
<1>2. jobs'[i] = jobs[i] /\ attempts'[i] = attempts[i]
  BY <1>1, FinalizeQueue
<1>3. m \in 1..Len(attempts[i]) /\ workers'[attempts[i][m].worker] = "busy"
  BY <1>2 DEF LeaseCurrent, LockCurrent, Granted
<1>4. attempts[i][m].worker \in Workers
  BY <1>3, AttemptsType DEF LedgerInv, LQInv, AttemptRow
<1>5. workers[attempts[i][m].worker] = "busy"
  BY <1>3, <1>4 DEF Finalize, LedgerInv, LQInv, LQTypeOK
<1>. QED  BY <1>2, <1>5, NoNewLease

\* finalize keeps the invariant: the job had no winner, and all that its
\* winner needs becomes visible at once.
LEMMA FinalizeInv ==
    ASSUME LedgerInv, NEW j \in Jobs, NEW n, NEW vs, Finalize(j, n, vs)
    PROVE  LedgerInv'
<1>. DEFINE K == RequiredKinds[j]
            Mine(p) == p[1] = j /\ p[2] = n /\ p[3] \in K
            row(k) == [job |-> j, attempt |-> n, kind |-> k, blob |-> pubs[<<j, n, k>>].blob]
<1>1. /\ LQInv' /\ LQTypeOK'
      /\ n \in 1..Len(attempts[j]) /\ n \in 1..MaxAttempts /\ n \in Nat
      /\ jobs[j].state = "running"
      /\ jobs'[j].state = "succeeded" /\ jobs'[j].winner = n
      /\ \A i \in Jobs : i # j => jobs'[i] = jobs[i] /\ attempts'[i] = attempts[i]
      /\ Len(attempts'[j]) = Len(attempts[j])
      /\ attempts'[j][n].state = "succeeded"
  BY FinalizeQueue DEF LQInv
<1>2. K \subseteq Kinds /\ DOMAIN vs = K /\ \A k \in K : <<j, n, k>> \in PubId
  BY <1>1, KindsAssumption DEF Finalize, AllKinds, PubId
<1>3. \A k \in K : pubs[<<j, n, k>>].state = "validated" /\ pubs[<<j, n, k>>].blob \in blobs
  BY <1>2 DEF Finalize, AtVersion
<1>4. artifacts' = artifacts \cup {row(k) : k \in K} /\ blobs' = blobs
  BY <1>2 DEF Finalize
<1>5. pubs' = [p \in PubId |->
            IF Mine(p)
            THEN [pubs[p] EXCEPT !.state = "finalized", !.version = @ + 1]
            ELSE pubs[p]]
  BY <1>2 DEF Finalize
<1>6. ASSUME NEW p \in PubId
      PROVE  /\ pubs'[p] \in PubRow
             /\ ~Mine(p) => pubs'[p] = pubs[p]
             /\ Mine(p) => /\ pubs'[p].state = "finalized"
                           /\ pubs[p].state = "validated"
                           /\ pubs'[p].stale = NotStale
             /\ pubs'[p].digest = pubs[p].digest
             /\ pubs'[p].blob = pubs[p].blob
             /\ pubs'[p].stale = pubs[p].stale
  <2>1. pubs[p] \in PubRow
    BY DEF LedgerInv, LedgerTypeOK
  <2>2. CASE ~Mine(p)
    BY <1>5, <2>1, <2>2
  <2>3. CASE Mine(p)
    <3>. DEFINE u == pubs[p].version + 1
    <3>1. u \in Nat
      BY <2>1 DEF PubRow
    <3>2. pubs'[p] = [pubs[p] EXCEPT !.state = "finalized", !.version = u]
      BY <1>5, <2>3
    <3>. HIDE DEF u
    <3>3. pubs[p].stale = NotStale
      BY <2>3, HeldRow DEF Finalize
    <3>4. pubs[p].state = "validated"
      BY <1>3, <2>3, PubParts
    <3>5. /\ pubs'[p] \in PubRow /\ pubs'[p].state = "finalized"
          /\ pubs'[p].digest = pubs[p].digest /\ pubs'[p].blob = pubs[p].blob
          /\ pubs'[p].stale = pubs[p].stale
      BY <2>1, <3>1, <3>2 DEF PubRow, PubState, TerminalPub
    <3>. QED  BY <2>3, <3>3, <3>4, <3>5
  <2>. QED  BY <2>2, <2>3
<1>7. pubs' \in [PubId -> PubRow]
  <2>1. pubs' = [p \in PubId |-> pubs'[p]]
    BY <1>5
  <2>. QED  BY <1>6, <2>1
<1>8. \A k \in K : row(k) \in ArtifactRow
  BY <1>1, <1>2, <1>3 DEF ArtifactRow, LedgerInv, LedgerTypeOK
<1>9. LedgerTypeOK'
  BY <1>1, <1>4, <1>7, <1>8 DEF LedgerInv, LedgerTypeOK
<1>10. \A i \in Jobs : \A m : Granted(i, m)' <=> Granted(i, m)
  BY <1>1 DEF Granted
<1>11. RowHasLease'
  BY <1>6, <1>10, PubParts DEF LedgerInv, RowHasLease
<1>12. TerminalAtRest'
  BY <1>6 DEF LedgerInv, TerminalAtRest
<1>13. OpenRowHasEvidence'
  BY <1>4, <1>6 DEF LedgerInv, OpenRowHasEvidence
<1>14. CondemnedIsStale'
  <2>1. SUFFICES ASSUME NEW p \in PubId,
                        pubs'[p].stale # NotStale \/ pubs'[p].state = "abandoned",
                        LeaseCurrent(p[1], p[2])'
                 PROVE  FALSE
    BY DEF CondemnedIsStale, OwnerCurrent
  <2>2. LeaseCurrent(p[1], p[2])
    BY <2>1, PubParts, FinalizeMakesNone
  <2>. QED  BY <1>6, <2>1, <2>2 DEF LedgerInv, CondemnedIsStale, OwnerCurrent
<1>15. \A a \in artifacts : a.job # j /\ <<a.job, a.attempt, a.kind>> \in PubId
  <2>1. SUFFICES ASSUME NEW a \in artifacts
                 PROVE  a.job # j /\ <<a.job, a.attempt, a.kind>> \in PubId
    OBVIOUS
  <2>2. <<a.job, a.attempt, a.kind>> \in PubId
    BY DEF LedgerInv, LedgerTypeOK, ArtifactRow, ArtifactOfRow, PubId
  <2>3. jobs[a.job].state = "succeeded"
    BY <2>2 DEF LedgerInv, OnlyWinnerExposed
  <2>. QED  BY <1>1, <2>2, <2>3
<1>16. ArtifactOfRow'
  <2>1. ASSUME NEW a \in artifacts
        PROVE  /\ a.attempt \in 1..MaxAttempts
               /\ a.kind \in RequiredKinds[a.job]
               /\ pubs'[<<a.job, a.attempt, a.kind>>].blob = a.blob
    BY <1>6, <1>15 DEF LedgerInv, ArtifactOfRow
  <2>2. ASSUME NEW k \in K
        PROVE  /\ row(k).attempt \in 1..MaxAttempts
               /\ row(k).kind \in RequiredKinds[row(k).job]
               /\ pubs'[<<row(k).job, row(k).attempt, row(k).kind>>].blob = row(k).blob
    BY <1>1, <1>2, <1>6
  <2>. QED  BY <1>4, <2>1, <2>2 DEF ArtifactOfRow
<1>17. OnlyWinnerExposed'
  <2>1. ASSUME NEW p \in PubId, pubs'[p].state = "finalized"
        PROVE  jobs'[p[1]].state = "succeeded" /\ jobs'[p[1]].winner = p[2]
    <3>1. CASE Mine(p)
      BY <1>1, <3>1
    <3>2. CASE ~Mine(p)
      <4>1. jobs[p[1]].state = "succeeded" /\ jobs[p[1]].winner = p[2]
        BY <1>6, <2>1, <3>2 DEF LedgerInv, OnlyWinnerExposed
      <4>. QED  BY <1>1, <4>1, PubParts
    <3>. QED  BY <3>1, <3>2
  <2>2. ASSUME NEW a \in artifacts
        PROVE  pubs'[<<a.job, a.attempt, a.kind>>].state = "finalized"
    BY <1>6, <1>15 DEF LedgerInv, OnlyWinnerExposed
  <2>3. ASSUME NEW k \in K
        PROVE  pubs'[<<row(k).job, row(k).attempt, row(k).kind>>].state = "finalized"
    BY <1>2, <1>6
  <2>. QED  BY <1>4, <2>1, <2>2, <2>3 DEF OnlyWinnerExposed
<1>18. WinnerRows'
  <2>1. ASSUME NEW i \in Jobs, i # j, jobs'[i].state = "succeeded"
        PROVE  /\ Granted(i, jobs[i].winner)'
               /\ attempts'[i][jobs'[i].winner].state = "succeeded"
               /\ \A k \in RequiredKinds[i] :
                    /\ pubs'[<<i, jobs'[i].winner, k>>].state = "finalized"
                    /\ [job |-> i, attempt |-> jobs'[i].winner, kind |-> k,
                        blob |-> pubs'[<<i, jobs'[i].winner, k>>].blob] \in artifacts'
    <3>1. /\ jobs'[i] = jobs[i] /\ attempts'[i] = attempts[i]
          /\ Granted(i, jobs[i].winner)
          /\ attempts[i][jobs[i].winner].state = "succeeded"
      BY <1>1, <2>1 DEF LedgerInv, WinnerRows
    <3>2. Granted(i, jobs[i].winner)'
      BY <3>1 DEF Granted
    <3>3. ASSUME NEW k \in RequiredKinds[i]
          PROVE  pubs'[<<i, jobs[i].winner, k>>] = pubs[<<i, jobs[i].winner, k>>]
      <4>1. Len(attempts[i]) <= MaxAttempts /\ Len(attempts[i]) \in Nat
        BY AttemptsType DEF LedgerInv, LQInv, RetryBudget
      <4>2. <<i, jobs[i].winner, k>> \in PubId
        BY <3>1, <4>1, KindsAssumption, LimitAssumption DEF Granted, PubId
      <4>. QED  BY <1>6, <2>1, <4>2
    <3>. QED  BY <1>1, <1>4, <2>1, <3>1, <3>2, <3>3 DEF LedgerInv, WinnerRows
  <2>2. Granted(j, jobs[j].winner)' /\ attempts'[j][jobs'[j].winner].state = "succeeded"
    BY <1>1 DEF Granted
  <2>3. ASSUME NEW k \in K
        PROVE  /\ pubs'[<<j, n, k>>].state = "finalized"
               /\ [job |-> j, attempt |-> n, kind |-> k,
                   blob |-> pubs'[<<j, n, k>>].blob] \in artifacts'
    BY <1>2, <1>4, <1>6
  <2>. QED  BY <1>1, <2>1, <2>2, <2>3 DEF WinnerRows
<1>. QED  BY <1>1, <1>9, <1>11, <1>12, <1>13, <1>14, <1>16, <1>17, <1>18 DEF LedgerInv

-----------------------------------------------------------------------------
(* The invariant of the ledger *)

\* The empty ledger satisfies the invariant.
LEMMA LedgerInitInv ==
    ASSUME LedgerInit
    PROVE  LedgerInv
<1>1. LQInv /\ LQTypeOK
  BY InitInv DEF LedgerInit, LQInv
<1>2. NoPub \in PubRow
  BY DEF NoPub, PubRow, PubState
<1>3. LedgerTypeOK
  BY <1>1, <1>2 DEF LedgerInit, LedgerTypeOK
<1>4. \A p \in PubId : pubs[p].state = "none" /\ pubs[p].stale = NotStale
  BY DEF LedgerInit, NoPub
<1>5. \A j \in Jobs : jobs[j].state = "absent"
  BY DEF LedgerInit, LQInit, AbsentJob
<1>6. RowHasLease /\ TerminalAtRest /\ OpenRowHasEvidence /\ CondemnedIsStale
  BY <1>4 DEF RowHasLease, TerminalAtRest, OpenRowHasEvidence, CondemnedIsStale, TerminalPub
<1>7. ArtifactOfRow /\ WinnerRows /\ OnlyWinnerExposed
  BY <1>4, <1>5 DEF LedgerInit, ArtifactOfRow, WinnerRows, OnlyWinnerExposed
<1>. QED  BY <1>1, <1>3, <1>6, <1>7 DEF LedgerInv

\* A step of the queue leaves the ledger's rows alone and keeps the invariant.
LEMMA QueueOnlyInv ==
    ASSUME LedgerInv, [LQNext]_lqVars, UNCHANGED pubVars
    PROVE  LedgerInv'
  BY QueueLedgerStep DEF pubVars, LedgerInv, LedgerTypeOK

\* Every operation of the ledger keeps the invariant.
LEMMA LedgerStepInv ==
    ASSUME LedgerInv, LedgerStep
    PROVE  LedgerInv'
<1>1. ASSUME NEW p \in PubId, NEW v, NEW d \in Digests,
             \/ Reserve(p) \/ RecordObject(p, v, d) \/ RecordValidated(p, v, d)
             \/ Reject(p, v) \/ BeginGrace(p, v) \/ Abandon(p, v) \/ RecordCleanup(p, v)
      PROVE  LedgerInv'
  BY <1>1, ReserveInv, RecordObjectInv, RecordValidatedInv, RejectInv, BeginGraceInv,
     AbandonInv, RecordCleanupInv
<1>2. ASSUME NEW p \in PubId, NEW v,
             \/ Reserve(p) \/ Reject(p, v) \/ BeginGrace(p, v) \/ Abandon(p, v)
             \/ RecordCleanup(p, v)
      PROVE  LedgerInv'
  BY <1>2, ReserveInv, RejectInv, BeginGraceInv, AbandonInv, RecordCleanupInv
<1>3. ASSUME NEW l \in Leases, NEW vs, Finalize(l[1], l[2], vs)
      PROVE  LedgerInv'
  <2>1. l[1] \in Jobs
    BY DEF Leases
  <2>. QED  BY <1>3, <2>1, FinalizeInv
<1>. QED  BY <1>1, <1>2, <1>3 DEF LedgerStep

\* Every step keeps the invariant.
LEMMA LedgerNextInv ==
    ASSUME LedgerInv, [LedgerNext]_ledgerVars
    PROVE  LedgerInv'
<1>1. CASE UNCHANGED ledgerVars
  BY <1>1, QueueOnlyInv DEF ledgerVars, lqVars, pubVars
<1>2. CASE QueueStep /\ UNCHANGED pubVars
  BY <1>2, QueueOnlyInv DEF LQNext
<1>. QED  BY <1>1, <1>2, LedgerStepInv, LedgerTickInv DEF LedgerNext

\* The ledger's inductive invariant holds in every reachable state, and with it
\* the types and the invariant of the queue under a queue whose leases may also
\* end in success.
THEOREM LedgerInvariance == LedgerSpec => []LedgerInv
  BY LedgerInitInv, LedgerNextInv, PTL DEF LedgerSpec

-----------------------------------------------------------------------------
(* The safety properties *)

\* The invariant implies that the winner is complete and unambiguous.
LEMMA InvWinnerComplete ==
    ASSUME LedgerInv
    PROVE  WinnerComplete
<1>1. SUFFICES ASSUME NEW j \in Jobs, jobs[j].state = "succeeded"
               PROVE  /\ {a.kind : a \in VisibleWinner(j)} = RequiredKinds[j]
                      /\ \A a, b \in VisibleWinner(j) : a.kind = b.kind => a = b
                      /\ Granted(j, jobs[j].winner)
                      /\ attempts[j][jobs[j].winner].state = "succeeded"
                      /\ ~jobs[j].cancel
  BY DEF WinnerComplete
<1>. DEFINE n == jobs[j].winner
            row(k) == [job |-> j, attempt |-> n, kind |-> k, blob |-> pubs[<<j, n, k>>].blob]
<1>2. Granted(j, n) /\ attempts[j][n].state = "succeeded" /\ ~jobs[j].cancel
  BY <1>1 DEF LedgerInv, WinnerRows, LQInv, CancelIsSticky
<1>3. ASSUME NEW k \in RequiredKinds[j]
      PROVE  row(k) \in VisibleWinner(j) /\ row(k).kind = k
  <2>1. pubs[<<j, n, k>>].state = "finalized" /\ row(k) \in artifacts
    BY <1>1 DEF LedgerInv, WinnerRows
  <2>2. <<j, n, k>> \in PubId
    <3>1. Len(attempts[j]) <= MaxAttempts /\ Len(attempts[j]) \in Nat
      BY AttemptsType DEF LedgerInv, LQInv, RetryBudget
    <3>. QED  BY <1>2, <3>1, KindsAssumption, LimitAssumption DEF Granted, PubId
  <2>3. pubs[<<j, n, k>>].blob \in blobs
    BY <2>1, <2>2 DEF LedgerInv, OpenRowHasEvidence
  <2>. QED  BY <1>1, <2>1, <2>3 DEF VisibleWinner
<1>4. ASSUME NEW a \in VisibleWinner(j)
      PROVE  a.kind \in RequiredKinds[j] /\ a = row(a.kind)
  <2>1. a \in artifacts /\ a \in ArtifactRow /\ a.job = j /\ a.attempt = n
        /\ pubs[<<j, a.attempt, a.kind>>].blob = a.blob
    BY DEF VisibleWinner, LedgerInv, LedgerTypeOK
  <2>2. a = [job |-> a.job, attempt |-> a.attempt, kind |-> a.kind, blob |-> a.blob]
    BY <2>1 DEF ArtifactRow
  <2>3. a.kind \in RequiredKinds[j]
    BY <2>1 DEF LedgerInv, ArtifactOfRow
  <2>. QED  BY <2>1, <2>2, <2>3
<1>. HIDE DEF row
<1>5. {a.kind : a \in VisibleWinner(j)} = RequiredKinds[j]
  <2>1. ASSUME NEW k \in RequiredKinds[j]
        PROVE  \E a \in VisibleWinner(j) : k = a.kind
    BY <1>3
  <2>. QED  BY <1>4, <2>1
<1>6. \A a, b \in VisibleWinner(j) : a.kind = b.kind => a = b
  BY <1>4
<1>. QED  BY <1>2, <1>5, <1>6

\* A succeeded job shows one verified artifact of each required kind, all of
\* its one winning attempt, in every reachable state.
THEOREM WinnersComplete == LedgerSpec => []WinnerComplete
  BY LedgerInvariance, InvWinnerComplete, PTL

\* No finalized row and no artifact of a losing attempt ever exists.
THEOREM LosersHidden == LedgerSpec => []OnlyWinnerExposed
<1>1. LedgerInv => OnlyWinnerExposed
  BY DEF LedgerInv
<1>. QED  BY <1>1, LedgerInvariance, PTL

\* The sweeper never condemns a row of a current lease.
THEOREM CondemnedStale == LedgerSpec => []CondemnedIsStale
<1>1. LedgerInv => CondemnedIsStale
  BY DEF LedgerInv
<1>. QED  BY <1>1, LedgerInvariance, PTL

\* Rows keep the evidence of the state they are in.
THEOREM RowsHaveEvidence == LedgerSpec => []OpenRowHasEvidence
<1>1. LedgerInv => OpenRowHasEvidence
  BY DEF LedgerInv
<1>. QED  BY <1>1, LedgerInvariance, PTL

\* What the queue promises of its rows survives the ledger's own way of ending a
\* lease, the success that finalize writes.
THEOREM QueueSafeUnderLedger ==
    LedgerSpec => [](ExclusiveLease /\ NoStrandedRow /\ RetryBudget /\ EpochFences /\ CancelIsSticky)
<1>1. LedgerInv => ExclusiveLease /\ NoStrandedRow /\ RetryBudget /\ EpochFences /\ CancelIsSticky
  BY InvExclusive, InvNoStranded, InvEpochs DEF LedgerInv, LQInv
<1>. QED  BY <1>1, LedgerInvariance, PTL

\* What the ledger does to the queue's tables: a step of the queue, or the success
\* that finalize writes.
LEMMA QueueOrFinalize ==
    ASSUME [LedgerNext]_ledgerVars
    PROVE  \/ [LQNext]_lqVars
           \/ \E j \in Jobs : \E n, vs : Finalize(j, n, vs)
<1>1. CASE LedgerStep
  <2>1. UNCHANGED lqVars \/ \E l \in Leases : \E vs : Finalize(l[1], l[2], vs)
    BY <1>1 DEF LedgerStep, Reserve, RecordObject, RecordValidated, Reject, BeginGrace,
                Abandon, RecordCleanup
  <2>2. \A l \in Leases : l[1] \in Jobs
    BY DEF Leases
  <2>. QED  BY <2>1, <2>2
<1>2. CASE LedgerTick
  BY <1>2 DEF LedgerTick, LQNext
<1>3. CASE QueueStep
  BY <1>3 DEF LQNext
<1>4. CASE UNCHANGED ledgerVars
  BY <1>4 DEF ledgerVars, lqVars
<1>. QED  BY <1>1, <1>2, <1>3, <1>4 DEF LedgerNext

\* finalize closes the log of the winning attempt.
LEMMA FinalizeAudit ==
    ASSUME LedgerInv, AuditInv, NEW j \in Jobs, NEW n, NEW vs, Finalize(j, n, vs)
    PROVE  AuditInv'
<1>1. SUFFICES ASSUME NEW i \in Jobs  PROVE Logged(events'[i], attempts'[i])
  BY LoggedNext
<1>2. Logged(events[i], attempts[i])
  BY LoggedIsAudit DEF AuditInv
<1>3. /\ n \in 1..Len(attempts[j]) /\ jobs[j].state = "running"
      /\ \A k \in Jobs : k # j => attempts'[k] = attempts[k]
      /\ Len(attempts'[j]) = Len(attempts[j])
      /\ attempts'[j][n].state = "succeeded"
      /\ \A k \in 1..Len(attempts[j]) : k # n => attempts'[j][k] = attempts[j][k]
      /\ events' = [events EXCEPT ![j] = Emit(j, "job_succeeded", n)]
  BY FinalizeQueue
<1>4. events[j] \in Seq(EventRow) /\ events \in [Jobs -> Seq(EventRow)]
      /\ Len(attempts[j]) \in Nat
  BY AttemptsType DEF LedgerInv, LQInv, LQTypeOK
<1>5. CASE i # j
  BY <1>2, <1>3, <1>4, <1>5
<1>6. CASE i = j
  <2>1. n \in Nat /\ n > 0 /\ n = Len(attempts[j]) /\ attempts[j][n].state = "active"
    <3>1. jobs[j].current = n
      BY DEF Finalize, LockLease, LeaseCurrent, LockCurrent
    <3>. QED  BY <1>3, <1>4, <3>1 DEF LedgerInv, LQInv, RunningHasLease
  <2>2. "job_succeeded" \in ClosingEvents /\ "job_succeeded" = ClosedBy["succeeded"]
    BY DEF ClosingEvents, ClosedBy
  <2>3. events'[j] = Append(events[j], [type |-> "job_succeeded", attempt |-> n])
    BY <1>3, <1>4 DEF Emit
  <2>4. Logged(Append(events[j], [type |-> "job_succeeded", attempt |-> n]), attempts'[j])
    BY <1>2, <1>3, <1>4, <1>6, <2>1, <2>2, EndLog
  <2>. QED  BY <1>6, <2>3, <2>4
<1>. QED  BY <1>5, <1>6

\* The event log tells the history of the attempts also when they end in success
\* (finalize writes job_succeeded in the transaction that ends the lease).
THEOREM AuditUnderLedger == LedgerSpec => []AuditTrail
<1>1. LedgerInit => AuditInv
  BY InitAudit DEF LedgerInit
<1>2. LedgerInv /\ AuditInv /\ [LedgerNext]_ledgerVars => AuditInv'
  <2>1. SUFFICES ASSUME LedgerInv, AuditInv, [LedgerNext]_ledgerVars  PROVE AuditInv'
    OBVIOUS
  <2>. QED  BY <2>1, QueueOrFinalize, StepAudit, FinalizeAudit DEF LedgerInv
<1>3. AuditInv => AuditTrail
  BY DEF AuditInv
<1>. QED  BY LedgerInvariance, <1>1, <1>2, <1>3, PTL DEF LedgerSpec

-----------------------------------------------------------------------------
(* The ledger implements JobLifecycle: with finalize the queue has a way to every
   end that a client is promised. *)

\* finalize is the Finish of one job that nobody asked to cancel.
LEMMA FinalizeRefines ==
    ASSUME LedgerInv, NEW j \in Jobs, NEW n, NEW vs, Finalize(j, n, vs)
    PROVE  Lifecycle!Finish({j})
<1>1. /\ LQInv' /\ jobs[j].state = "running" /\ jobs'[j].state = "succeeded"
      /\ \A i \in Jobs : i # j => jobs'[i] = jobs[i] /\ attempts'[i] = attempts[i]
      /\ Len(attempts'[j]) = Len(attempts[j])
  BY FinalizeQueue
<1>2. ~jobs[j].cancel /\ ~jobs'[j].cancel
  <2>1. ~jobs[j].cancel
    BY DEF Finalize, LockLease, LeaseCurrent, LockCurrent
  <2>2. jobs'[j].cancel = jobs[j].cancel
    BY DEF Finalize, LedgerInv, LQInv, LQTypeOK, JobRow
  <2>. QED  BY <2>1, <2>2
<1>3. \A i \in Jobs : /\ jobs[i].cancel \in BOOLEAN /\ jobs'[i].cancel \in BOOLEAN
                      /\ jobs'[i].state \in {"absent", "queued", "running", "succeeded",
                                             "failed", "cancelled"}
  BY <1>1 DEF LedgerInv, LQInv, LQTypeOK, JobRow, JobState, TerminalJob
<1>4. \A i \in Jobs : jobs'[i].cancel = jobs[i].cancel
  BY <1>1, <1>2, <1>3
<1>5. \A i \in Jobs : Holder(i)' = IF i \in {j} THEN {} ELSE Holder(i)
  BY <1>1 DEF Holder
<1>. QED  BY <1>1, <1>2, <1>3, <1>4, <1>5 DEF Lifecycle!Finish, Lifecycle!After, Holder

\* Publication keeps the promise of the lifecycle: also the jobs that end in success
\* end once, under their last executor, and never after a cancellation was
\* acknowledged (finalize, _finish_lease, reap_expired).
THEOREM LedgerImplementsLifecycle == LedgerSpec => ImplementsLifecycle
<1>1. LedgerInit => Lifecycle!LifecycleInit
  BY InitRefines DEF LedgerInit
<1>2. LedgerInv /\ LedgerInv' /\ [LedgerNext]_ledgerVars =>
        [Lifecycle!LifecycleNext]_(Lifecycle!lifecycleVars)
  <2>1. SUFFICES ASSUME LedgerInv, LedgerInv', [LedgerNext]_ledgerVars
                 PROVE  [Lifecycle!LifecycleNext]_(Lifecycle!lifecycleVars)
    OBVIOUS
  <2>2. ASSUME NEW j \in Jobs, NEW n, NEW vs, Finalize(j, n, vs)
        PROVE  Lifecycle!LifecycleNext
    <3>1. Lifecycle!Finish({j}) /\ {j} \in SUBSET Jobs
      BY <2>1, <2>2, FinalizeRefines
    <3>. QED  BY <3>1 DEF Lifecycle!LifecycleNext
  <2>. QED  BY <2>1, <2>2, QueueOrFinalize, StepRefines DEF LedgerInv
<1>. QED  BY <1>1, <1>2, LedgerInvariance, PTL
          DEF LedgerSpec, ImplementsLifecycle, Lifecycle!LifecycleSpec

\* A lost lease stays lost also when other leases end in success: what a holder or
\* a sweeper has learned of the end of a lease it may rely on (assert_current).
THEOREM LostUnderLedger == LedgerSpec => StaleStaysStale
<1>1. LedgerInv /\ [LedgerNext]_ledgerVars =>
        [\A l \in Leases : ~LeaseCurrent(l[1], l[2]) => ~LeaseCurrent(l[1], l[2])']_lqVars
  <2>1. SUFFICES ASSUME LedgerInv, [LedgerNext]_ledgerVars, NEW l \in Leases,
                        LeaseCurrent(l[1], l[2])'
                 PROVE  LeaseCurrent(l[1], l[2])
    OBVIOUS
  <2>2. l[1] \in Jobs /\ l[2] \in 1..Len(attempts[l[1]])
    BY DEF Leases, Granted
  <2>. QED  BY <2>1, <2>2, QueueOrFinalize, StepMakesNone, FinalizeMakesNone DEF LedgerInv
<1>. QED  BY <1>1, LedgerInvariance, PTL DEF LedgerSpec, StaleStaysStale

-----------------------------------------------------------------------------
(* What was shown is shown for ever *)

\* A step leaves what condition VisibleForEver speaks of alone, given what it
\* does to terminal rows and to the job's own artifacts.
LEMMA VisibleKept ==
    ASSUME LedgerInv, NEW j \in Jobs, jobs[j].state = "succeeded",
           jobs'[j].state = "succeeded", jobs'[j].winner = jobs[j].winner,
           \A p \in PubId : pubs[p].state = "finalized" =>
                pubs'[p].state = "finalized" /\ pubs'[p].blob = pubs[p].blob,
           blobs \subseteq blobs', artifacts \subseteq artifacts',
           \A a \in artifacts' \ artifacts : a.job # j
    PROVE  VisibleWinner(j)' = VisibleWinner(j)
<1>1. ASSUME NEW a \in artifacts, a.job = j
      PROVE  /\ pubs[<<j, a.attempt, a.kind>>].state = "finalized"
             /\ pubs[<<j, a.attempt, a.kind>>].blob = a.blob /\ a.blob \in blobs
             /\ pubs'[<<j, a.attempt, a.kind>>].state = "finalized"
             /\ pubs'[<<j, a.attempt, a.kind>>].blob = a.blob /\ a.blob \in blobs'
  <2>1. <<a.job, a.attempt, a.kind>> \in PubId
    BY DEF LedgerInv, LedgerTypeOK, ArtifactRow, ArtifactOfRow, PubId
  <2>2. pubs[<<j, a.attempt, a.kind>>].state = "finalized"
        /\ pubs[<<j, a.attempt, a.kind>>].blob = a.blob
    BY <1>1 DEF LedgerInv, ArtifactOfRow, OnlyWinnerExposed
  <2>3. a.blob \in blobs
    BY <1>1, <2>1, <2>2 DEF LedgerInv, OpenRowHasEvidence
  <2>. QED  BY <1>1, <2>1, <2>2, <2>3
<1>2. VisibleWinner(j) = {a \in artifacts : a.job = j /\ a.attempt = jobs[j].winner}
  BY <1>1 DEF VisibleWinner
<1>3. VisibleWinner(j)' = {a \in artifacts' : a.job = j /\ a.attempt = jobs[j].winner}
  BY <1>1 DEF VisibleWinner
<1>. QED  BY <1>2, <1>3

\* What the step property demands of one job and one row.
ShownStays(j) == VisibleWinner(j) # {} => VisibleWinner(j)' = VisibleWinner(j)
TerminalStays(p) ==
    pubs[p].state \in TerminalPub =>
        /\ pubs'[p].state = pubs[p].state
        /\ pubs[p].cleaned => pubs'[p] = pubs[p]

\* A step of the queue or the clock changes neither a terminal row nor what a
\* succeeded job shows.
LEMMA QueueShows ==
    ASSUME LedgerInv, [LQNext]_lqVars, UNCHANGED <<blobs, artifacts>>,
           \A p \in PubId :
              /\ pubs'[p].state = pubs[p].state
              /\ pubs'[p].blob = pubs[p].blob
              /\ pubs[p].stale \in {NotStale, 0} => pubs'[p] = pubs[p]
    PROVE  (\A j \in Jobs : ShownStays(j)) /\ (\A p \in PubId : TerminalStays(p))
<1>1. \A p \in PubId : TerminalStays(p)
  BY DEF TerminalStays, LedgerInv, TerminalAtRest
<1>2. ASSUME NEW j \in Jobs, VisibleWinner(j) # {}
      PROVE  VisibleWinner(j)' = VisibleWinner(j)
  <2>1. jobs[j].state = "succeeded"
    BY <1>2 DEF VisibleWinner
  <2>2. jobs'[j].state = "succeeded" /\ jobs'[j].winner = jobs[j].winner
    BY <2>1, QueueKeepsWinner DEF LedgerInv
  <2>. QED  BY <2>1, <2>2, VisibleKept
<1>. QED  BY <1>1, <1>2 DEF ShownStays

\* An operation on one row that the queue does not notice.
LEMMA RowShows ==
    ASSUME LedgerInv, UNCHANGED <<lqVars, artifacts>>, blobs \subseteq blobs',
           NEW p \in PubId, NEW r, pubs' = [pubs EXCEPT ![p] = r],
           pubs[p].state \in TerminalPub =>
                ~pubs[p].cleaned /\ r.state = pubs[p].state /\ r.blob = pubs[p].blob
    PROVE  (\A j \in Jobs : ShownStays(j)) /\ (\A q \in PubId : TerminalStays(q))
<1>1. pubs'[p] = r /\ \A q \in PubId : q # p => pubs'[q] = pubs[q]
  BY DEF LedgerInv, LedgerTypeOK
<1>2. \A q \in PubId : TerminalStays(q)
  BY <1>1 DEF TerminalStays
<1>3. \A q \in PubId : pubs[q].state = "finalized" =>
            pubs'[q].state = "finalized" /\ pubs'[q].blob = pubs[q].blob
  BY <1>1 DEF TerminalPub
<1>4. ASSUME NEW j \in Jobs, VisibleWinner(j) # {}
      PROVE  VisibleWinner(j)' = VisibleWinner(j)
  <2>1. jobs[j].state = "succeeded" /\ jobs' = jobs
    BY <1>4 DEF VisibleWinner, lqVars
  <2>. QED  BY <1>3, <2>1, VisibleKept
<1>. QED  BY <1>2, <1>4 DEF ShownStays

\* Finalization of a job touches no terminal row and nothing of another job.
LEMMA FinalizeShows ==
    ASSUME LedgerInv, NEW j \in Jobs, NEW n, NEW vs, Finalize(j, n, vs)
    PROVE  (\A i \in Jobs : ShownStays(i)) /\ (\A p \in PubId : TerminalStays(p))
<1>1. /\ jobs[j].state = "running"
      /\ \A i \in Jobs : i # j => jobs'[i] = jobs[i]
  BY FinalizeQueue
<1>2. ASSUME NEW p \in PubId, pubs[p].state \in TerminalPub
      PROVE  pubs'[p] = pubs[p]
  <2>1. ~(p[1] = j /\ p[2] = n /\ p[3] \in DOMAIN vs)
    <3>1. SUFFICES ASSUME p[1] = j, p[2] = n, p[3] \in DOMAIN vs  PROVE FALSE
      OBVIOUS
    <3>2. p = <<j, n, p[3]>>
      BY <3>1, PubParts
    <3>3. pubs[p].state = "validated"
      BY <3>1, <3>2 DEF Finalize, AtVersion
    <3>. QED  BY <1>2, <3>3 DEF TerminalPub
  <2>. QED  BY <2>1 DEF Finalize
<1>3. artifacts \subseteq artifacts' /\ \A a \in artifacts' \ artifacts : a.job = j
  <2>. DEFINE row(k) == [job |-> j, attempt |-> n, kind |-> k,
                         blob |-> pubs[<<j, n, k>>].blob]
  <2>1. artifacts' = artifacts \cup {row(k) : k \in DOMAIN vs}
    BY DEF Finalize
  <2>2. \A k : row(k).job = j
    OBVIOUS
  <2>. HIDE DEF row
  <2>. QED  BY <2>1, <2>2
<1>4. ASSUME NEW i \in Jobs, VisibleWinner(i) # {}
      PROVE  VisibleWinner(i)' = VisibleWinner(i)
  <2>1. jobs[i].state = "succeeded"
    BY <1>4 DEF VisibleWinner
  <2>2. i # j /\ jobs'[i] = jobs[i] /\ blobs' = blobs
    BY <1>1, <2>1 DEF Finalize
  <2>3. \A p \in PubId : pubs[p].state = "finalized" =>
            pubs'[p].state = "finalized" /\ pubs'[p].blob = pubs[p].blob
    BY <1>2 DEF TerminalPub
  <2>. QED  BY <1>3, <2>1, <2>2, <2>3, VisibleKept
<1>. QED  BY <1>2, <1>4 DEF ShownStays, TerminalStays

\* The step property, one operation at a time.
LEMMA StepShows ==
    ASSUME LedgerInv, [LedgerNext]_ledgerVars
    PROVE  (\A j \in Jobs : ShownStays(j)) /\ (\A p \in PubId : TerminalStays(p))
<1>. DEFINE Stays == (\A j \in Jobs : ShownStays(j)) /\ (\A p \in PubId : TerminalStays(p))
<1>1. CASE UNCHANGED ledgerVars
  BY <1>1, QueueShows DEF ledgerVars, lqVars
<1>2. CASE QueueStep /\ UNCHANGED pubVars
  BY <1>2, QueueShows DEF LQNext, pubVars
<1>3. CASE LedgerTick
  <2>1. [LQNext]_lqVars /\ UNCHANGED <<blobs, artifacts>>
    BY <1>3 DEF LedgerTick, LQNext
  <2>2. ASSUME NEW p \in PubId
        PROVE  /\ pubs'[p].state = pubs[p].state
               /\ pubs'[p].blob = pubs[p].blob
               /\ pubs[p].stale \in {NotStale, 0} => pubs'[p] = pubs[p]
    <3>1. pubs[p] \in PubRow /\ pubs'[p] = [pubs[p] EXCEPT !.stale = GraceAfter(@)]
      BY <1>3 DEF LedgerTick, LedgerInv, LedgerTypeOK
    <3>2. pubs[p].stale \in {NotStale, 0} => GraceAfter(pubs[p].stale) = pubs[p].stale
      BY DEF GraceAfter, NotStale
    <3>. QED  BY <3>1, <3>2 DEF PubRow
  <2>. QED  BY <2>1, <2>2, QueueShows
<1>4. ASSUME NEW p \in PubId, NEW v, NEW d,
             \/ Reserve(p) \/ RecordObject(p, v, d) \/ RecordValidated(p, v, d)
             \/ Reject(p, v) \/ BeginGrace(p, v) \/ Abandon(p, v)
      PROVE  Stays
  <2>1. pubs[p].state \notin TerminalPub
    BY <1>4 DEF Reserve, RecordObject, RecordValidated, Reject, BeginGrace, Abandon,
                AtVersion, OpenPub, TerminalPub
  <2>2. UNCHANGED <<lqVars, artifacts>> /\ blobs \subseteq blobs'
    BY <1>4 DEF Reserve, RecordObject, RecordValidated, Reject, BeginGrace, Abandon
  <2>3. \E r : pubs' = [pubs EXCEPT ![p] = r]
    BY <1>4 DEF Reserve, RecordObject, RecordValidated, Reject, BeginGrace, Abandon
  <2>. QED  BY <2>1, <2>2, <2>3, RowShows
<1>5. ASSUME NEW p \in PubId, NEW v, RecordCleanup(p, v)
      PROVE  Stays
  <2>. DEFINE r == [pubs[p] EXCEPT !.cleaned = TRUE, !.version = @ + 1]
  <2>1. pubs[p] \in PubRow
    BY DEF LedgerInv, LedgerTypeOK
  <2>2. r.state = pubs[p].state /\ r.blob = pubs[p].blob
    BY <2>1 DEF PubRow
  <2>3. /\ pubs' = [pubs EXCEPT ![p] = r] /\ ~pubs[p].cleaned
        /\ UNCHANGED <<lqVars, artifacts>> /\ blobs' = blobs
    BY <1>5 DEF RecordCleanup
  <2>. HIDE DEF r
  <2>. QED  BY <2>2, <2>3, RowShows
<1>6. ASSUME NEW l \in Leases, NEW vs, Finalize(l[1], l[2], vs)
      PROVE  Stays
  <2>1. l[1] \in Jobs
    BY DEF Leases
  <2>. QED  BY <1>6, <2>1, FinalizeShows
<1>. QED  BY <1>1, <1>2, <1>3, <1>4, <1>5, <1>6 DEF LedgerNext, LedgerStep

\* What a client was shown of a job it is shown for ever, and a terminal row
\* changes only once more, for its cleanup evidence.
THEOREM ShownForEver == LedgerSpec => VisibleForEver
<1>1. LedgerInv /\ [LedgerNext]_ledgerVars =>
        [/\ \A j \in Jobs : VisibleWinner(j) # {} => VisibleWinner(j)' = VisibleWinner(j)
         /\ \A p \in PubId : pubs[p].state \in TerminalPub =>
              /\ pubs'[p].state = pubs[p].state
              /\ pubs[p].cleaned => pubs'[p] = pubs[p]]_ledgerVars
  BY StepShows DEF ShownStays, TerminalStays
<1>. QED  BY <1>1, LedgerInvariance, PTL DEF LedgerSpec, VisibleForEver

=============================================================================
