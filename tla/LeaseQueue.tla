----------------------------- MODULE LeaseQueue -----------------------------
(***************************************************************************)
(* The durable job queue of durable/queue.py (PostgresLeaseQueue) and the  *)
(* job rows of durable/postgres_repository.py.  Every operation is one     *)
(* PostgreSQL transaction that locks worker, job and attempt rows in that  *)
(* order, so each is one action.                                           *)
(*                                                                         *)
(* A lease is named by <<j, n>>: job j and attempt number n.  The other    *)
(* two parts of the code's Lease identity, worker and epoch, are immutable *)
(* columns of the attempt row.  Every action on a lease takes ANY lease    *)
(* ever granted, so a caller may be a worker that lost it long ago.        *)
(*                                                                         *)
(* Time: PostgreSQL's clock is the only clock.  The columns that hold      *)
(* instants are kept as the time that is left until them (ttl for          *)
(* lease_expires_at, retry for retry_not_before), and Tick is the clock.   *)
(***************************************************************************)
EXTENDS Integers, Sequences, FiniteSets

CONSTANTS
    Jobs,               \* job ids
    Workers,            \* worker ids
    Deployments,        \* model deployment ids
    JobDeployment,      \* jobs.model_deployment_id, immutable
    WorkerDeployment,   \* workers.model_deployment_id, immutable
    LeaseSeconds,       \* lease_seconds of claim_next and heartbeat
    RetryDelay,         \* retry_delay_seconds
    MaxAttempts,        \* largest max_attempts any caller passes
    ReapLimit,          \* limit of reap_expired
    CancelBound         \* bound on the cancel_requested events of a job

ASSUME JobsAssumption == IsFiniteSet(Jobs)
ASSUME DeploymentAssumption ==
    /\ JobDeployment \in [Jobs -> Deployments]
    /\ WorkerDeployment \in [Workers -> Deployments]
ASSUME TimeAssumption ==
    /\ LeaseSeconds \in Nat \ {0}
    /\ RetryDelay \in Nat \ {0}
ASSUME LimitAssumption ==
    /\ MaxAttempts \in Nat \ {0}
    /\ ReapLimit \in Nat \ {0}
    /\ CancelBound \in Nat

VARIABLES
    jobs,       \* jobs[j]: the row of table jobs, "absent" before create_job
    attempts,   \* attempts[j]: the job_attempts rows of j, by attempt_no
    workers,    \* workers[w]: workers.state, "absent" before registration
    events      \* events[j]: the job_events rows of j, in id order

lqVars == <<jobs, attempts, workers, events>>

-----------------------------------------------------------------------------
(* Rows *)

TerminalJob == {"succeeded", "failed", "cancelled"}
JobState == {"absent", "queued", "running"} \cup TerminalJob
AttemptState ==
    {"active", "succeeded", "failed_terminal", "failed_retryable", "cancelled"}
EventType ==
    {"job_created", "attempt_started", "cancel_requested", "attempt_cancelled",
     "attempt_failed", "attempt_requeued", "job_succeeded"}
WorkerState == {"absent", "ready", "busy"}

NoAttempt == 0      \* NULL in current_attempt_id, winning_attempt_id, attempt_id

JobRow == [state: JobState, created: Nat, epoch: Nat, current: Nat,
           winner: Nat, cancel: BOOLEAN, retry: Nat]
AttemptRow == [worker: Workers, epoch: Nat, state: AttemptState, ttl: Nat]
EventRow == [type: EventType, attempt: Nat]

AbsentJob == [state |-> "absent", created |-> 0, epoch |-> 0,
              current |-> NoAttempt, winner |-> NoAttempt, cancel |-> FALSE,
              retry |-> 0]

\* Every row keeps the columns and the states its table allows.
LQTypeOK ==
    /\ jobs \in [Jobs -> JobRow]
    /\ attempts \in [Jobs -> Seq(AttemptRow)]
    /\ workers \in [Workers -> WorkerState]
    /\ events \in [Jobs -> Seq(EventRow)]

-----------------------------------------------------------------------------
(* Which lease is current *)

Granted(j, n) == n \in 1..Len(attempts[j])
Leases == {l \in Jobs \X (1..MaxAttempts) : Granted(l[1], l[2])}

LockCurrent(j, n, requireUnexpired) ==
    /\ Granted(j, n)
    /\ workers[attempts[j][n].worker] = "busy"
    /\ jobs[j].state = "running"
    /\ jobs[j].current = n
    /\ jobs[j].epoch = attempts[j][n].epoch
    /\ attempts[j][n].state = "active"
    /\ requireUnexpired => attempts[j][n].ttl > 0

\* assert_current: what a worker, the publisher and the ledger's lease trigger
\* all require before they act for a lease.
LeaseCurrent(j, n) == LockCurrent(j, n, TRUE) /\ ~jobs[j].cancel

Emit(j, type, n) == Append(events[j], [type |-> type, attempt |-> n])

-----------------------------------------------------------------------------
(* Admission *)

Created == {j \in Jobs : jobs[j].state # "absent"}

\* create_job for a key not used before, once its deployment is READY.
CreateJob(j) ==
    /\ jobs[j].state = "absent"
    /\ jobs' = [jobs EXCEPT ![j].state = "queued",
                            ![j].created = Cardinality(Created) + 1]
    /\ events' = [events EXCEPT ![j] = Emit(j, "job_created", NoAttempt)]
    /\ UNCHANGED <<attempts, workers>>

\* A worker process makes sure that its row exists; a row that is there, busy
\* or not, is left alone.
RegisterWorker(w) ==
    /\ workers[w] = "absent"
    /\ workers' = [workers EXCEPT ![w] = "ready"]
    /\ UNCHANGED <<jobs, attempts, events>>

-----------------------------------------------------------------------------
(* Claim and heartbeat *)

\* The queued jobs the claim's SELECT ... SKIP LOCKED sees; locked are the rows
\* that concurrent transactions hold.
Claimable(w, locked) ==
    {j \in Jobs \ locked :
        /\ jobs[j].state = "queued"
        /\ ~jobs[j].cancel
        /\ JobDeployment[j] = WorkerDeployment[w]
        /\ jobs[j].retry = 0}

StuckEpoch(j) == jobs[j].epoch                  \* mutant: no increment
NextEpoch(j) == jobs[j].epoch + 1

IdleWorkers(w) == workers                       \* mutant: no UPDATE workers
BusyWorkers(w) == [workers EXCEPT ![w] = "busy"]

Grant(w, j) ==
    /\ attempts' = [attempts EXCEPT ![j] = Append(@,
                        [worker |-> w, epoch |-> NextEpoch(j),
                         state |-> "active", ttl |-> LeaseSeconds])]
    /\ jobs' = [jobs EXCEPT ![j].state = "running",
                            ![j].current = Len(attempts[j]) + 1,
                            ![j].epoch = NextEpoch(j),
                            ![j].retry = 0]
    /\ workers' = BusyWorkers(w)
    /\ events' = [events EXCEPT ![j] =
                    Emit(j, "attempt_started", Len(attempts[j]) + 1)]

ClaimNext(w, j, locked) ==
    /\ workers[w] = "ready"
    /\ j \in Claimable(w, locked)
    /\ \A k \in Claimable(w, locked) : jobs[j].created <= jobs[k].created
    /\ Grant(w, j)

\* Mutant: a lease that expired but was not reaped yet is renewed.
HeartbeatExpired(j, n) ==
    /\ LockCurrent(j, n, FALSE)
    /\ ~jobs[j].cancel
    /\ attempts' = [attempts EXCEPT ![j][n].ttl = LeaseSeconds]
    /\ UNCHANGED <<jobs, workers, events>>

\* Mutant: a heartbeat that does not look at cancel_requested_at.
HeartbeatCancelled(j, n) ==
    /\ LockCurrent(j, n, TRUE)
    /\ attempts' = [attempts EXCEPT ![j][n].ttl = LeaseSeconds]
    /\ UNCHANGED <<jobs, workers, events>>

Heartbeat(j, n) ==
    /\ LockCurrent(j, n, TRUE)
    /\ ~jobs[j].cancel
    /\ attempts' = [attempts EXCEPT ![j][n].ttl = LeaseSeconds]
    /\ UNCHANGED <<jobs, workers, events>>

-----------------------------------------------------------------------------
(* Cancellation requests *)

\* PostgresLeaseQueue.request_cancel: at most one cancel_requested event.
RequestCancel(j) ==
    /\ jobs[j].state \in {"queued", "running"}
    /\ ~jobs[j].cancel
    /\ jobs' = [jobs EXCEPT
                    ![j].state = IF @ = "queued" THEN "cancelled" ELSE @,
                    ![j].cancel = TRUE]
    /\ events' = [events EXCEPT ![j] =
                    Emit(j, "cancel_requested", jobs[j].current)]
    /\ UNCHANGED <<attempts, workers>>

CancelEvents(j) ==
    Cardinality({i \in DOMAIN events[j] : events[j][i].type = "cancel_requested"})

\* PostgresDurableRepository.request_cancel, the API's path: every repeated
\* request on a running job writes the flag and one more event.
ApiRequestCancel(j) ==
    /\ jobs[j].state \in {"queued", "running"}
    /\ CancelEvents(j) < CancelBound
    /\ jobs' = [jobs EXCEPT
                    ![j].state = IF @ = "queued" THEN "cancelled" ELSE @,
                    ![j].cancel = TRUE]
    /\ events' = [events EXCEPT ![j] =
                    Emit(j, "cancel_requested", jobs[j].current)]
    /\ UNCHANGED <<attempts, workers>>

-----------------------------------------------------------------------------
(* The end of a lease without success *)

\* Mutant: the budget allows one attempt too many.
OutcomeOffByOne(j, maxAttempts) ==
    IF jobs[j].cancel THEN "cancelled"
    ELSE IF jobs[j].current > maxAttempts THEN "failed_terminal"
    ELSE "failed_retryable"

\* Mutant: the retry budget is looked at before the cancellation.
OutcomeBudgetFirst(j, maxAttempts) ==
    IF jobs[j].current >= maxAttempts THEN "failed_terminal"
    ELSE IF jobs[j].cancel THEN "cancelled"
    ELSE "failed_retryable"

\* What becomes of the current attempt of j: a requested cancellation wins over
\* the retry budget.
Outcome(j, maxAttempts) ==
    IF jobs[j].cancel THEN "cancelled"
    ELSE IF jobs[j].current >= maxAttempts THEN "failed_terminal"
    ELSE "failed_retryable"

JobStateAfter ==
    [cancelled |-> "cancelled", failed_terminal |-> "failed",
     failed_retryable |-> "queued"]
EventAfter ==
    [cancelled |-> "attempt_cancelled", failed_terminal |-> "attempt_failed",
     failed_retryable |-> "attempt_requeued"]

KeptWorkers(S) == workers                       \* mutant: no UPDATE workers
ReleasedWorkers(S) ==
    [w \in Workers |->
        IF \E j \in S : attempts[j][jobs[j].current].worker = w
        THEN "ready" ELSE workers[w]]

\* Mutant: the event is written for the job, not for the attempt.
CloseForJob(j, maxAttempts) ==
    Emit(j, EventAfter[Outcome(j, maxAttempts)], NoAttempt)
CloseEvents(j, maxAttempts) ==
    Emit(j, EventAfter[Outcome(j, maxAttempts)], jobs[j].current)

\* End the current attempts of the jobs S in one transaction.
EndLeases(S, maxAttempts) ==
    /\ attempts' = [j \in Jobs |->
            IF j \in S
            THEN [attempts[j] EXCEPT
                    ![jobs[j].current].state = Outcome(j, maxAttempts),
                    ![jobs[j].current].ttl = 0]
            ELSE attempts[j]]
    /\ workers' = ReleasedWorkers(S)
    /\ jobs' = [j \in Jobs |->
            IF j \in S
            THEN [jobs[j] EXCEPT
                    !.state = JobStateAfter[Outcome(j, maxAttempts)],
                    !.current = NoAttempt,
                    !.retry = IF Outcome(j, maxAttempts) = "failed_retryable"
                              THEN RetryDelay ELSE @]
            ELSE jobs[j]]
    /\ events' = [j \in Jobs |->
            IF j \in S THEN CloseEvents(j, maxAttempts) ELSE events[j]]

CancelCurrent(j, n) ==
    /\ LockCurrent(j, n, TRUE)
    /\ jobs[j].cancel
    /\ EndLeases({j}, 1)

\* maxAttempts is 1 for a failure that a retry cannot cure.
FailRetryable(j, n, maxAttempts) ==
    /\ LockCurrent(j, n, TRUE)
    /\ EndLeases({j}, maxAttempts)

\* Mutant: the reaper takes only what can be queued again.
ExpiredRetryable(j) ==
    /\ LockCurrent(j, jobs[j].current, FALSE)
    /\ attempts[j][jobs[j].current].ttl = 0
    /\ jobs[j].current < MaxAttempts

\* The leases the reaper may end: the owner has let them expire.
Expired(j) ==
    /\ LockCurrent(j, jobs[j].current, FALSE)
    /\ attempts[j][jobs[j].current].ttl = 0

\* One bounded batch of expired leases.  Rows that another transaction holds
\* are skipped, and all of them are equally old here, so any batch may be taken.
ReapExpired(batch) ==
    /\ batch # {}
    /\ \A j \in batch : Expired(j)
    /\ Cardinality(batch) <= ReapLimit
    /\ EndLeases(batch, MaxAttempts)

-----------------------------------------------------------------------------
(* The clock *)

Before(t) == IF t > 0 THEN t - 1 ELSE 0

Tick ==
    /\ \E j \in Jobs :
        \/ jobs[j].retry > 0
        \/ \E n \in 1..Len(attempts[j]) : attempts[j][n].ttl > 0
    /\ jobs' = [j \in Jobs |-> [jobs[j] EXCEPT !.retry = Before(@)]]
    /\ attempts' = [j \in Jobs |-> [n \in 1..Len(attempts[j]) |->
                        [attempts[j][n] EXCEPT !.ttl = Before(@)]]]
    /\ UNCHANGED <<workers, events>>

-----------------------------------------------------------------------------
(* The specification *)

LQInit ==
    /\ jobs = [j \in Jobs |-> AbsentJob]
    /\ attempts = [j \in Jobs |-> <<>>]
    /\ workers = [w \in Workers |-> "absent"]
    /\ events = [j \in Jobs |-> <<>>]

\* Every operation of the queue; the clock is not one of them.
QueueStep ==
    \/ \E j \in Jobs : CreateJob(j) \/ RequestCancel(j) \/ ApiRequestCancel(j)
    \/ \E w \in Workers : RegisterWorker(w)
    \/ \E w \in Workers, j \in Jobs, locked \in SUBSET Jobs :
            ClaimNext(w, j, locked)
    \/ \E l \in Leases :
            \/ Heartbeat(l[1], l[2])
            \/ CancelCurrent(l[1], l[2])
            \/ \E m \in {1, MaxAttempts} : FailRetryable(l[1], l[2], m)
    \/ \E batch \in SUBSET Jobs : ReapExpired(batch)

LQNext == QueueStep \/ Tick

LQSpec == LQInit /\ [][LQNext]_lqVars

-----------------------------------------------------------------------------
(* Correctness *)

ActiveLeases ==
    {l \in Leases : attempts[l[1]][l[2]].state = "active"}

\* One executor per job and per worker: an active attempt is the one its job
\* names as current, its worker is busy with it, and no other active attempt
\* shares the job or the worker.  claim_next, _finish_lease, reap_expired and
\* finalize each update three tables to keep this.
ExclusiveLease ==
    /\ \A l \in ActiveLeases :
        LockCurrent(l[1], l[2], FALSE)
    /\ \A l, m \in ActiveLeases :
        \/ l = m
        \/ /\ l[1] # m[1]
           /\ attempts[l[1]][l[2]].worker # attempts[m[1]][m[2]].worker

\* No worker row is stranded: claim_next takes READY workers only and only the
\* end of a lease makes a worker READY again, so a busy worker without an
\* active attempt, or a running job without one, could never be recovered.
NoStrandedRow ==
    /\ \A w \in Workers : workers[w] = "busy" =>
        \E l \in ActiveLeases : attempts[l[1]][l[2]].worker = w
    /\ \A j \in Jobs : jobs[j].state = "running" =>
        <<j, jobs[j].current>> \in ActiveLeases

\* The retry budget: claim_next itself never looks at max_attempts, so only the
\* outcome table of _finish_lease and reap_expired keeps a job from being
\* started more often than the budget allows.
RetryBudget ==
    \A j \in Jobs :
        /\ Len(attempts[j]) <= MaxAttempts
        /\ jobs[j].state = "queued" => Len(attempts[j]) < MaxAttempts

\* A later lease of a job always carries a higher epoch, and the job row names
\* the highest: the epoch is a fencing token.
EpochFences ==
    \A j \in Jobs :
        /\ \A n, m \in 1..Len(attempts[j]) :
            n < m => attempts[j][n].epoch < attempts[j][m].epoch
        /\ \A n \in 1..Len(attempts[j]) : attempts[j][n].epoch <= jobs[j].epoch

\* A requested cancellation is never lost and never invented: the flag stays
\* until the job is cancelled, and only a flagged job ends cancelled.
CancelIsSticky ==
    \A j \in Jobs :
        /\ jobs[j].cancel => jobs[j].state \in {"running", "cancelled"}
        /\ jobs[j].state = "cancelled" => jobs[j].cancel

EventsOf(j, types, n) ==
    {i \in DOMAIN events[j] : events[j][i].type \in types /\ events[j][i].attempt = n}

ClosingEvents ==
    {"attempt_cancelled", "attempt_failed", "attempt_requeued", "job_succeeded"}
ClosedBy ==
    [succeeded |-> "job_succeeded", failed_terminal |-> "attempt_failed",
     failed_retryable |-> "attempt_requeued", cancelled |-> "attempt_cancelled"]

\* The event log tells the history of the attempts: every attempt has exactly
\* one start, an ended attempt has exactly one closing event of the kind its
\* final state calls for, an active one has none, and an attempt starts only
\* after its predecessor was closed.
AuditTrail ==
    \A j \in Jobs : \A n \in 1..Len(attempts[j]) :
        /\ \E s \in DOMAIN events[j] :
            /\ EventsOf(j, {"attempt_started"}, n) = {s}
            /\ n > 1 => \E c \in EventsOf(j, ClosingEvents, n - 1) : c < s
        /\ IF attempts[j][n].state = "active"
           THEN EventsOf(j, ClosingEvents, n) = {}
           ELSE \E c \in DOMAIN events[j] :
                    /\ EventsOf(j, ClosingEvents, n) = {c}
                    /\ events[j][c].type = ClosedBy[attempts[j][n].state]

\* A lease that was lost is lost for ever: no heartbeat, claim or clock step
\* makes an expired, cancelled or superseded lease pass assert_current again.
StaleStaysStale ==
    [][\A l \in Leases : ~LeaseCurrent(l[1], l[2]) => ~LeaseCurrent(l[1], l[2])']_lqVars

\* The queue implements the lifecycle a client is promised: every transaction is
\* one step of JobLifecycle or leaves what the client can see alone.
Lifecycle == INSTANCE JobLifecycle WITH
    status <- [j \in Jobs |-> jobs[j].state],
    tries <- [j \in Jobs |-> Len(attempts[j])],
    holder <- [j \in Jobs |->
        IF jobs[j].state = "running"
        THEN {attempts[j][jobs[j].current].worker} ELSE {}],
    cancelling <- [j \in Jobs |-> jobs[j].cancel]
ImplementsLifecycle == Lifecycle!LifecycleSpec

\* A cancelled running job ends cancelled even when its worker never reacts:
\* the flag stops the heartbeats, the lease expires and the reaper ends it.
CancelTerminates ==
    \A j \in Jobs : jobs[j].cancel ~> jobs[j].state = "cancelled"

-----------------------------------------------------------------------------
(* The inductive invariant behind the safety properties *)

EpochCounts ==
    \A j \in Jobs :
        /\ jobs[j].epoch = Len(attempts[j])
        /\ \A n \in 1..Len(attempts[j]) : attempts[j][n].epoch = n

\* The lease of a running job is its last one.
RunningHasLease ==
    \A j \in Jobs : jobs[j].state = "running" =>
        /\ jobs[j].current = Len(attempts[j])
        /\ Granted(j, jobs[j].current)
        /\ attempts[j][jobs[j].current].state = "active"

ActiveIsCurrent ==
    \A j \in Jobs : \A n \in 1..Len(attempts[j]) :
        attempts[j][n].state = "active" =>
            /\ jobs[j].state = "running"
            /\ jobs[j].current = n
            /\ workers[attempts[j][n].worker] = "busy"

Holds(w, j) ==
    jobs[j].state = "running" /\ attempts[j][jobs[j].current].worker = w

OneJobEach ==
    \A w \in Workers : \A j, k \in Jobs : Holds(w, j) /\ Holds(w, k) => j = k

BusyHolds ==
    \A w \in Workers : workers[w] = "busy" => \E j \in Jobs : Holds(w, j)

AbsentIsFresh ==
    \A j \in Jobs : jobs[j].state = "absent" => Len(attempts[j]) = 0

LQInv ==
    /\ LQTypeOK
    /\ AbsentIsFresh
    /\ EpochCounts
    /\ RunningHasLease
    /\ ActiveIsCurrent
    /\ OneJobEach
    /\ BusyHolds
    /\ RetryBudget
    /\ CancelIsSticky

\* For the event log: no event speaks of an attempt that was not granted yet.
EventsOfGranted ==
    \A j \in Jobs : \A i \in DOMAIN events[j] :
        events[j][i].type \in ClosingEvents \cup {"attempt_started"} =>
            Granted(j, events[j][i].attempt)

=============================================================================
