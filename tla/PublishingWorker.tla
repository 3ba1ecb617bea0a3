--------------------------- MODULE PublishingWorker ---------------------------
(***************************************************************************)
(* Worker processes: the loop of reference_worker.py around                *)
(* DurablePublishingWorker.run_once, which drives DurableRuntimeWorker     *)
(* .run_once and ArtifactPublicationService.publish.  The planner makes    *)
(* one candidate, of kind Output, of every runtime result.                 *)
(*                                                                         *)
(* A process is a thread that walks through the stages of a delivery and,  *)
(* while it publishes, a monitor thread that renews the lease.  Every      *)
(* transaction and every access to a store is one step; between any two of *)
(* them the lease may be cancelled, expire or be reaped, the process may   *)
(* crash, and another process may take the job over.  The attempt store    *)
(* and the sweeper are the subject of OrphanSweep.                         *)
(***************************************************************************)
EXTENDS Publication

CONSTANTS
    Output,     \* ArtifactKind.OUTPUT
    Results     \* Results[n]: what the runtime may produce in attempt n
ASSUME OutputAssumption == Output \in Kinds
ASSUME ResultsAssumption == Results \in [1..MaxAttempts -> SUBSET Digests]

VARIABLES
    proc,       \* proc[w]: the thread of worker w that runs deliveries
    mon,        \* mon[w]: the publication monitor and the outcome it recorded
    canon,      \* the digests whose bytes are in the canonical store
    made        \* history: what the runtime produced for each lease

procVars == <<proc, mon, canon, made>>
workVars == <<ledgerVars, procVars>>

-----------------------------------------------------------------------------
(* Process state *)

\* Stages of publish that run checkpoints while they stream bytes.
Streaming == {"write", "validate", "promote", "verify", "finalize"}
Ending == {"cancel", "fail_terminal", "fail_retryable"}
PC == {"dead", "down", "idle", "claimed", "deployed", "evidence", "invoke", "produced", "rejected", "stopped",
       "faulted", "start", "plan", "reserve", "record", "record_validated",
       "cleanup", "failing"} \cup Streaming \cup Ending

AnyJob == CHOOSE j \in Jobs : TRUE

\* check: what the next checkpoint step of a streaming stage is.
\* final: the failure cannot be cured by a retry (deterministic).
\* skipped: the lease could not be ended because its rows were locked.
Proc == [pc: PC, job: Jobs \cup {AnyJob}, n: Nat, v: Nat, check: {"assert", "hook", "act"},
         final: BOOLEAN, skipped: BOOLEAN]
Monitor == {"off", "starting", "on", "cancel", "lost", "fatal"}

NewProc(pc) == [pc |-> pc, job |-> AnyJob, n |-> NoAttempt, v |-> 0,
                check |-> "assert", final |-> FALSE, skipped |-> FALSE]

\* Ledger, processes and canonical store are well formed: only digests of bytes
\* that were produced reach the canonical store.
WorkerTypeOK ==
    /\ LedgerTypeOK
    /\ proc \in [Workers -> Proc]
    /\ mon \in [Workers -> Monitor]
    /\ canon \subseteq Digests
    /\ made \in [Jobs \X (1..MaxAttempts) -> Digests \cup {NoDigest}]

JobOnly(w) == <<proc[w].job, 1>>                \* mutant: keyed by the job
Lease(w) == <<proc[w].job, proc[w].n>>
Pub(w) == <<proc[w].job, proc[w].n, Output>>
Mine(w) == LeaseCurrent(proc[w].job, proc[w].n)
MineUnexpired(w) == LockCurrent(proc[w].job, proc[w].n, TRUE)
CancelSeen(w) == MineUnexpired(w) /\ jobs[proc[w].job].cancel

At(w, pc) == proc[w].pc = pc
Goto(w, pc) == proc' = [proc EXCEPT ![w].pc = pc, ![w].check = "assert"]

\* An exception that leaves run_once ends the process; a history of the lease
\* it had is kept.
Leaves(w, skipped) ==
    /\ proc' = [proc EXCEPT ![w] = [NewProc("down") EXCEPT
                    !.job = proc[w].job, !.n = proc[w].n, !.skipped = skipped]]
    /\ mon' = [mon EXCEPT ![w] = "off"]
Exit(w) == Leaves(w, FALSE)

\* A worker that cannot be trusted any more, or whose host fails.
Dies(w) == proc' = [proc EXCEPT ![w] = NewProc("dead")]

-----------------------------------------------------------------------------
(* The process *)

\* main after the container's restart: the worker row is made sure of.
Restart(w) ==
    /\ proc[w].pc \in {"dead", "down"}
    /\ IF workers[w] = "absent" THEN RegisterWorker(w) ELSE UNCHANGED lqVars
    /\ proc' = [proc EXCEPT ![w] = NewProc("idle")]
    /\ mon' = [mon EXCEPT ![w] = "off"]
    /\ UNCHANGED <<pubVars, canon, made>>

\* An idle process may crash as well, which is but a longer time down.
Crash(w) ==
    /\ proc[w].pc \notin {"dead", "down", "idle"}
    /\ Dies(w)
    /\ mon' = [mon EXCEPT ![w] = "off"]
    /\ UNCHANGED <<ledgerVars, canon, made>>

Claim(w) ==
    /\ At(w, "idle")
    /\ \E j \in Jobs, locked \in SUBSET Jobs :
        /\ ClaimNext(w, j, locked)
        /\ proc' = [proc EXCEPT ![w] = [NewProc("claimed") EXCEPT
                        !.job = j, !.n = Len(attempts[j]) + 1]]
    /\ UNCHANGED <<pubVars, mon, canon, made>>

-----------------------------------------------------------------------------
(* DurableRuntimeWorker.run_once *)

\* The stages of _execute_claimed, which _run_monitored runs in a thread.
Executing(w) == proc[w].pc \in {"claimed", "deployed", "evidence", "invoke"}

\* The heartbeat loop of _run_monitored while _execute_claimed runs.
RuntimeHeartbeat(w) ==
    /\ Executing(w)
    /\ Heartbeat(proc[w].job, proc[w].n)
    /\ UNCHANGED <<pubVars, procVars>>

\* The heartbeat is refused: the invocation is cancelled and stops, or ends in
\* its own way, or ignores the token, which is fatal.
RuntimeLeaseLost(w) ==
    /\ Executing(w)
    /\ ~Mine(w)
    /\ Dies(w) \/ \E pc \in {"stopped", "rejected", "faulted"} : Goto(w, pc)
    /\ UNCHANGED <<ledgerVars, mon, canon, made>>

\* A stage goes on while the lease is current.  Any stage may raise, and a
\* fence does when the lease is not current.
Stage(w, from, to) ==
    /\ At(w, from)
    /\ Goto(w, "faulted") \/ (Mine(w) /\ Goto(w, to))
    /\ UNCHANGED <<ledgerVars, mon, canon, made>>

\* load_ready_deployment, and the guard's verdict on what it returns.
LoadDeployment(w) == Stage(w, "claimed", "deployed") \/ Stage(w, "claimed", "rejected")

\* load_verified_input_evidence, and the guard's verdict on the job.
LoadEvidence(w) == Stage(w, "deployed", "evidence") \/ Stage(w, "deployed", "rejected")

\* The materializer copies, hashes and probes every input between two
\* assertions of the lease; a bad or missing input is a fault, not a rejection.
Materialize(w) == Stage(w, "evidence", "invoke")

\* _cleanup of the materializer raises.
RemovalFails(w) == Goto(w, "faulted")

\* load, build and invoke end: with a result, which is lost when the workspace
\* cannot be removed, with a rejection of the input, with
\* a fault of the adapter, or with a load failure or
\* a monitor connection error, which are fatal.
Invoke(w) ==
    /\ At(w, "invoke")
    /\ \/ /\ \E d \in Results[proc[w].n] : made' = [made EXCEPT ![Lease(w)] = d]
          /\ Goto(w, "produced") \/ RemovalFails(w)
       \/ /\ Dies(w) \/ Goto(w, "rejected") \/ Goto(w, "faulted")
          /\ UNCHANGED made
    /\ UNCHANGED <<ledgerVars, mon, canon>>

Produced(w) ==
    /\ At(w, "produced")
    /\ Goto(w, IF Mine(w) THEN "start" ELSE "faulted")
    /\ UNCHANGED <<ledgerVars, mon, canon, made>>

\* What run_once does with its lease after an exception.
Rejected(w) ==
    /\ At(w, "rejected")
    /\ IF MineUnexpired(w)
       THEN Goto(w, IF CancelSeen(w) THEN "cancel" ELSE "fail_terminal") /\ UNCHANGED mon
       ELSE Exit(w)
    /\ UNCHANGED <<ledgerVars, canon, made>>

Stopped(w) ==
    /\ At(w, "stopped")
    /\ IF CancelSeen(w) THEN Goto(w, "cancel") /\ UNCHANGED mon ELSE Exit(w)
    /\ UNCHANGED <<ledgerVars, canon, made>>

\* A session that cannot be unloaded is fatal.
Faulted(w) ==
    /\ At(w, "faulted")
    /\ Goto(w, "fail_retryable") \/ Dies(w)
    /\ UNCHANGED <<ledgerVars, mon, canon, made>>

\* The transaction that ends the lease, after which the exception is raised on.
\* _lock_current skips locked rows and takes them for a lost lease.
EndLease(w) ==
    LET j == proc[w].job
        n == proc[w].n
    IN  /\ proc[w].pc \in Ending
        /\ \/ /\ \/ At(w, "cancel") /\ CancelCurrent(j, n)
                 \/ At(w, "fail_terminal") /\ FailRetryable(j, n, 1)
                 \/ At(w, "fail_retryable") /\ FailRetryable(j, n, MaxAttempts)
              /\ Exit(w)
           \/ Leaves(w, MineUnexpired(w)) /\ UNCHANGED lqVars
        /\ UNCHANGED <<pubVars, canon, made>>

-----------------------------------------------------------------------------
(* The publication monitor *)

StartMonitor(w) ==
    /\ At(w, "start")
    /\ \/ Goto(w, "plan") /\ mon' = [mon EXCEPT ![w] = "starting"]
       \/ Goto(w, "fail_retryable") /\ UNCHANGED mon
    /\ UNCHANGED <<ledgerVars, canon, made>>

MonitorLives(w) == mon[w] \in {"starting", "on"}

MonitorHeartbeat(w) ==
    /\ MonitorLives(w)
    /\ Heartbeat(proc[w].job, proc[w].n)
    /\ mon' = [mon EXCEPT ![w] = "on"]
    /\ UNCHANGED <<pubVars, proc, canon, made>>

\* The monitor stops: it saw the cancellation, or its heartbeat was refused for
\* any other reason, or its connection failed.
MonitorStops(w) ==
    /\ MonitorLives(w)
    /\ \/ CancelSeen(w) /\ mon' = [mon EXCEPT ![w] = "cancel"]
       \/ ~MineUnexpired(w) /\ mon' = [mon EXCEPT ![w] = "lost"]
       \/ mon' = [mon EXCEPT ![w] = "fatal"]
    /\ UNCHANGED <<ledgerVars, proc, canon, made>>

-----------------------------------------------------------------------------
(* Failures of a publication *)

Failing(w, final) ==
    proc' = [proc EXCEPT ![w].pc = "failing", ![w].check = "assert", ![w].final = final]

\* A storage or connection error that changes nothing.
IOError(w) == Failing(w, FALSE) /\ UNCHANGED <<ledgerVars, mon>>

\* A ledger transaction commits; its answer may be lost.
Committed(w, pc, v) ==
    /\ \/ proc' = [proc EXCEPT ![w].pc = pc, ![w].check = "assert", ![w].v = v]
       \/ Failing(w, FALSE)
    /\ UNCHANGED mon

\* Mutant: a failed monitor is treated like a lost lease.
GiveUpOnFatal(w) ==
    mon[w] \in {"lost", "fatal"} \/ (mon[w] # "cancel" /\ ~MineUnexpired(w))
GiveUp(w) == mon[w] = "lost" \/ (mon[w] # "cancel" /\ ~MineUnexpired(w))

\* _finish_failure once the monitor is stopped: a lease known to be lost is
\* left alone, a cancellation is carried out, anything else fails the attempt.
FinishFailure(w) ==
    /\ At(w, "failing")
    /\ IF GiveUp(w)
       THEN Exit(w)
       ELSE /\ Goto(w, IF mon[w] = "cancel" \/ CancelSeen(w) THEN "cancel"
                       ELSE IF proc[w].final THEN "fail_terminal"
                       ELSE "fail_retryable")
            /\ mon' = [mon EXCEPT ![w] = "off"]
    /\ UNCHANGED <<ledgerVars, canon, made>>

\* The repository raises StateTransitionError: the delivery is over, and the
\* attempt belongs to whoever took it.
Fenced(w) == ~Mine(w) /\ Exit(w) /\ UNCHANGED ledgerVars

\* The publication is rejected, and the failure is raised on.
RejectAndFail(w, final) ==
    \/ Reject(Pub(w), proc[w].v) /\ Failing(w, final) /\ UNCHANGED mon
    \/ Fenced(w)

\* What is streamed is too large, or is not what was declared or validated.
Drifts(w) == RejectAndFail(w, TRUE)

-----------------------------------------------------------------------------
(* ArtifactPublicationService.publish *)

\* The publisher waits for the monitor's first heartbeat, or times out.
Plan(w) ==
    /\ At(w, "plan")
    /\ \/ mon[w] = "starting" /\ mon' = [mon EXCEPT ![w] = "fatal"] /\ UNCHANGED proc
       \/ mon[w] = "on" /\ (Goto(w, "reserve") \/ Failing(w, TRUE)) /\ UNCHANGED mon
       \/ ~MonitorLives(w) /\ Failing(w, FALSE) /\ UNCHANGED mon
    /\ UNCHANGED <<ledgerVars, canon, made>>

ReserveOutput(w) ==
    /\ At(w, "reserve")
    /\ \/ Reserve(Pub(w)) /\ Committed(w, "write", 0)
       \/ Fenced(w) \/ IOError(w)
    /\ UNCHANGED <<canon, made>>

\* _checkpoint: the lease is asserted first, then the monitor's outcome.
Checkpoint(w) ==
    /\ proc[w].pc \in Streaming
    /\ \/ /\ proc[w].check = "assert"
          /\ IF Mine(w)
             THEN proc' = [proc EXCEPT ![w].check = "hook"] /\ UNCHANGED mon
             ELSE Exit(w)
       \/ /\ proc[w].check = "hook"
          /\ IF MonitorLives(w)
             THEN proc' = [proc EXCEPT ![w].check = "act"] ELSE Failing(w, FALSE)
          /\ UNCHANGED mon
    /\ UNCHANGED <<ledgerVars, canon, made>>

Acting(w, stage) == At(w, stage) /\ proc[w].check = "act"

\* A step of publish that neither fails nor touches the ledger.
Pass(w, pc) == Goto(w, pc) /\ UNCHANGED <<ledgerVars, mon>>

\* put_stream of the attempt object: too large or not what was promised is a
\* rejection.
WriteObject(w) ==
    /\ Acting(w, "write")
    /\ Pass(w, "record") \/ Drifts(w) \/ IOError(w)
    /\ UNCHANGED <<canon, made>>

RecordOutput(w) ==
    /\ At(w, "record")
    /\ \/ /\ RecordObject(Pub(w), proc[w].v, made[Lease(w)])
          /\ Committed(w, "validate", proc[w].v + 1)
       \/ Fenced(w) \/ IOError(w)
    /\ UNCHANGED <<canon, made>>

\* The object is valid, is missing (a retry may cure that), or is not valid.
ValidateObject(w) ==
    /\ Acting(w, "validate")
    /\ \/ Pass(w, "promote")
       \/ RejectAndFail(w, FALSE) \/ RejectAndFail(w, TRUE) \/ IOError(w)
    /\ UNCHANGED <<canon, made>>

Promotion(w) == canon \cup {made[Lease(w)]}

\* The bytes are copied into the canonical store before the ledger knows.
PromoteObject(w) ==
    /\ Acting(w, "promote")
    /\ \/ Pass(w, "record_validated") /\ canon' = Promotion(w)
       \/ (Drifts(w) \/ IOError(w)) /\ UNCHANGED canon
    /\ UNCHANGED made

RecordCanonical(w) ==
    /\ At(w, "record_validated")
    /\ \/ /\ RecordValidated(Pub(w), proc[w].v, made[Lease(w)])
          /\ Committed(w, "verify", proc[w].v + 1)
       \/ Fenced(w) \/ IOError(w)
    /\ UNCHANGED <<canon, made>>

CanonicalHolds(w) == pubs[Pub(w)].digest \in canon
VerifyCanonical(w) ==
    /\ Acting(w, "verify")
    /\ \/ CanonicalHolds(w) /\ Pass(w, "finalize")
       \/ IOError(w)
    /\ UNCHANGED <<canon, made>>

FinalizeOutput(w) ==
    /\ Acting(w, "finalize")
    /\ \/ /\ Finalize(proc[w].job, proc[w].n, [k \in {Output} |-> proc[w].v])
          /\ Committed(w, "cleanup", proc[w].v + 1)
       \/ Fenced(w) \/ IOError(w)
    /\ UNCHANGED <<canon, made>>

\* _cleanup_best_effort, and run_once returns.
Cleanup(w) ==
    /\ At(w, "cleanup")
    /\ \/ RecordCleanup(Pub(w), pubs[Pub(w)].version)
       \/ UNCHANGED ledgerVars
    /\ Goto(w, "idle")
    /\ mon' = [mon EXCEPT ![w] = "off"]
    /\ UNCHANGED <<canon, made>>

-----------------------------------------------------------------------------
(* The specification *)

WorkInit ==
    /\ LedgerInit
    /\ proc = [w \in Workers |-> NewProc("down")]
    /\ mon = [w \in Workers |-> "off"]
    /\ canon = {}
    /\ made = [l \in Jobs \X (1..MaxAttempts) |-> NoDigest]

\* A step of the thread that runs deliveries; heartbeats are not progress.
ThreadStep(w) ==
    \/ Restart(w) \/ Claim(w)
    \/ RuntimeLeaseLost(w) \/ LoadDeployment(w) \/ LoadEvidence(w)
    \/ Materialize(w) \/ Invoke(w) \/ Produced(w)
    \/ Rejected(w) \/ Stopped(w) \/ Faulted(w) \/ EndLease(w)
    \/ StartMonitor(w) \/ Plan(w) \/ FinishFailure(w)
    \/ ReserveOutput(w) \/ Checkpoint(w) \/ WriteObject(w) \/ RecordOutput(w)
    \/ ValidateObject(w) \/ PromoteObject(w) \/ RecordCanonical(w)
    \/ VerifyCanonical(w) \/ FinalizeOutput(w) \/ Cleanup(w)

Client ==
    \E j \in Jobs : CreateJob(j) \/ RequestCancel(j) \/ ApiRequestCancel(j)
Reaper == \E batch \in SUBSET Jobs : ReapExpired(batch)
WorkNext ==
    \/ \E w \in Workers :
        \/ ThreadStep(w) \/ Crash(w)
        \/ RuntimeHeartbeat(w) \/ MonitorHeartbeat(w) \/ MonitorStops(w)
    \/ (Client \/ Reaper \/ Tick) /\ UNCHANGED <<pubVars, procVars>>

WorkSpec == WorkInit /\ [][WorkNext]_workVars

\* The clock runs, a process runs or is restarted, an invocation and a transfer
\* end, and the reaper that every loop calls runs.  No heartbeat is assumed.
WorkFairness ==
    /\ \A w \in Workers : WF_workVars(ThreadStep(w))
    /\ WF_workVars(Tick /\ UNCHANGED <<pubVars, procVars>>)
    /\ WF_workVars(Reaper /\ UNCHANGED <<pubVars, procVars>>)

WorkFairSpec == WorkSpec /\ WorkFairness

-----------------------------------------------------------------------------
(* Correctness *)

\* What a client is shown is what the runtime of the winning attempt produced,
\* and its bytes are in the canonical store, whatever other attempts of the job
\* wrote, promoted or lost on the way.
WinnerIsOwnOutput ==
    \A a \in artifacts :
        /\ a.blob = made[<<a.job, a.attempt>>]
        /\ a.blob \in canon

\* A delivery that ends by itself, in success or by an exception, does not
\* leave a lease behind that is still current: nobody would renew or end it
\* before it expires.  The one way to do so is SKIP LOCKED in _lock_current,
\* which takes a row another transaction holds for a lost lease.
ReleasedOnExit ==
    \A w \in Workers :
        proc[w].pc \in {"down", "idle"} /\ proc[w].n # NoAttempt /\ ~proc[w].skipped =>
            ~Mine(w)

\* Every submitted job ends, although processes crash, leases are lost and
\* rows are skipped: retries are bounded and the reaper frees what is left.
JobEnds ==
    \A j \in Jobs : jobs[j].state = "queued" ~> jobs[j].state \in TerminalJob

-----------------------------------------------------------------------------
(* The inductive invariant behind the safety properties *)

\* Stages that publish runs, and those after the runtime has made its result.
Publishing == Streaming \cup {"plan", "reserve", "record", "record_validated", "cleanup", "failing"}
Producing == Streaming \cup {"produced", "start", "plan", "reserve", "record", "record_validated"}

\* A process that is in a delivery has a lease that was granted to it; only
\* publish has a monitor.
OwnsLease(w) ==
    /\ proc[w].pc \notin {"dead", "down", "idle"} => proc[w].n # NoAttempt
    /\ proc[w].n # NoAttempt =>
        /\ Lease(w) \in Leases
        /\ attempts[proc[w].job][proc[w].n].worker = w
    /\ mon[w] # "off" => proc[w].pc \in Publishing

\* What a process believes of the end of its lease is true, and stays it.
BelievesLeaseOver(w) ==
    /\ proc[w].n # NoAttempt
    /\ \/ mon[w] = "lost"
       \/ proc[w].pc \in {"stopped", "cleanup"}
       \/ proc[w].pc \in {"down", "idle"} /\ ~proc[w].skipped
KnowsLeaseEnd(w) == BelievesLeaseOver(w) => ~Mine(w)

\* What a process carries is the result of its own lease.
CarriesOutput(w) ==
    /\ proc[w].pc \in Producing => made[Lease(w)] \in Digests
    /\ proc[w].pc = "record_validated" => made[Lease(w)] \in canon
    /\ Executing(w) => \A k \in Kinds :
        LET row == pubs[<<proc[w].job, proc[w].n, k>>]
        IN  row.digest = NoDigest /\ row.blob = NoDigest

\* A row of the ledger names the result of its own lease, whose bytes are in the
\* canonical store once it is validated.  No sweeper condemns it here.
RowIsOwnOutput ==
    \A p \in PubId :
        /\ pubs[p].digest # NoDigest =>
            Granted(p[1], p[2]) /\ pubs[p].digest = made[<<p[1], p[2]>>]
        /\ pubs[p].blob # NoDigest =>
            /\ Granted(p[1], p[2]) /\ pubs[p].blob = made[<<p[1], p[2]>>]
            /\ pubs[p].blob \in canon
        /\ pubs[p].stale = NotStale

WorkInv ==
    /\ WorkerTypeOK
    /\ LedgerInv
    /\ RowIsOwnOutput
    /\ \A w \in Workers : OwnsLease(w) /\ KnowsLeaseEnd(w) /\ CarriesOutput(w)

=============================================================================
