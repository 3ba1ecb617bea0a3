---------------------------- MODULE JobLifecycle ----------------------------
(***************************************************************************)
(* What the durable queue promises to a client of the API, without leases, *)
(* clocks or tables: a job is executed by at most one worker at a time, a  *)
(* worker executes at most one job, a job is started at most MaxAttempts   *)
(* times, a terminal job never changes, and a job whose cancellation was   *)
(* requested in time ends cancelled and never as success or failure.       *)
(***************************************************************************)
EXTENDS Integers, FiniteSets

CONSTANTS Jobs, Workers, MaxAttempts

VARIABLES
    status,     \* status[j]: what the API reports
    tries,      \* tries[j]: how often j was started
    holder,     \* holder[j]: the worker that executes j, as a set of at most one
    cancelling  \* cancelling[j]: a cancellation was requested

lifecycleVars == <<status, tries, holder, cancelling>>

LifecycleInit ==
    /\ status = [j \in Jobs |-> "absent"]
    /\ tries = [j \in Jobs |-> 0]
    /\ holder = [j \in Jobs |-> {}]
    /\ cancelling = [j \in Jobs |-> FALSE]

Submit(j) ==
    /\ status[j] = "absent"
    /\ status' = [status EXCEPT ![j] = "queued"]
    /\ UNCHANGED <<tries, holder, cancelling>>

Start(j, w) ==
    /\ status[j] = "queued"
    /\ ~cancelling[j]
    /\ tries[j] < MaxAttempts
    /\ \A k \in Jobs : w \notin holder[k]
    /\ status' = [status EXCEPT ![j] = "running"]
    /\ tries' = [tries EXCEPT ![j] = @ + 1]
    /\ holder' = [holder EXCEPT ![j] = {w}]
    /\ UNCHANGED cancelling

AskCancel(j) ==
    /\ \/ status[j] = "queued" /\ status' = [status EXCEPT ![j] = "cancelled"]
       \/ status[j] = "running" /\ UNCHANGED status
    /\ cancelling' = [cancelling EXCEPT ![j] = TRUE]
    /\ UNCHANGED <<tries, holder>>

\* Where the execution of j may lead.
After(j) ==
    IF cancelling[j] THEN {"cancelled"}
    ELSE {"failed", "succeeded"} \cup
         {s \in {"queued"} : tries[j] < MaxAttempts}

\* The executions of the jobs S end together.
Finish(S) ==
    /\ S # {}
    /\ \A j \in S : status[j] = "running"
    /\ status' \in [Jobs -> {"absent", "queued", "running", "succeeded",
                             "failed", "cancelled"}]
    /\ \A j \in Jobs :
        IF j \in S THEN status'[j] \in After(j) ELSE status'[j] = status[j]
    /\ holder' = [j \in Jobs |-> IF j \in S THEN {} ELSE holder[j]]
    /\ UNCHANGED <<tries, cancelling>>

LifecycleNext ==
    \/ \E j \in Jobs : Submit(j) \/ AskCancel(j)
    \/ \E j \in Jobs, w \in Workers : Start(j, w)
    \/ \E S \in SUBSET Jobs : Finish(S)

LifecycleSpec == LifecycleInit /\ [][LifecycleNext]_lifecycleVars

=============================================================================
