--------------------------- MODULE EmbeddedRuntime ---------------------------
(***************************************************************************)
(* The runtime that a host process embeds.                                 *)
(*                                                                         *)
(* Threads of the host call ControlFoleyEmbeddedNode.generate, configure   *)
(* an EmbeddedRuntimeOwner and tear it down.  An owner lazily loads one    *)
(* ModelSession through Runtime.load, leases it to invocations and unloads *)
(* it once they have left; the session admits one invocation at a time;    *)
(* the invocation runs one child process (UpstreamParityRunner), which it  *)
(* terminates or kills when its token is cancelled.  A thread that polls   *)
(* the host for cancellation belongs to every call and may itself fail.    *)
(*                                                                         *)
(* Threads that sleep in a condition variable wake only when notified.     *)
(***************************************************************************)
EXTENDS Naturals, FiniteSets

CONSTANTS
    Threads,        \* threads of the host
    OwnerBound,     \* bound on the owners that are ever configured
    CallBound,      \* bound on the calls of generate and teardown
    FaultBound,     \* bound on failures of monitors, loads, unloads and models
    StuckBound      \* bound on children that outlive their KILL

ASSUME EmbeddedAssumption ==
    /\ IsFiniteSet(Threads)
    /\ OwnerBound \in Nat \ {0} /\ CallBound \in Nat
    /\ FaultBound \in Nat /\ StuckBound \in Nat

VARIABLES
    slot,       \* _configured_runtime_owner
    made,       \* owners configured so far
    own,        \* own[o]: EmbeddedRuntimeOwner with its runtime and session
    call,       \* call[t]: what a thread executes
    child,      \* child[t]: the child process of its invocation
    calls, faults, stuck

embeddedVars == <<slot, made, own, call, child, calls, faults, stuck>>

None == 0
Owners == 1..OwnerBound
SessionState == {"unloaded", "loading", "ready", "running", "failed", "unloading"}
NewOwner == [loaded |-> FALSE, session |-> "unloaded", lock |-> FALSE, active |-> 0,
             closing |-> FALSE, closed |-> FALSE, unsafe |-> FALSE]

\* "asleep": in Condition.wait; "failed": how the invocation ends; "monitor": the
\* polling thread works; "teardown": the call is teardown_embedded_runtime.
NoCall == [pc |-> "idle", owner |-> None, token |-> FALSE, monitor |-> TRUE,
           asleep |-> FALSE, failed |-> FALSE, teardown |-> FALSE]

\* The places of a call, in three groups: within the lease, within the session's
\* execution lock, and within close.
Closing == {"drain", "unload", "unloading", "closed"}
Holding == {"adapter", "child", "terminate", "kill", "finish"}
Leased == {"acquire", "release"} \cup Holding
Alive == {"running", "terminated", "killed"}

EmbeddedInit ==
    /\ slot = None /\ made = 0
    /\ own = [o \in Owners |-> NewOwner]
    /\ call = [t \in Threads |-> NoCall]
    /\ child = [t \in Threads |-> "none"]
    /\ calls = 0 /\ faults = 0 /\ stuck = 0

At(t, pc) == call[t].pc = pc /\ ~call[t].asleep
Owner(t) == own[call[t].owner]
Goto(t, pc) == call' = [call EXCEPT ![t].pc = pc]

\* notify_all wakes who waits for the owner of t's call.
NotifyAll(t, pc) ==
    call' = [u \in Threads |->
        [call[u] EXCEPT !.pc = IF u = t THEN pc ELSE @,
                        !.asleep = IF call[u].owner = call[t].owner THEN FALSE ELSE @]]
SetOwner(t, record) == own' = [own EXCEPT ![call[t].owner] = record]

\* One more failure, within the bound.
Fault == faults < FaultBound /\ faults' = faults + 1

\* _transition, for the session of an owner record.
Transition(record, state) == [record EXCEPT !.session = state]

-----------------------------------------------------------------------------
(* Configuration *)

\* configure_embedded_runtime, and _configured_owner where nothing is configured.
Configure ==
    /\ slot = None /\ made < OwnerBound
    /\ made' = made + 1 /\ slot' = made + 1
    /\ UNCHANGED <<own, call, child, calls, faults, stuck>>

\* _acquire_cancellation_source: the factory fails, blocks or returns something
\* else, and the invocation is not started.
SourceFails == Fault

\* generate of a node that was given owner o, up to its first poll of the host.
Generate(t, o) ==
    /\ At(t, "idle") /\ calls < CallBound /\ o <= made
    /\ calls' = calls + 1
    /\ \/ /\ call' = [call EXCEPT ![t] = [NoCall EXCEPT !.pc = "lease", !.owner = o]]
          /\ UNCHANGED faults
       \/ SourceFails /\ UNCHANGED call
    /\ UNCHANGED <<slot, made, own, child, stuck>>

Teardown(t) ==
    /\ At(t, "idle") /\ calls < CallBound /\ slot # None
    /\ calls' = calls + 1
    /\ call' = [call EXCEPT ![t] = [NoCall EXCEPT !.pc = "close", !.owner = slot,
                                                  !.teardown = TRUE]]
    /\ UNCHANGED <<slot, made, own, child, faults, stuck>>

-----------------------------------------------------------------------------
(* The cancellation monitor, while the call has not stopped it *)

Watched(t) == call[t].pc \in Leased \cup {"lease", "stop"} /\ call[t].monitor

\* The host interrupts the call.
HostCancels(t) ==
    /\ Watched(t) /\ ~call[t].token
    /\ call' = [call EXCEPT ![t].token = TRUE]
    /\ UNCHANGED <<slot, made, own, child, calls, faults, stuck>>

\* The poll raises, which cancels the token, or blocks for good.
MonitorFails(t) ==
    /\ Watched(t) /\ ~call[t].token /\ Fault
    /\ \E cancels \in BOOLEAN :
        call' = [call EXCEPT ![t].monitor = FALSE, ![t].token = @ \/ cancels]
    /\ UNCHANGED <<slot, made, own, child, calls, stuck>>

-----------------------------------------------------------------------------
(* The lease *)

Refuses(o) == o.closed \/ o.closing \/ o.unsafe

\* Runtime.load by the factory of the first lease.
Loaded(o) == IF o.loaded THEN o ELSE [Transition(o, "ready") EXCEPT !.loaded = TRUE]

\* The factory, LocalControlFoleyRuntime, finds modules of another origin loaded
\* or cannot load the deployment.
FactoryFails(t) == ~Owner(t).loaded /\ Fault

\* The last check of the token, after which the monitor is left alone when it
\* raises, and _lease with the factory under the same lock: what that raises
\* leaves the owner without a runtime.
Lease(t) ==
    /\ At(t, "lease")
    /\ \/ call[t].token /\ Goto(t, "done") /\ UNCHANGED <<own, faults>>
       \/ /\ ~call[t].token /\ Refuses(Owner(t))
          /\ Goto(t, "stop")
          /\ UNCHANGED <<own, faults>>
       \/ /\ ~call[t].token /\ ~Refuses(Owner(t))
          /\ SetOwner(t, [Loaded(Owner(t)) EXCEPT !.active = @ + 1])
          /\ Goto(t, "acquire")
          /\ UNCHANGED faults
       \/ /\ ~call[t].token /\ ~Refuses(Owner(t)) /\ FactoryFails(t)
          /\ Goto(t, "stop")
          /\ UNCHANGED own
    /\ UNCHANGED <<slot, made, child, calls, stuck>>

\* The finally clause of _lease.
Release(t) ==
    /\ At(t, "release")
    /\ SetOwner(t, [Owner(t) EXCEPT !.active = @ - 1])
    /\ NotifyAll(t, "stop")
    /\ UNCHANGED <<slot, made, child, calls, faults, stuck>>

-----------------------------------------------------------------------------
(* Runtime.invoke and the session *)

\* _acquire_invocation: a cancelled caller leaves, one that finds the session not
\* READY gives the lock back.
Acquire(t) ==
    /\ At(t, "acquire")
    /\ \/ call[t].token /\ Goto(t, "release") /\ UNCHANGED own
       \/ /\ ~call[t].token /\ ~Owner(t).lock
          /\ IF Owner(t).session = "ready"
             THEN /\ SetOwner(t, [Transition(Owner(t), "running") EXCEPT !.lock = TRUE])
                  /\ Goto(t, "adapter")
             ELSE Goto(t, "release") /\ UNCHANGED own
    /\ UNCHANGED <<slot, made, child, calls, faults, stuck>>

Finishes(t, failed) ==
    call' = [call EXCEPT ![t].pc = "finish", ![t].failed = failed]

\* UpstreamParityRunner.validate refuses source or weights that have changed.
InvocationRejected(t) == Finishes(t, FALSE)

\* ControlFoleyAdapter.invoke up to the child: validation may refuse the inputs,
\* the start itself may fail.
StartChild(t) ==
    /\ At(t, "adapter")
    /\ \/ InvocationRejected(t) /\ UNCHANGED <<child, faults>>
       \/ Fault /\ Finishes(t, TRUE) /\ UNCHANGED child
       \/ /\ ~call[t].token
          /\ Goto(t, "child")
          /\ child' = [child EXCEPT ![t] = "running"]
          /\ UNCHANGED faults
    /\ UNCHANGED <<slot, made, own, calls, stuck>>

\* The poll loop: the child has exited (whatever its output is worth) or the
\* token is cancelled; an interruption of the loop kills the child.
PollChild(t) ==
    /\ At(t, "child")
    /\ \/ /\ child[t] = "none"
          /\ \/ Finishes(t, FALSE) /\ UNCHANGED faults
             \/ Fault /\ Finishes(t, TRUE)
          /\ UNCHANGED child
       \/ /\ child[t] # "none" /\ call[t].token
          /\ child' = [child EXCEPT ![t] = "terminated"]
          /\ Goto(t, "terminate")
          /\ UNCHANGED faults
       \/ /\ child[t] # "none" /\ Fault
          /\ child' = [child EXCEPT ![t] = "killed"]
          /\ call' = [call EXCEPT ![t].pc = "kill", ![t].failed = TRUE]
    /\ UNCHANGED <<slot, made, own, calls, stuck>>

\* _cancel_process: a child that ignores TERM for too long is killed.
CancelProcess(t) ==
    /\ At(t, "terminate")
    /\ \/ child[t] = "none" /\ Goto(t, "finish") /\ UNCHANGED child
       \/ /\ child[t] # "none"
          /\ child' = [child EXCEPT ![t] = "killed"]
          /\ Goto(t, "kill")
    /\ UNCHANGED <<slot, made, own, calls, faults, stuck>>

\* mutant: the KILL is sent and not waited for
KillNoWait(t) ==
    /\ At(t, "kill") /\ Goto(t, "finish")
    /\ UNCHANGED <<slot, made, own, child, calls, faults, stuck>>

\* _kill_process waits for the child; one that outlives the wait is given up, and
\* the InvocationRejectedError this raises takes the place of an interruption.
KillProcess(t) ==
    /\ At(t, "kill")
    /\ \/ /\ child[t] = "none"
          /\ Goto(t, "finish") /\ UNCHANGED <<child, stuck>>
       \/ /\ child[t] # "none" /\ stuck < StuckBound
          /\ Finishes(t, FALSE)
          /\ child' = [child EXCEPT ![t] = "none"] /\ stuck' = stuck + 1
    /\ UNCHANGED <<slot, made, own, calls, faults>>

ChildExits(t) ==
    /\ child[t] \in Alive
    /\ child' = [child EXCEPT ![t] = "none"]
    /\ UNCHANGED <<slot, made, own, call, calls, faults, stuck>>

\* _finish_invocation.
FinishInvocation(t) ==
    /\ At(t, "finish")
    /\ SetOwner(t, [Transition(Owner(t), IF call[t].failed THEN "failed" ELSE "ready")
                        EXCEPT !.lock = FALSE])
    /\ Goto(t, "release")
    /\ UNCHANGED <<slot, made, child, calls, faults, stuck>>

-----------------------------------------------------------------------------
(* The end of a call, and teardown *)

\* stop_and_validate: when the monitor failed the owner is unsafe and closed.
Stop(t) ==
    /\ At(t, "stop")
    /\ IF call[t].monitor
       THEN call' = [call EXCEPT ![t] = NoCall] /\ UNCHANGED own
       ELSE /\ SetOwner(t, [Owner(t) EXCEPT !.unsafe = @ \/ ~Owner(t).closed])
            /\ Goto(t, "close")
    /\ UNCHANGED <<slot, made, child, calls, faults, stuck>>

\* What follows close: a teardown forgets the owner, unless close raised.
Returns(t, raised) ==
    IF call[t].teardown /\ ~raised THEN "reset" ELSE "done"

\* close: one closer at a time, the others sleep.
Close(t) ==
    /\ At(t, "close")
    /\ \/ Owner(t).closed /\ Goto(t, Returns(t, FALSE)) /\ UNCHANGED own
       \/ /\ ~Owner(t).closed /\ Owner(t).closing
          /\ call' = [call EXCEPT ![t].asleep = TRUE] /\ UNCHANGED own
       \/ /\ ~Owner(t).closed /\ ~Owner(t).closing
          /\ SetOwner(t, [Owner(t) EXCEPT !.closing = TRUE])
          /\ Goto(t, "drain")
    /\ UNCHANGED <<slot, made, child, calls, faults, stuck>>

\* mutant: the closer does not wait for the leases
DrainNot(t) ==
    /\ At(t, "drain") /\ Goto(t, "unload")
    /\ UNCHANGED <<slot, made, own, child, calls, faults, stuck>>

\* The closer sleeps until the last lease is given back.
Drain(t) ==
    /\ At(t, "drain")
    /\ IF Owner(t).active > 0 THEN call' = [call EXCEPT ![t].asleep = TRUE]
       ELSE Goto(t, "unload")
    /\ UNCHANGED <<slot, made, own, child, calls, faults, stuck>>

\* mutant: the other closers are not woken
CloseFailedQuietly(t, state) ==
    /\ SetOwner(t, [Transition(Owner(t), state) EXCEPT !.unsafe = TRUE, !.closing = FALSE])
    /\ Goto(t, Returns(t, TRUE))

\* The except clause of close keeps the runtime for another attempt.
CloseFailed(t, state) ==
    /\ SetOwner(t, [Transition(Owner(t), state) EXCEPT !.unsafe = TRUE, !.closing = FALSE])
    /\ NotifyAll(t, Returns(t, TRUE))

\* Runtime.unload: _begin_unloading ...
BeginUnloading(t) ==
    /\ At(t, "unload")
    /\ CASE ~Owner(t).loaded -> Goto(t, "closed") /\ UNCHANGED own
         [] Owner(t).loaded /\ Owner(t).session \in {"ready", "failed"} ->
                SetOwner(t, Transition(Owner(t), "unloading")) /\ Goto(t, "unloading")
         [] OTHER -> CloseFailed(t, Owner(t).session)
    /\ UNCHANGED <<slot, made, child, calls, faults, stuck>>

\* ... and adapter.unload, which may fail.
Unload(t) ==
    /\ At(t, "unloading")
    /\ \/ /\ SetOwner(t, Transition(Owner(t), "unloaded")) /\ Goto(t, "closed")
          /\ UNCHANGED faults
       \/ Fault /\ CloseFailed(t, "failed")
    /\ UNCHANGED <<slot, made, child, calls, stuck>>

Closed(t) ==
    /\ At(t, "closed")
    /\ SetOwner(t, [Owner(t) EXCEPT !.loaded = FALSE, !.closed = TRUE, !.closing = FALSE])
    /\ NotifyAll(t, Returns(t, FALSE))
    /\ UNCHANGED <<slot, made, child, calls, faults, stuck>>

\* mutant: whatever is configured is forgotten
ResetAny(t) ==
    /\ At(t, "reset") /\ slot' = None /\ Goto(t, "done")
    /\ UNCHANGED <<made, own, child, calls, faults, stuck>>

\* The end of teardown_embedded_runtime.
Reset(t) ==
    /\ At(t, "reset")
    /\ slot' = IF slot = call[t].owner THEN None ELSE slot
    /\ Goto(t, "done")
    /\ UNCHANGED <<made, own, child, calls, faults, stuck>>

Done(t) ==
    /\ At(t, "done")
    /\ call' = [call EXCEPT ![t] = NoCall]
    /\ UNCHANGED <<slot, made, own, child, calls, faults, stuck>>

-----------------------------------------------------------------------------
Step(t) ==
    \/ Lease(t) \/ Acquire(t) \/ StartChild(t) \/ PollChild(t) \/ CancelProcess(t)
    \/ KillProcess(t) \/ FinishInvocation(t) \/ Release(t) \/ Stop(t)
    \/ Close(t) \/ Drain(t) \/ BeginUnloading(t) \/ Unload(t) \/ Closed(t)
    \/ Reset(t) \/ Done(t)

EmbeddedNext ==
    \/ Configure
    \/ \E t \in Threads :
        \/ \E o \in Owners : Generate(t, o)
        \/ Teardown(t) \/ HostCancels(t) \/ MonitorFails(t) \/ ChildExits(t)
        \/ Step(t)

EmbeddedSpec == EmbeddedInit /\ [][EmbeddedNext]_embeddedVars

\* Threads are scheduled, and a killed child exits or is given up.  Nothing is
\* assumed of a model that runs, of the host or of a child that got a TERM.
EmbeddedFairness == \A t \in Threads :
    /\ WF_embeddedVars(Step(t))
    /\ WF_embeddedVars(child[t] = "killed" /\ ChildExits(t))
EmbeddedFairSpec == EmbeddedSpec /\ EmbeddedFairness

-----------------------------------------------------------------------------
(* Correctness *)

\* Whoever holds a lease works on a loaded session: no close, by a teardown or by
\* another call whose monitor failed, unloads it before the lease is given back
\* (EmbeddedRuntimeOwner._lease and close).
LeasedIsLoaded ==
    \A t \in Threads : call[t].pc \in Leased =>
        /\ Owner(t).loaded /\ ~Owner(t).closed
        /\ Owner(t).session \notin {"unloading", "unloaded"}

\* A child process belongs to the one invocation that runs in its session and has
\* gone when that invocation ends, cancelled or not, unless it outlived a KILL
\* (UpstreamParityRunner.invoke, _cancel_process, _kill_process).
ChildOfItsInvocation ==
    \A t \in Threads : child[t] \in Alive =>
        /\ call[t].pc \in Holding
        /\ \A u \in Threads \ {t} :
               call[u].pc \in Holding => call[u].owner # call[t].owner

\* There is never more than one owner that has or may load a model: the next one
\* is configured only when the one before is closed, however many teardowns run
\* at the same time (configure_embedded_runtime, teardown_embedded_runtime).
OneOwner ==
    \A o \in 1..made : o # slot => own[o].closed /\ ~own[o].loaded

\* Every call of generate and of teardown returns, or some model runs for ever
\* and the host never cancels it: nobody sleeps on in a condition variable, and
\* cancellation gets through.
CallsReturn ==
    \A t \in Threads :
        \/ <>[](\E u \in Threads : call[u].pc = "child" /\ ~call[u].token)
        \/ []<>(call[t].pc = "idle")

-----------------------------------------------------------------------------
(* The inductive invariant behind the safety properties *)

Place == {"idle", "lease", "stop", "close", "reset", "done"} \cup Leased \cup Closing
CallRecord == [pc: Place, owner: 0..OwnerBound, token: BOOLEAN, monitor: BOOLEAN,
               asleep: BOOLEAN, failed: BOOLEAN, teardown: BOOLEAN]
OwnerRecord == [loaded: BOOLEAN, session: SessionState, lock: BOOLEAN, active: Nat,
                closing: BOOLEAN, closed: BOOLEAN, unsafe: BOOLEAN]

EmbeddedTypeOK ==
    /\ made \in 0..OwnerBound /\ slot \in 0..made
    /\ own \in [Owners -> OwnerRecord]
    /\ call \in [Threads -> CallRecord]
    /\ child \in [Threads -> {"none"} \cup Alive]

\* The session serves invocations, or did until one failed.
Usable(record) == record.session \in {"ready", "running", "failed"}

\* What holds of an owner between two steps of its callers: without a runtime it
\* has no session, and outside of close its session is usable.
OwnerSound(record) ==
    /\ record.closed => ~record.loaded /\ ~record.closing
    /\ ~record.loaded => record.session = "unloaded"
    /\ record.loaded /\ ~record.closing => Usable(record)

\* What a caller at pc relies on.
PlaceSound(pc, record) ==
    /\ pc \in Leased => record.loaded /\ Usable(record)
    /\ pc \in Holding => record.lock
    /\ pc \in Closing => record.closing
    /\ pc \in {"drain", "unload"} /\ record.loaded => Usable(record)
    /\ pc \in {"unload", "unloading", "closed"} => record.active = 0
    /\ pc = "unloading" => record.loaded /\ record.session = "unloading"
    /\ pc = "closed" => record.session = "unloaded"
    /\ pc = "reset" => record.closed

\* One closer and one invocation at a time.
Exclude(p, q) == {p, q} \subseteq Closing \/ {p, q} \subseteq Holding

LeaseHolders(o) == {t \in Threads : call[t].pc \in Leased /\ call[t].owner = o}

EmbeddedInv ==
    /\ EmbeddedTypeOK
    /\ OneOwner
    /\ \A o \in Owners : OwnerSound(own[o]) /\ own[o].active = Cardinality(LeaseHolders(o))
    /\ \A t \in Threads :
        /\ call[t].pc # "idle" => call[t].owner \in 1..made /\ PlaceSound(call[t].pc, Owner(t))
        /\ child[t] # "none" => call[t].pc \in {"child", "terminate", "kill"}
    /\ \A t, u \in Threads :
        t # u /\ call[t].owner = call[u].owner => ~Exclude(call[t].pc, call[u].pc)

=============================================================================
