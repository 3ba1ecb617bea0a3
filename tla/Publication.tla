----------------------------- MODULE Publication -----------------------------
(***************************************************************************)
(* The artifact publication ledger of durable/publication.py               *)
(* (PostgresPublicationRepository) on top of the lease queue, with the     *)
(* guards the triggers of 0004_artifact_publications.sql add.              *)
(*                                                                         *)
(* A publication is named by <<j, n, k>>: the ledger has one row for each  *)
(* attempt and artifact kind.  Every operation is one transaction and so   *)
(* one action; the caller, any process that ever held the lease or any     *)
(* sweeper, passes the version v of the row it believes in.                *)
(***************************************************************************)
EXTENDS LeaseQueue

CONSTANTS
    Kinds,          \* ArtifactKind
    RequiredKinds,  \* jobs.required_artifact_kinds, immutable
    Digests,        \* SHA-256 identities of artifact bytes
    NoDigest,       \* NULL in the digest columns
    Grace           \* the 5 minute stale grace of abandon, in clock ticks

ASSUME KindsAssumption ==
    /\ IsFiniteSet(Kinds)
    /\ RequiredKinds \in [Jobs -> (SUBSET Kinds) \ {{}}]
ASSUME DigestAssumption == NoDigest \notin Digests
ASSUME GraceAssumption == Grace \in Nat \ {0}

VARIABLES
    pubs,       \* pubs[p]: the artifact_publications row, "none" before reserve
    blobs,      \* the digests that have a VERIFIED row in table blobs
    artifacts   \* the rows of table artifacts, all READY

pubVars == <<pubs, blobs, artifacts>>
ledgerVars == <<jobs, attempts, workers, events, pubs, blobs, artifacts>>

-----------------------------------------------------------------------------
(* Rows *)

PubId == Jobs \X (1..MaxAttempts) \X Kinds
OpenPub == {"reserved", "object_written", "validated"}
TerminalPub == {"finalized", "rejected", "abandoned"}
PubState == {"none"} \cup OpenPub \cup TerminalPub

NotStale == -1      \* stale_since IS NULL; otherwise the grace that is left

PubRow == [state: PubState, version: Nat, digest: Digests \cup {NoDigest},
           blob: Digests \cup {NoDigest}, stale: {NotStale} \cup 0..Grace, cleaned: BOOLEAN]
ArtifactRow == [job: Jobs, attempt: Nat, kind: Kinds, blob: Digests]

NoPub == [state |-> "none", version |-> 0, digest |-> NoDigest,
          blob |-> NoDigest, stale |-> NotStale, cleaned |-> FALSE]

\* The ledger's rows keep the columns and states of artifact_publications.
LedgerTypeOK ==
    /\ LQTypeOK
    /\ pubs \in [PubId -> PubRow]
    /\ blobs \subseteq Digests
    /\ artifacts \subseteq ArtifactRow

\* The lease a publication row belongs to is current, as the ledger's trigger
\* sees it.
OwnerCurrent(p) == LeaseCurrent(p[1], p[2])

\* The row is still in one of the states S at the version the caller passes.
AtVersion(p, S, v) == pubs[p].state \in S /\ pubs[p].version = v

-----------------------------------------------------------------------------
(* Operations of the lease holder *)

LockForgotten(j, n) == Granted(j, n)            \* mutant: the row is not fenced
LockLease(j, n) == LeaseCurrent(j, n)

Reserve(p) ==
    /\ LockLease(p[1], p[2])
    /\ pubs[p].state = "none"
    /\ pubs' = [pubs EXCEPT ![p].state = "reserved"]
    /\ UNCHANGED <<lqVars, blobs, artifacts>>

RecordObject(p, v, d) ==
    /\ LockLease(p[1], p[2])
    /\ AtVersion(p, {"reserved"}, v)
    /\ pubs' = [pubs EXCEPT ![p].state = "object_written",
                            ![p].version = @ + 1,
                            ![p].digest = d]
    /\ UNCHANGED <<lqVars, blobs, artifacts>>

\* Mutant: the blob row is not inserted.
RecordValidatedNoBlob(p, v, d) ==
    /\ LockLease(p[1], p[2])
    /\ AtVersion(p, {"object_written"}, v)
    /\ pubs[p].digest = d
    /\ pubs' = [pubs EXCEPT ![p].state = "validated",
                            ![p].version = @ + 1,
                            ![p].blob = d]
    /\ UNCHANGED <<lqVars, blobs, artifacts>>

\* The canonical blob row is inserted or found, and must be the object that
\* was recorded: d is the digest of the promoted canonical bytes.
RecordValidated(p, v, d) ==
    /\ LockLease(p[1], p[2])
    /\ AtVersion(p, {"object_written"}, v)
    /\ pubs[p].digest = d
    /\ blobs' = blobs \cup {d}
    /\ pubs' = [pubs EXCEPT ![p].state = "validated",
                            ![p].version = @ + 1,
                            ![p].blob = d]
    /\ UNCHANGED <<lqVars, artifacts>>

Reject(p, v) ==
    /\ LockLease(p[1], p[2])
    /\ AtVersion(p, OpenPub, v)
    /\ pubs' = [pubs EXCEPT ![p].state = "rejected", ![p].version = @ + 1]
    /\ UNCHANGED <<lqVars, blobs, artifacts>>

SomeKinds(j, S) == S \subseteq RequiredKinds[j]   \* mutant: a part is enough
AllKinds(j, S) == S = RequiredKinds[j]

\* One transaction makes the required artifacts visible and ends the lease:
\* vs[k] is the version of the publication of kind k that the caller validated.
Finalize(j, n, vs) ==
    /\ LockLease(j, n)
    /\ AllKinds(j, DOMAIN vs)
    /\ \A k \in DOMAIN vs :
        /\ AtVersion(<<j, n, k>>, {"validated"}, vs[k])
        /\ pubs[<<j, n, k>>].blob \in blobs
    /\ artifacts' = artifacts \cup
            {[job |-> j, attempt |-> n, kind |-> k,
              blob |-> pubs[<<j, n, k>>].blob] : k \in DOMAIN vs}
    /\ pubs' = [p \in PubId |->
            IF p[1] = j /\ p[2] = n /\ p[3] \in DOMAIN vs
            THEN [pubs[p] EXCEPT !.state = "finalized", !.version = @ + 1]
            ELSE pubs[p]]
    /\ attempts' = [attempts EXCEPT ![j][n].state = "succeeded",
                                    ![j][n].ttl = 0]
    /\ workers' = [workers EXCEPT ![attempts[j][n].worker] = "ready"]
    /\ events' = [events EXCEPT ![j] = Emit(j, "job_succeeded", n)]
    /\ jobs' = [jobs EXCEPT ![j].state = "succeeded",
                            ![j].current = NoAttempt,
                            ![j].winner = n]
    /\ UNCHANGED blobs

-----------------------------------------------------------------------------
(* Operations of the sweeper *)

\* Mutant: the grace starts under a live lease.
BeginGraceEager(p, v) ==
    /\ AtVersion(p, OpenPub, v)
    /\ pubs[p].stale = NotStale
    /\ pubs' = [pubs EXCEPT ![p].stale = Grace, ![p].version = @ + 1]
    /\ UNCHANGED <<lqVars, blobs, artifacts>>

\* The first abandon of a row only starts the grace period; the ledger's
\* trigger refuses it while the lease is current.
BeginGrace(p, v) ==
    /\ AtVersion(p, OpenPub, v)
    /\ pubs[p].stale = NotStale
    /\ ~OwnerCurrent(p)
    /\ pubs' = [pubs EXCEPT ![p].stale = Grace, ![p].version = @ + 1]
    /\ UNCHANGED <<lqVars, blobs, artifacts>>

Abandon(p, v) ==
    /\ AtVersion(p, OpenPub, v)
    /\ pubs[p].stale = 0
    /\ ~OwnerCurrent(p)
    /\ pubs' = [pubs EXCEPT ![p].state = "abandoned", ![p].version = @ + 1]
    /\ UNCHANGED <<lqVars, blobs, artifacts>>

\* Mutant: cleanup evidence is written again.
RecordCleanupAgain(p, v) ==
    /\ AtVersion(p, TerminalPub, v)
    /\ pubs[p].version <= 4
    /\ pubs' = [pubs EXCEPT ![p].cleaned = TRUE, ![p].version = @ + 1]
    /\ UNCHANGED <<lqVars, blobs, artifacts>>

\* The attempt object of a terminal publication was deleted.
RecordCleanup(p, v) ==
    /\ AtVersion(p, TerminalPub, v)
    /\ ~pubs[p].cleaned
    /\ pubs' = [pubs EXCEPT ![p].cleaned = TRUE, ![p].version = @ + 1]
    /\ UNCHANGED <<lqVars, blobs, artifacts>>

-----------------------------------------------------------------------------
(* The clock, and the specification for arbitrary callers *)

GraceAfter(t) == IF t > 0 THEN t - 1 ELSE t

LedgerTick ==
    /\ \/ Tick
       \/ /\ \E p \in PubId : pubs[p].stale > 0
          /\ UNCHANGED lqVars
    /\ pubs' = [p \in PubId |-> [pubs[p] EXCEPT
                    !.stale = GraceAfter(@)]]
    /\ UNCHANGED <<blobs, artifacts>>

LedgerInit ==
    /\ LQInit
    /\ pubs = [p \in PubId |-> NoPub]
    /\ blobs = {}
    /\ artifacts = {}

LedgerStep ==
    \/ \E p \in PubId :
        \/ Reserve(p)
        \/ \E d \in Digests :
            \/ RecordObject(p, pubs[p].version, d)
            \/ RecordValidated(p, pubs[p].version, d)
        \/ Reject(p, pubs[p].version)
        \/ BeginGrace(p, pubs[p].version)
        \/ Abandon(p, pubs[p].version)
        \/ RecordCleanup(p, pubs[p].version)
    \/ \E l \in Leases : \E S \in SUBSET Kinds :
        Finalize(l[1], l[2], [k \in S |-> pubs[<<l[1], l[2], k>>].version])

LedgerNext ==
    \/ QueueStep /\ UNCHANGED pubVars
    \/ LedgerStep
    \/ LedgerTick

LedgerSpec == LedgerInit /\ [][LedgerNext]_ledgerVars

-----------------------------------------------------------------------------
(* Correctness *)

\* visible_winner: what the API lists and serves for job j.
VisibleWinner(j) ==
    {a \in artifacts :
        /\ a.job = j
        /\ jobs[j].state = "succeeded"
        /\ a.attempt = jobs[j].winner
        /\ pubs[<<j, a.attempt, a.kind>>].state = "finalized"
        /\ pubs[<<j, a.attempt, a.kind>>].blob = a.blob
        /\ a.blob \in blobs}

\* A succeeded job shows exactly one verified artifact of each required kind,
\* all of its one winning attempt, and was not cancelled before it won.
WinnerComplete ==
    \A j \in Jobs : jobs[j].state = "succeeded" =>
        /\ {a.kind : a \in VisibleWinner(j)} = RequiredKinds[j]
        /\ \A a, b \in VisibleWinner(j) : a.kind = b.kind => a = b
        /\ Granted(j, jobs[j].winner)
        /\ attempts[j][jobs[j].winner].state = "succeeded"
        /\ ~jobs[j].cancel

\* Nothing of a losing attempt is ever exposed: a finalized publication and an
\* artifact row exist only for the winning attempt of a succeeded job.
OnlyWinnerExposed ==
    /\ \A p \in PubId : pubs[p].state = "finalized" =>
        jobs[p[1]].state = "succeeded" /\ jobs[p[1]].winner = p[2]
    /\ \A a \in artifacts :
        pubs[<<a.job, a.attempt, a.kind>>].state = "finalized"

\* The sweeper never condemns work in progress: a row whose grace has started
\* or that was abandoned belongs to a lease that is not current, and so (by
\* StaleStaysStale) never will be.
CondemnedIsStale ==
    \A p \in PubId :
        pubs[p].stale # NotStale \/ pubs[p].state = "abandoned" => ~OwnerCurrent(p)

\* Every publication of an attempt that is still running can still be
\* finalized or rejected by its owner: an open row of the current lease has
\* kept the evidence of the state it is in.
OpenRowHasEvidence ==
    \A p \in PubId :
        /\ pubs[p].state \in {"object_written", "validated", "finalized"} =>
            pubs[p].digest \in Digests
        /\ pubs[p].state \in {"validated", "finalized"} =>
            pubs[p].blob = pubs[p].digest /\ pubs[p].blob \in blobs

\* Terminal rows are immutable but for the one-time cleanup evidence, and a
\* visible winner never changes: what a client was shown it is shown for ever.
VisibleForEver ==
    [][/\ \A j \in Jobs : VisibleWinner(j) # {} => VisibleWinner(j)' = VisibleWinner(j)
       /\ \A p \in PubId : pubs[p].state \in TerminalPub =>
            /\ pubs'[p].state = pubs[p].state
            /\ pubs[p].cleaned => pubs'[p] = pubs[p]]_ledgerVars

-----------------------------------------------------------------------------
(* The inductive invariant behind the safety properties *)

\* A row exists only for an attempt that was granted, and only a row that
\* exists is condemned.
RowHasLease ==
    \A p \in PubId :
        /\ pubs[p].state # "none" => Granted(p[1], p[2])
        /\ pubs[p].stale # NotStale => pubs[p].state # "none"

\* The clock does not run for a terminal row.
TerminalAtRest ==
    \A p \in PubId : pubs[p].state \in TerminalPub => pubs[p].stale \in {NotStale, 0}

\* An artifact row is of a required kind and names the blob of its publication.
ArtifactOfRow ==
    \A a \in artifacts :
        /\ a.attempt \in 1..MaxAttempts
        /\ a.kind \in RequiredKinds[a.job]
        /\ pubs[<<a.job, a.attempt, a.kind>>].blob = a.blob

\* The winner of a succeeded job has a finalized row and an artifact of every
\* required kind.
WinnerRows ==
    \A j \in Jobs : jobs[j].state = "succeeded" =>
        /\ Granted(j, jobs[j].winner)
        /\ attempts[j][jobs[j].winner].state = "succeeded"
        /\ \A k \in RequiredKinds[j] :
            /\ pubs[<<j, jobs[j].winner, k>>].state = "finalized"
            /\ [job |-> j, attempt |-> jobs[j].winner, kind |-> k,
                blob |-> pubs[<<j, jobs[j].winner, k>>].blob] \in artifacts

LedgerInv ==
    /\ LedgerTypeOK
    /\ LQInv
    /\ RowHasLease
    /\ TerminalAtRest
    /\ ArtifactOfRow
    /\ WinnerRows
    /\ OnlyWinnerExposed
    /\ OpenRowHasEvidence
    /\ CondemnedIsStale

=============================================================================
