----------------------------- MODULE OrphanSweep -----------------------------
(***************************************************************************)
(* The attempt object store (LocalAttemptArtifactStore) and the sweeper    *)
(* that deletes what dead attempts left in it (ArtifactOrphanSweeper),     *)
(* next to publishers that follow ArtifactPublicationService.              *)
(*                                                                         *)
(* The store and the ledger share no transaction.  A sweep is a process:   *)
(* every ledger read, every ledger CAS and every object deletion of it is  *)
(* a step, and publishers, other sweepers and crashes come in between.     *)
(*                                                                         *)
(* The age cutoffs of a sweep only delay what it does, and every row and   *)
(* object is taken to be old enough: the harsher case for live publishers. *)
(***************************************************************************)
EXTENDS Publication, SequenceFilter, SequencesExt

CONSTANTS
    Sweepers,       \* concurrent runs of the sweep command
    SweepLimit,     \* limit of sweep
    CrashBound      \* bound on the sweeps that die half way

ASSUME SweepAssumption ==
    /\ SweepLimit \in Nat \ {0}
    /\ CrashBound \in Nat

VARIABLES
    objects,    \* the publications whose attempt object exists
    writes,     \* writes[p]: how far the one put_stream for p has come
    journal,    \* the inventory journal, in append order
    cursor,     \* the persistent cursor of scan "orphan_sweep"
    updated,    \* the ledger's rows in the order of their updated_at
    sw,         \* sw[s]: the local state of a sweep
    crashes     \* number of sweeps that died

storeVars == <<objects, writes, journal, cursor>>
sweepVars == <<objects, writes, journal, cursor, updated, sw, crashes>>
sysVars == <<ledgerVars, sweepVars>>

-----------------------------------------------------------------------------
(* State *)

Stages == {"idle", "cleanup", "orphans", "inventory"}
Phases == {"next", "abandon", "delete", "record"}

\* todo: the items of the stage that are left; item, v: the record in hand;
\* seen: the publications that used up budget.
AnyPub == CHOOSE p \in PubId : TRUE
SweepState == [stage: Stages, phase: Phases, todo: Seq(PubId),
               item: PubId \cup {AnyPub}, v: Nat, seen: SUBSET PubId]
IdleSweep == [stage |-> "idle", phase |-> "next", todo |-> <<>>, item |-> AnyPub,
              v |-> 0, seen |-> {}]

\* The store, the journal and the local state of every sweep are well formed;
\* the persistent cursor never points past the end of the journal.
SweepTypeOK ==
    /\ LedgerTypeOK
    /\ objects \subseteq PubId
    /\ writes \in [PubId -> {"none", "open", "landed", "lost"}]
    /\ journal \in Seq(PubId)
    /\ cursor \in 0..Len(journal)
    /\ updated \in Seq(PubId)
    /\ sw \in [Sweepers -> SweepState]
    /\ crashes \in 0..CrashBound

\* updated_at of a row is set by every change of the row: it moves to the end.
Touched(p) ==
    \/ pubs'[p].version # pubs[p].version
    \/ pubs[p].state = "none" /\ pubs'[p].state # "none"
Reordered ==
    LET touched == {p \in PubId : Touched(p)}
    IN  updated' = Keep(updated, PubId \ touched) \o SetToSeq(touched)

-----------------------------------------------------------------------------
(* Publishers *)

\* put_stream first appends the key to the journal, then streams the object.
StartWrite(p) ==
    /\ LeaseCurrent(p[1], p[2])
    /\ pubs[p].state = "reserved"
    /\ writes[p] = "none"
    /\ journal' = Append(journal, p)
    /\ writes' = [writes EXCEPT ![p] = "open"]
    /\ UNCHANGED <<ledgerVars, objects, cursor, updated, sw, crashes>>

\* The link that makes the object exist: a slow writer may have lost its lease.
Land(p) ==
    /\ writes[p] = "open"
    /\ objects' = objects \cup {p}
    /\ writes' = [writes EXCEPT ![p] = "landed"]
    /\ UNCHANGED <<ledgerVars, journal, cursor, updated, sw, crashes>>

\* The writer crashes or gives up before the link.
LoseWrite(p) ==
    /\ writes[p] = "open"
    /\ writes' = [writes EXCEPT ![p] = "lost"]
    /\ UNCHANGED <<ledgerVars, objects, journal, cursor, updated, sw, crashes>>

\* record_object and every later ledger step follow the end of put_stream.
PublisherLedgerStep ==
    /\ \/ \E p \in PubId : Reserve(p)
       \/ \E p \in PubId :
            \/ /\ writes[p] = "landed"
               /\ \E d \in Digests :
                    \/ RecordObject(p, pubs[p].version, d)
                    \/ p \in objects /\ RecordValidated(p, pubs[p].version, d)
            \/ /\ writes[p] \in {"landed", "lost"}
               /\ Reject(p, pubs[p].version)
       \/ \E l \in Leases :
            Finalize(l[1], l[2],
                [k \in RequiredKinds[l[1]] |-> pubs[<<l[1], l[2], k>>].version])
    /\ Reordered
    /\ UNCHANGED <<storeVars, sw, crashes>>

\* _cleanup_best_effort after the winner is visible: delete, then the evidence.
WinnerDelete(p) ==
    /\ pubs[p].state = "finalized" /\ p \in objects
    /\ objects' = objects \ {p}
    /\ UNCHANGED <<ledgerVars, writes, journal, cursor, updated, sw, crashes>>

WinnerRecordCleanup(p) ==
    /\ pubs[p].state = "finalized" /\ p \notin objects
    /\ RecordCleanup(p, pubs[p].version)
    /\ Reordered
    /\ UNCHANGED <<storeVars, sw, crashes>>

-----------------------------------------------------------------------------
(* The queries of a sweep *)

FirstOf(s, n) == SubSeq(s, 1, IF n < Len(s) THEN n ELSE Len(s))

\* cleanup_candidates: terminal rows without cleanup evidence, oldest first.
CleanupCandidates(limit) ==
    FirstOf(Keep(updated, {p \in PubId :
        pubs[p].state \in TerminalPub /\ ~pubs[p].cleaned}), limit)

\* The row belongs to a lease that the queue has already ended.
LeaseEnded(p) ==
    \/ jobs[p[1]].state # "running"
    \/ jobs[p[1]].current # p[2]
    \/ attempts[p[1]][p[2]].state # "active"

KeyRecorded(p) == pubs[p].digest # NoDigest

\* orphan_keys_before: rows with a key, rejected, abandoned or of an ended
\* lease, oldest first.  Rows that carry cleanup evidence are among them.
OrphanKeys(limit) ==
    FirstOf(Keep(updated, {p \in PubId :
        /\ KeyRecorded(p)
        /\ pubs[p].state # "finalized"
        /\ pubs[p].state \in {"rejected", "abandoned"} \/ LeaseEnded(p)}), limit)

\* inventory_page_before: at most limit journal entries from the cursor on; a
\* page that meets the end of the journal starts over.
PageEnd(limit) ==
    IF cursor + limit <= Len(journal) THEN cursor + limit ELSE Len(journal)
\* Mutant: the cursor is not kept, so every sweep scans the same prefix.
NextCursorForgotten(limit) == 0
NextCursor(limit) ==
    IF cursor + limit <= Len(journal) THEN cursor + limit ELSE 0
InventoryPage(limit) ==
    Keep(SubSeq(journal, cursor + 1, PageEnd(limit)), {p \in objects : ~KeyRecorded(p)})

-----------------------------------------------------------------------------
(* The sweep *)

Remaining(s) == SweepLimit - Cardinality(sw[s].seen)

SweepStart(s) ==
    /\ sw[s].stage = "idle"
    /\ sw' = [sw EXCEPT ![s].stage = "cleanup", ![s].seen = {},
                        ![s].todo = CleanupCandidates(SweepLimit)]
    /\ UNCHANGED <<ledgerVars, storeVars, updated, crashes>>

\* The cleanup stage is over: ask for orphan keys if there is budget left.
SweepOrphans(s) ==
    /\ sw[s].stage = "cleanup" /\ sw[s].phase = "next" /\ sw[s].todo = <<>>
    /\ sw' = [sw EXCEPT ![s].stage = "orphans",
                        ![s].todo = IF Remaining(s) > 0
                                    THEN OrphanKeys(Remaining(s)) ELSE <<>>]
    /\ UNCHANGED <<ledgerVars, storeVars, updated, crashes>>

SweepInventory(s) ==
    /\ sw[s].stage = "orphans" /\ sw[s].phase = "next" /\ sw[s].todo = <<>>
    /\ \/ /\ Remaining(s) <= 0
          /\ sw' = [sw EXCEPT ![s] = IdleSweep]
          /\ UNCHANGED cursor
       \/ /\ Remaining(s) > 0
          /\ sw' = [sw EXCEPT ![s].stage = "inventory",
                              ![s].todo = InventoryPage(Remaining(s))]
          /\ cursor' = NextCursor(Remaining(s))
    /\ UNCHANGED <<ledgerVars, objects, writes, journal, updated, crashes>>

SweepEnd(s) ==
    /\ sw[s].stage = "inventory" /\ sw[s].phase = "next" /\ sw[s].todo = <<>>
    /\ sw' = [sw EXCEPT ![s] = IdleSweep]
    /\ UNCHANGED <<ledgerVars, storeVars, updated, crashes>>

NeverAbandon(p) == FALSE                        \* mutant: state not looked at
NeedsAbandon(p) == pubs[p].state \notin TerminalPub

\* Read the record of the next item (a cleanup candidate came with its record,
\* and the only later change of a terminal row is the evidence itself): a
\* terminal one is deleted, any other must be abandoned first.  An item already
\* seen, or over budget, is passed over.
SweepNext(s) ==
    LET p == Head(sw[s].todo)
        skip == /\ sw[s].stage # "cleanup"
                /\ p \in sw[s].seen \/ Remaining(s) <= 0
    IN  /\ sw[s].phase = "next" /\ sw[s].todo # <<>>
        /\ sw' = [sw EXCEPT ![s] =
              IF skip THEN [sw[s] EXCEPT !.todo = Tail(@)]
              ELSE [sw[s] EXCEPT !.todo = Tail(@), !.item = p, !.v = pubs[p].version,
                                 !.seen = @ \cup {p},
                                 !.phase = IF NeedsAbandon(p)
                                           THEN "abandon" ELSE "delete"]]
        /\ UNCHANGED <<ledgerVars, storeVars, updated, crashes>>

\* abandon: the end of the grace yields the next version; the start of the
\* grace, a grace that is still running and a lost CAS pass the item over; and
\* the trigger's refusal under a current lease is an error that ends the sweep.
SweepAbandon(s) ==
    LET p == sw[s].item
        v == sw[s].v
    IN  /\ sw[s].phase = "abandon"
        /\ \/ /\ Abandon(p, v)
              /\ sw' = [sw EXCEPT ![s].phase = "delete", ![s].v = v + 1]
           \/ /\ BeginGrace(p, v)
              /\ sw' = [sw EXCEPT ![s].phase = "next"]
           \/ /\ ~AtVersion(p, OpenPub, v) \/ pubs[p].stale > 0
              /\ sw' = [sw EXCEPT ![s].phase = "next"]
              /\ UNCHANGED ledgerVars
           \/ /\ AtVersion(p, OpenPub, v) /\ pubs[p].stale <= 0
              /\ OwnerCurrent(p)
              /\ sw' = [sw EXCEPT ![s] = IdleSweep]
              /\ UNCHANGED ledgerVars
        /\ Reordered
        /\ UNCHANGED <<storeVars, crashes>>

KeptObjects(p) == objects                       \* mutant: failure ignored
ObjectsWithout(p) == objects \ {p}

\* _delete_record: the object first, the evidence after it.
SweepDelete(s) ==
    /\ sw[s].phase = "delete"
    /\ objects' = ObjectsWithout(sw[s].item)
    /\ sw' = [sw EXCEPT ![s].phase = "record"]
    /\ UNCHANGED <<ledgerVars, writes, journal, cursor, updated, crashes>>

SweepRecord(s) ==
    LET p == sw[s].item
        v == sw[s].v
    IN  /\ sw[s].phase = "record"
        /\ \/ RecordCleanup(p, v)
           \/ /\ ~AtVersion(p, TerminalPub, v) \/ pubs[p].cleaned
              /\ UNCHANGED ledgerVars
        /\ sw' = [sw EXCEPT ![s].phase = "next"]
        /\ Reordered
        /\ UNCHANGED <<storeVars, crashes>>

SweepCrash(s) ==
    /\ sw[s].stage # "idle"
    /\ crashes < CrashBound
    /\ sw' = [sw EXCEPT ![s] = IdleSweep]
    /\ crashes' = crashes + 1
    /\ UNCHANGED <<ledgerVars, storeVars, updated>>

-----------------------------------------------------------------------------
(* The specification *)

SweepInit ==
    /\ LedgerInit
    /\ objects = {}
    /\ writes = [p \in PubId |-> "none"]
    /\ journal = <<>> /\ cursor = 0
    /\ updated = <<>>
    /\ sw = [s \in Sweepers |-> IdleSweep]
    /\ crashes = 0

SweepStep(s) ==
    \/ SweepStart(s) \/ SweepOrphans(s) \/ SweepInventory(s) \/ SweepEnd(s)
    \/ SweepNext(s) \/ SweepAbandon(s) \/ SweepDelete(s) \/ SweepRecord(s)

PublisherStep ==
    \/ PublisherLedgerStep
    \/ \E p \in PubId :
        \/ StartWrite(p) \/ Land(p) \/ LoseWrite(p)
        \/ WinnerDelete(p) \/ WinnerRecordCleanup(p)

ClockStep == LedgerTick /\ UNCHANGED sweepVars

SweepSysNext ==
    \/ (QueueStep /\ UNCHANGED pubVars) /\ UNCHANGED sweepVars
    \/ PublisherStep
    \/ \E s \in Sweepers : SweepStep(s) \/ SweepCrash(s)
    \/ ClockStep

SweepSpec == SweepInit /\ [][SweepSysNext]_sysVars

\* The clock runs, the reaper runs, and an operator repeats the sweep for ever.
\* Nothing is assumed of the workers that hold leases.
SweepFairness ==
    /\ WF_sysVars(ClockStep)
    /\ WF_sysVars(/\ \E batch \in SUBSET Jobs : ReapExpired(batch)
                  /\ UNCHANGED <<pubVars, sweepVars>>)
    /\ \A s \in Sweepers : WF_sysVars(SweepStep(s))

SweepFairSpec == SweepSpec /\ SweepFairness

-----------------------------------------------------------------------------
(* Correctness *)

\* A sweep never takes an object away from a publisher that may still need it:
\* while the lease is current, a recorded object is there to be validated and
\* promoted.
NeededObjectPresent ==
    \A p \in PubId :
        pubs[p].state \in {"object_written", "validated"} /\ OwnerCurrent(p) =>
            p \in objects

\* Cleanup evidence is the truth: attempt_object_deleted_at is set only when
\* the object is gone, and no slow writer brings it back afterwards.
EvidenceIsTrue ==
    \A p \in PubId : pubs[p].cleaned => p \notin objects /\ writes[p] # "open"

\* A row that was cleaned stays in the answer of orphan_keys_before; as many as the
\* limit leave nothing of it to other rows.
LimitUsedUp ==
    SweepLimit <= Cardinality({p \in PubId :
        pubs[p].cleaned /\ KeyRecorded(p) /\ pubs[p].state # "finalized"})

\* An object that nobody needs is deleted in the end: that of a row that is finalized,
\* rejected or abandoned, and that of a dead attempt, also when no row has its key.
\* Repeated bounded sweeps reach the later ones, from cleanup_candidates, which leaves
\* out the rows that were cleaned, and by the cursor of the inventory.  There is one
\* limit: rows that were cleaned before may keep a sweep from finding and abandoning
\* the row of a dead attempt.
OrphansAreSwept ==
    \A p \in PubId :
        p \in objects /\ (pubs[p].state \in TerminalPub \/ LeaseEnded(p))
            ~> p \notin objects \/ (LimitUsedUp /\ pubs[p].state \notin TerminalPub)

\* What the operations manual says of them: repeated bounded sweeps reach every object
\* of a dead attempt.
LaterOrphansReached ==
    \A p \in PubId :
        (p \in objects /\ pubs[p].state # "finalized" /\ LeaseEnded(p)) ~> (p \notin objects)

-----------------------------------------------------------------------------
(* The inductive invariant behind the safety properties *)

\* Store and ledger agree: a row has a key, and a key an object, only after the
\* one write of the publication landed; the object of a row that is not terminal
\* stays; and no write is under way for a terminal row.
StoreMatchesRows ==
    \A p \in PubId :
        /\ KeyRecorded(p) \/ p \in objects => writes[p] = "landed"
        /\ writes[p] = "landed" /\ pubs[p].state \notin TerminalPub => p \in objects
        /\ pubs[p].state \in TerminalPub => writes[p] \in {"landed", "lost"}
        /\ pubs[p].cleaned => pubs[p].state \in TerminalPub /\ p \notin objects

\* What the local state of sweep s says of the item in hand and of the items
\* still to come, although it was read long ago.
HandIsSound(s) ==
    /\ \A i \in 1..Len(sw[s].todo) :
        IF sw[s].stage = "cleanup"
        THEN pubs[sw[s].todo[i]].state \in TerminalPub
        ELSE writes[sw[s].todo[i]] = "landed"
    /\ sw[s].phase # "next" => sw[s].item \in PubId
    /\ sw[s].phase = "abandon" => writes[sw[s].item] = "landed"
    /\ sw[s].phase \in {"delete", "record"} => pubs[sw[s].item].state \in TerminalPub
    /\ sw[s].phase = "record" => sw[s].item \notin objects

SweepInv ==
    /\ SweepTypeOK
    /\ LedgerInv
    /\ StoreMatchesRows
    /\ \A s \in Sweepers : HandIsSound(s)

=============================================================================
