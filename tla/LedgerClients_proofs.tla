------------------------ MODULE LedgerClients_proofs ------------------------
(***************************************************************************)
(* Proofs about the two programs that drive the publication ledger without *)
(* sharing a transaction with each other.                                  *)
(*                                                                         *)
(* OrphanSweep: a sweep takes no object away from a live attempt and writes *)
(* no false evidence; the inductive invariant is SweepInv.                 *)
(*                                                                         *)
(* PublishingWorker: whichever processes crash, lose leases and take jobs  *)
(* over, a client is shown the bytes that the winning attempt made itself, *)
(* and a delivery that ends leaves no lease behind; the inductive invariant *)
(* is WorkInv.                                                             *)
(***************************************************************************)
EXTENDS OrphanSweep, PublishingWorker, Publication_proofs, SequenceFilter_proofs

-----------------------------------------------------------------------------
(* Sequences of publications *)

\* The rows of the ledger are finitely many.
LEMMA PubIdFinite == IsFiniteSet(PubId)
<1>. DEFINE Q == (Jobs \X (1..MaxAttempts)) \X Kinds
            f == [q \in Q |-> <<q[1][1], q[1][2], q[2]>>]
<1>1. IsFiniteSet(Q)
  <2>1. IsFiniteSet(1..MaxAttempts)
    BY LimitAssumption, FS_Interval
  <2>2. IsFiniteSet(Jobs \X (1..MaxAttempts))
    BY <2>1, JobsAssumption, FS_Product
  <2>. QED  BY <2>2, KindsAssumption, FS_Product
<1>2. f \in Surjection(Q, PubId)
  <2>1. f \in [Q -> PubId]
    BY DEF PubId
  <2>2. ASSUME NEW p \in PubId  PROVE \E q \in Q : f[q] = p
    <3>1. p[1] \in Jobs /\ p[2] \in 1..MaxAttempts /\ p[3] \in Kinds
          /\ p = <<p[1], p[2], p[3]>>
      BY PubParts
    <3>2. <<<<p[1], p[2]>>, p[3]>> \in Q
      BY <3>1
    <3>3. f[<<<<p[1], p[2]>>, p[3]>>] = p
      BY <3>1, <3>2
    <3>. QED  BY <3>2, <3>3
  <2>. QED  BY <2>1, <2>2 DEF Surjection
<1>. QED  BY <1>1, <1>2, FS_Surjection

\* A first part of a sequence has the members of the sequence.
LEMMA FirstOfType ==
    ASSUME NEW A, NEW t \in Seq(A), NEW n \in Nat
    PROVE  FirstOf(t, n) \in Seq(A)
<1>. DEFINE m == IF n < Len(t) THEN n ELSE Len(t)
<1>1. m \in Int /\ \A i \in 1..m : t[i] \in A
  BY LenProperties, ElementOfSeq
<1>. HIDE DEF m
<1>2. SubSeq(t, 1, m) \in Seq(A)
  BY <1>1, SubSeqProperties
<1>. QED  BY <1>2 DEF FirstOf, m

\* A transaction that changes rows keeps the order of updated_at well formed.
LEMMA ReorderedType ==
    ASSUME SweepTypeOK, Reordered
    PROVE  updated' \in Seq(PubId)
<1>. DEFINE touched == {p \in PubId : Touched(p)}
<1>1. Keep(updated, PubId \ touched) \in Seq(PubId)
  <2>1. Keep(updated, PubId \ touched) \in Seq(PubId \cap (PubId \ touched))
    BY KeepType DEF SweepTypeOK
  <2>. QED  BY <2>1, LenProperties, ElementOfSeq, SeqDef
<1>2. IsFiniteSet(touched)
  BY PubIdFinite, FS_Subset
<1>3. SetToSeq(touched) \in Seq(PubId)
  <2>1. SetToSeq(touched) \in Seq(touched)
    BY <1>2, SetToSeqType
  <2>. QED  BY <2>1, SeqDef
<1>. QED  BY <1>1, <1>3, ConcatProperties DEF Reordered

-----------------------------------------------------------------------------
(* What a ledger transaction may do to a row, as far as the store cares *)

RowEffect(p) ==
    /\ pubs[p].state \in TerminalPub => pubs'[p].state \in TerminalPub
    /\ KeyRecorded(p)' => KeyRecorded(p) \/ writes[p] = "landed"
    /\ pubs'[p].state \in TerminalPub =>
        pubs[p].state \in TerminalPub \/ writes[p] \in {"landed", "lost"}
    /\ pubs'[p].cleaned =>
        pubs[p].cleaned \/ (pubs'[p].state \in TerminalPub /\ p \notin objects)

\* The object store and the ledger stay in agreement.
LEMMA StoreKept ==
    ASSUME StoreMatchesRows, UNCHANGED <<objects, writes>>,
           \A p \in PubId : RowEffect(p)
    PROVE  StoreMatchesRows'
<1>. SUFFICES ASSUME NEW p \in PubId
              PROVE  /\ KeyRecorded(p)' \/ p \in objects' => writes'[p] = "landed"
                     /\ writes'[p] = "landed" /\ pubs'[p].state \notin TerminalPub => p \in objects'
                     /\ pubs'[p].state \in TerminalPub => writes'[p] \in {"landed", "lost"}
                     /\ pubs'[p].cleaned => pubs'[p].state \in TerminalPub /\ p \notin objects'
  BY DEF StoreMatchesRows
<1>1. RowEffect(p)
  OBVIOUS
<1>2. /\ KeyRecorded(p) \/ p \in objects => writes[p] = "landed"
      /\ writes[p] = "landed" /\ pubs[p].state \notin TerminalPub => p \in objects
      /\ pubs[p].state \in TerminalPub => writes[p] \in {"landed", "lost"}
      /\ pubs[p].cleaned => pubs[p].state \in TerminalPub /\ p \notin objects
  BY DEF StoreMatchesRows
<1>. QED  BY <1>1, <1>2 DEF RowEffect

\* The hand of a sweep that does not move itself stays sound: terminal rows stay
\* terminal, a landed write stays landed and a deleted object stays away.
LEMMA HandStays ==
    ASSUME SweepTypeOK, NEW s \in Sweepers, HandIsSound(s), sw'[s] = sw[s],
           \A p \in PubId :
              /\ pubs[p].state \in TerminalPub => pubs'[p].state \in TerminalPub
              /\ writes[p] = "landed" => writes'[p] = "landed"
              /\ pubs[p].state \in TerminalPub /\ p \notin objects => p \notin objects'
    PROVE  HandIsSound(s)'
<1>. DEFINE h == sw[s]
<1>1. h \in SweepState
  BY DEF SweepTypeOK
<1>2. h.todo \in Seq(PubId)
  BY <1>1 DEF SweepState
<1>. HIDE DEF h
<1>3. /\ \A i \in 1..Len(h.todo) :
            IF h.stage = "cleanup"
            THEN pubs[h.todo[i]].state \in TerminalPub
            ELSE writes[h.todo[i]] = "landed"
      /\ h.phase # "next" => h.item \in PubId
      /\ h.phase = "abandon" => writes[h.item] = "landed"
      /\ h.phase \in {"delete", "record"} => pubs[h.item].state \in TerminalPub
      /\ h.phase = "record" => h.item \notin objects
  BY DEF HandIsSound, h
<1>4. ASSUME NEW i \in 1..Len(h.todo)
      PROVE  IF h.stage = "cleanup"
             THEN pubs'[h.todo[i]].state \in TerminalPub
             ELSE writes'[h.todo[i]] = "landed"
  <2>1. h.todo[i] \in PubId
    BY <1>2, LenProperties, ElementOfSeq
  <2>. QED  BY <1>3, <2>1
<1>5. /\ h.phase # "next" => h.item \in PubId
      /\ h.phase = "abandon" => writes'[h.item] = "landed"
      /\ h.phase \in {"delete", "record"} => pubs'[h.item].state \in TerminalPub
      /\ h.phase = "record" => h.item \notin objects'
  BY <1>3
<1>. QED  BY <1>4, <1>5 DEF HandIsSound, h

\* A transaction on one row has an effect the store can bear, when that holds of
\* the row it writes.
LEMMA OneRowEffect ==
    ASSUME LedgerTypeOK, StoreMatchesRows, NEW p \in PubId, NEW r,
           pubs' = [pubs EXCEPT ![p] = r],
           pubs[p].state \in TerminalPub => r.state \in TerminalPub,
           r.digest # NoDigest => KeyRecorded(p) \/ writes[p] = "landed",
           r.state \in TerminalPub =>
                pubs[p].state \in TerminalPub \/ writes[p] \in {"landed", "lost"},
           r.cleaned => pubs[p].cleaned \/ (r.state \in TerminalPub /\ p \notin objects)
    PROVE  \A q \in PubId : RowEffect(q)
<1>. SUFFICES ASSUME NEW q \in PubId  PROVE RowEffect(q)
  OBVIOUS
<1>1. pubs'[p] = r /\ (q # p => pubs'[q] = pubs[q])
  BY DEF LedgerTypeOK
<1>2. CASE q = p
  BY <1>1, <1>2 DEF RowEffect, KeyRecorded
<1>3. CASE q # p
  BY <1>1, <1>3 DEF RowEffect, KeyRecorded
<1>. QED  BY <1>2, <1>3

\* A step that moves no row has no effect.
LEMMA NoRowEffect ==
    ASSUME \A p \in PubId : /\ pubs'[p].state = pubs[p].state
                            /\ pubs'[p].digest = pubs[p].digest
                            /\ pubs'[p].cleaned = pubs[p].cleaned
    PROVE  \A q \in PubId : RowEffect(q)
BY DEF RowEffect, KeyRecorded

\* The parts of the type invariant that a ledger transaction can touch.
LEMMA SweepTypeKept ==
    ASSUME SweepTypeOK, LedgerTypeOK', UNCHANGED <<storeVars, crashes>>,
           sw' \in [Sweepers -> SweepState], updated' \in Seq(PubId)
    PROVE  SweepTypeOK'
BY DEF SweepTypeOK, storeVars

\* Every ledger transaction of a publisher or a sweep, and the clock, keep the
\* invariant if the sweep that takes the step keeps its own hand sound.
LEMMA LedgerEffectInv ==
    ASSUME SweepInv, LedgerInv', UNCHANGED <<storeVars, crashes>>,
           updated' \in Seq(PubId),
           sw' \in [Sweepers -> SweepState],
           \A p \in PubId : RowEffect(p),
           \A s \in Sweepers : sw'[s] = sw[s] \/ HandIsSound(s)'
    PROVE  SweepInv'
<1>1. SweepTypeOK'
  <2>1. LedgerTypeOK'
    BY DEF LedgerInv
  <2>. QED  BY <2>1, SweepTypeKept DEF SweepInv
<1>2. StoreMatchesRows'
  BY StoreKept DEF SweepInv, storeVars
<1>3. ASSUME NEW s \in Sweepers  PROVE HandIsSound(s)'
  <2>1. CASE sw'[s] = sw[s]
    <3>1. SweepTypeOK /\ HandIsSound(s)
      BY DEF SweepInv
    <3>2. \A p \in PubId :
              /\ pubs[p].state \in TerminalPub => pubs'[p].state \in TerminalPub
              /\ writes[p] = "landed" => writes'[p] = "landed"
              /\ pubs[p].state \in TerminalPub /\ p \notin objects => p \notin objects'
      BY DEF RowEffect, storeVars
    <3>. QED  BY <2>1, <3>1, <3>2, HandStays
  <2>. QED  BY <2>1
<1>. QED  BY <1>1, <1>2, <1>3 DEF SweepInv

-----------------------------------------------------------------------------
(* The effects of the ledger's operations *)

\* A reserved row has no key yet.
LEMMA ReserveEffect ==
    ASSUME SweepInv, NEW p \in PubId, Reserve(p)
    PROVE  \A q \in PubId : RowEffect(q)
<1>. DEFINE r == [pubs[p] EXCEPT !.state = "reserved"]
<1>1. LedgerTypeOK /\ StoreMatchesRows /\ pubs[p] \in PubRow
  BY DEF SweepInv, LedgerInv, LedgerTypeOK
<1>2. pubs' = [pubs EXCEPT ![p] = r] /\ pubs[p].state = "none"
  BY DEF Reserve
<1>3. r.state = "reserved" /\ r.digest = pubs[p].digest /\ r.cleaned = pubs[p].cleaned
  BY <1>1 DEF PubRow
<1>. HIDE DEF r
<1>4. "reserved" \notin TerminalPub /\ "none" \notin TerminalPub
  BY DEF TerminalPub
<1>. QED  BY <1>1, <1>2, <1>3, <1>4, OneRowEffect DEF KeyRecorded

\* A key is recorded after its object landed.
LEMMA RecordObjectEffect ==
    ASSUME SweepInv, NEW p \in PubId, NEW v, NEW d \in Digests,
           RecordObject(p, v, d), writes[p] = "landed"
    PROVE  \A q \in PubId : RowEffect(q)
<1>. DEFINE r == [pubs[p] EXCEPT !.state = "object_written",
                                 !.version = @ + 1, !.digest = d]
<1>1. LedgerTypeOK /\ StoreMatchesRows /\ pubs[p] \in PubRow
  BY DEF SweepInv, LedgerInv, LedgerTypeOK
<1>2. pubs' = [pubs EXCEPT ![p] = r] /\ pubs[p].state = "reserved"
  BY DEF RecordObject, AtVersion
<1>3. r.state = "object_written" /\ r.cleaned = pubs[p].cleaned
  BY <1>1 DEF PubRow
<1>. HIDE DEF r
<1>4. "reserved" \notin TerminalPub /\ "object_written" \notin TerminalPub
  BY DEF TerminalPub
<1>. QED  BY <1>1, <1>2, <1>3, <1>4, OneRowEffect DEF KeyRecorded

\* A validated row keeps its key.
LEMMA RecordValidatedEffect ==
    ASSUME SweepInv, NEW p \in PubId, NEW v, NEW d \in Digests,
           RecordValidated(p, v, d)
    PROVE  \A q \in PubId : RowEffect(q)
<1>. DEFINE r == [pubs[p] EXCEPT !.state = "validated", !.version = @ + 1, !.blob = d]
<1>1. LedgerTypeOK /\ StoreMatchesRows /\ pubs[p] \in PubRow
  BY DEF SweepInv, LedgerInv, LedgerTypeOK
<1>2. pubs' = [pubs EXCEPT ![p] = r] /\ pubs[p].state = "object_written"
  BY DEF RecordValidated, AtVersion
<1>3. r.state = "validated" /\ r.digest = pubs[p].digest /\ r.cleaned = pubs[p].cleaned
  BY <1>1 DEF PubRow
<1>. HIDE DEF r
<1>4. "validated" \notin TerminalPub /\ "object_written" \notin TerminalPub
  BY DEF TerminalPub
<1>. QED  BY <1>1, <1>2, <1>3, <1>4, OneRowEffect DEF KeyRecorded

\* A row is rejected or abandoned once its one write is over.
LEMMA CloseEffect ==
    ASSUME SweepInv, NEW p \in PubId, NEW v, Reject(p, v) \/ Abandon(p, v),
           writes[p] \in {"landed", "lost"}
    PROVE  \A q \in PubId : RowEffect(q)
<1>. DEFINE t == IF Reject(p, v) THEN "rejected" ELSE "abandoned"
            r == [pubs[p] EXCEPT !.state = t, !.version = @ + 1]
<1>1. LedgerTypeOK /\ StoreMatchesRows /\ pubs[p] \in PubRow
  BY DEF SweepInv, LedgerInv, LedgerTypeOK
<1>2. pubs' = [pubs EXCEPT ![p] = r]
  BY DEF Reject, Abandon
<1>3. t \in TerminalPub
  BY DEF TerminalPub
<1>. HIDE DEF t
<1>4. r.state = t /\ r.digest = pubs[p].digest /\ r.cleaned = pubs[p].cleaned
  BY <1>1 DEF PubRow
<1>. HIDE DEF r
<1>. QED  BY <1>1, <1>2, <1>3, <1>4, OneRowEffect DEF KeyRecorded

\* The start of the grace changes nothing the store cares about.
LEMMA BeginGraceEffect ==
    ASSUME SweepInv, NEW p \in PubId, NEW v, BeginGrace(p, v)
    PROVE  \A q \in PubId : RowEffect(q)
<1>. DEFINE r == [pubs[p] EXCEPT !.stale = Grace, !.version = @ + 1]
<1>1. LedgerTypeOK /\ StoreMatchesRows /\ pubs[p] \in PubRow
  BY DEF SweepInv, LedgerInv, LedgerTypeOK
<1>2. pubs' = [pubs EXCEPT ![p] = r]
  BY DEF BeginGrace
<1>3. r.state = pubs[p].state /\ r.digest = pubs[p].digest /\ r.cleaned = pubs[p].cleaned
  BY <1>1 DEF PubRow
<1>. HIDE DEF r
<1>. QED  BY <1>1, <1>2, <1>3, OneRowEffect DEF KeyRecorded

\* Evidence is written for an object that is gone.
LEMMA RecordCleanupEffect ==
    ASSUME SweepInv, NEW p \in PubId, NEW v, RecordCleanup(p, v), p \notin objects
    PROVE  \A q \in PubId : RowEffect(q)
<1>. DEFINE r == [pubs[p] EXCEPT !.cleaned = TRUE, !.version = @ + 1]
<1>1. LedgerTypeOK /\ StoreMatchesRows /\ pubs[p] \in PubRow
  BY DEF SweepInv, LedgerInv, LedgerTypeOK
<1>2. pubs' = [pubs EXCEPT ![p] = r] /\ pubs[p].state \in TerminalPub
  BY DEF RecordCleanup, AtVersion
<1>3. r.state = pubs[p].state /\ r.digest = pubs[p].digest
  BY <1>1 DEF PubRow
<1>. HIDE DEF r
<1>. QED  BY <1>1, <1>2, <1>3, OneRowEffect DEF KeyRecorded

\* Finalize ends rows that were validated, whose objects therefore landed.
LEMMA FinalizeEffect ==
    ASSUME SweepInv, NEW j \in Jobs, NEW n, NEW vs, Finalize(j, n, vs)
    PROVE  \A q \in PubId : RowEffect(q)
<1>. SUFFICES ASSUME NEW q \in PubId  PROVE RowEffect(q)
  OBVIOUS
<1>1. /\ LedgerTypeOK /\ OpenRowHasEvidence /\ StoreMatchesRows
      /\ pubs[q] \in PubRow
  BY DEF SweepInv, LedgerInv, LedgerTypeOK
<1>2. q = <<q[1], q[2], q[3]>>
  BY PubParts
<1>3. CASE q[1] = j /\ q[2] = n /\ q[3] \in DOMAIN vs
  <2>1. pubs[q].state = "validated"
    <3>1. AtVersion(<<j, n, q[3]>>, {"validated"}, vs[q[3]])
      BY <1>3 DEF Finalize
    <3>. QED  BY <1>2, <1>3, <3>1 DEF AtVersion
  <2>2. writes[q] = "landed"
    <3>1. pubs[q].digest \in Digests
      BY <1>1, <2>1 DEF OpenRowHasEvidence
    <3>2. KeyRecorded(q)
      BY <3>1, DigestAssumption DEF KeyRecorded
    <3>. QED  BY <1>1, <3>2 DEF StoreMatchesRows
  <2>3. pubs'[q] = [pubs[q] EXCEPT !.state = "finalized", !.version = @ + 1]
    BY <1>3 DEF Finalize
  <2>4. pubs'[q].state = "finalized" /\ pubs'[q].cleaned = pubs[q].cleaned
    BY <1>1, <2>3 DEF PubRow
  <2>. QED  BY <2>2, <2>4 DEF RowEffect, TerminalPub
<1>4. CASE ~(q[1] = j /\ q[2] = n /\ q[3] \in DOMAIN vs)
  <2>1. pubs'[q] = pubs[q]
    BY <1>4 DEF Finalize
  <2>. QED  BY <2>1 DEF RowEffect, KeyRecorded
<1>. QED  BY <1>3, <1>4

-----------------------------------------------------------------------------
(* Publishers, the queue and the clock *)

\* A publisher's ledger transaction.
LEMMA PublisherLedgerInv ==
    ASSUME SweepInv, PublisherLedgerStep
    PROVE  SweepInv'
<1>. USE DEF SweepInv
<1>1. LedgerInv' /\ \A q \in PubId : RowEffect(q)
  <2>1. ASSUME NEW p \in PubId, Reserve(p)
        PROVE  LedgerInv' /\ \A q \in PubId : RowEffect(q)
    BY <2>1, ReserveInv, ReserveEffect
  <2>2. ASSUME NEW p \in PubId, writes[p] = "landed", NEW d \in Digests,
               RecordObject(p, pubs[p].version, d)
        PROVE  LedgerInv' /\ \A q \in PubId : RowEffect(q)
    BY <2>2, RecordObjectInv, RecordObjectEffect
  <2>3. ASSUME NEW p \in PubId, NEW d \in Digests,
               RecordValidated(p, pubs[p].version, d)
        PROVE  LedgerInv' /\ \A q \in PubId : RowEffect(q)
    BY <2>3, RecordValidatedInv, RecordValidatedEffect
  <2>4. ASSUME NEW p \in PubId, writes[p] \in {"landed", "lost"},
               Reject(p, pubs[p].version)
        PROVE  LedgerInv' /\ \A q \in PubId : RowEffect(q)
    BY <2>4, RejectInv, CloseEffect
  <2>5. ASSUME NEW l \in Leases,
               Finalize(l[1], l[2],
                   [k \in RequiredKinds[l[1]] |-> pubs[<<l[1], l[2], k>>].version])
        PROVE  LedgerInv' /\ \A q \in PubId : RowEffect(q)
    <3>1. l[1] \in Jobs
      BY DEF Leases
    <3>. DEFINE vs == [k \in RequiredKinds[l[1]] |-> pubs[<<l[1], l[2], k>>].version]
    <3>2. Finalize(l[1], l[2], vs)
      BY <2>5
    <3>. HIDE DEF vs
    <3>. QED  BY <3>1, <3>2, FinalizeInv, FinalizeEffect
  <2>. QED  BY <2>1, <2>2, <2>3, <2>4, <2>5 DEF PublisherLedgerStep
<1>2. updated' \in Seq(PubId)
  BY ReorderedType DEF PublisherLedgerStep
<1>3. UNCHANGED <<storeVars, sw, crashes>>
  BY DEF PublisherLedgerStep
<1>4. sw' \in [Sweepers -> SweepState]
  BY <1>3 DEF SweepTypeOK
<1>. QED  BY <1>1, <1>2, <1>3, <1>4, LedgerEffectInv

\* The winner's own cleanup evidence.
LEMMA WinnerRecordCleanupInv ==
    ASSUME SweepInv, NEW p \in PubId, WinnerRecordCleanup(p)
    PROVE  SweepInv'
<1>. USE DEF SweepInv
<1>1. RecordCleanup(p, pubs[p].version) /\ p \notin objects
  BY DEF WinnerRecordCleanup
<1>2. LedgerInv' /\ \A q \in PubId : RowEffect(q)
  BY <1>1, RecordCleanupInv, RecordCleanupEffect
<1>3. updated' \in Seq(PubId)
  BY ReorderedType DEF WinnerRecordCleanup
<1>4. UNCHANGED <<storeVars, sw, crashes>>
  BY DEF WinnerRecordCleanup
<1>5. sw' \in [Sweepers -> SweepState]
  BY <1>4 DEF SweepTypeOK
<1>. QED  BY <1>2, <1>3, <1>4, <1>5, LedgerEffectInv

\* The queue's operations and the clock move no row of the ledger.
LEMMA QueueOrClockInv ==
    ASSUME SweepInv, (QueueStep /\ UNCHANGED pubVars) \/ LedgerTick,
           UNCHANGED sweepVars
    PROVE  SweepInv'
<1>. USE DEF SweepInv
<1>1. LedgerInv'
  <2>1. CASE QueueStep /\ UNCHANGED pubVars
    BY <2>1, QueueOnlyInv DEF LQNext
  <2>2. CASE LedgerTick
    BY <2>2, LedgerTickInv
  <2>. QED  BY <2>1, <2>2
<1>2. \A q \in PubId : RowEffect(q)
  <2>1. CASE QueueStep /\ UNCHANGED pubVars
    <3>1. pubs' = pubs
      BY <2>1 DEF pubVars
    <3>. QED  BY <3>1, NoRowEffect
  <2>2. CASE LedgerTick
    <3>1. \A p \in PubId : pubs[p] \in PubRow
      BY DEF LedgerInv, LedgerTypeOK
    <3>2. \A p \in PubId : pubs'[p] = [pubs[p] EXCEPT !.stale = GraceAfter(@)]
      BY <2>2 DEF LedgerTick
    <3>3. \A p \in PubId : /\ pubs'[p].state = pubs[p].state
                           /\ pubs'[p].digest = pubs[p].digest
                           /\ pubs'[p].cleaned = pubs[p].cleaned
      BY <3>1, <3>2 DEF PubRow
    <3>. QED  BY <3>3, NoRowEffect
  <2>. QED  BY <2>1, <2>2
<1>3. UNCHANGED <<storeVars, updated, sw, crashes>>
  BY DEF sweepVars, storeVars
<1>4. updated' \in Seq(PubId) /\ sw' \in [Sweepers -> SweepState]
  BY <1>3 DEF SweepTypeOK
<1>. QED  BY <1>1, <1>2, <1>3, <1>4, LedgerEffectInv

\* A step that leaves the ledger alone leaves its invariant alone.
LEMMA SameLedger ==
    ASSUME LedgerInv, UNCHANGED ledgerVars
    PROVE  LedgerInv' /\ pubs' = pubs /\ \A p : KeyRecorded(p)' <=> KeyRecorded(p)
<1>1. LedgerInv'
  BY LedgerNextInv
<1>2. pubs' = pubs
  BY DEF ledgerVars
<1>. QED  BY <1>1, <1>2 DEF KeyRecorded

\* A step of the store, taken by a publisher.
LEMMA StoreStepInv ==
    ASSUME SweepInv, UNCHANGED <<ledgerVars, cursor, updated, sw, crashes>>,
           objects' \subseteq PubId,
           writes' \in [PubId -> {"none", "open", "landed", "lost"}],
           journal' \in Seq(PubId), Len(journal) <= Len(journal'),
           StoreMatchesRows',
           \A p \in PubId :
              /\ writes[p] = "landed" => writes'[p] = "landed"
              /\ pubs[p].state \in TerminalPub /\ p \notin objects => p \notin objects'
    PROVE  SweepInv'
<1>. USE DEF SweepInv
<1>1. LedgerInv' /\ pubs' = pubs
  BY SameLedger
<1>2. SweepTypeOK'
  <2>1. cursor' \in 0..Len(journal')
    <3>1. cursor \in 0..Len(journal) /\ Len(journal) \in Nat /\ Len(journal') \in Nat
      BY LenProperties DEF SweepTypeOK
    <3>. QED  BY <3>1
  <2>. QED  BY <1>1, <2>1 DEF SweepTypeOK, LedgerInv
<1>3. ASSUME NEW s \in Sweepers  PROVE HandIsSound(s)'
  <2>1. sw'[s] = sw[s] /\ HandIsSound(s) /\ SweepTypeOK
    OBVIOUS
  <2>. QED  BY <1>1, <2>1, HandStays
<1>. QED  BY <1>1, <1>2, <1>3

\* put_stream begins for a row that is open.
LEMMA StartWriteInv ==
    ASSUME SweepInv, NEW p \in PubId, StartWrite(p)
    PROVE  SweepInv'
<1>1. /\ pubs[p].state = "reserved" /\ writes[p] = "none"
      /\ journal' = Append(journal, p) /\ writes' = [writes EXCEPT ![p] = "open"]
      /\ UNCHANGED <<ledgerVars, objects, cursor, updated, sw, crashes>>
  BY DEF StartWrite
<1>2. /\ SweepTypeOK /\ LedgerInv /\ StoreMatchesRows
      /\ writes \in [PubId -> {"none", "open", "landed", "lost"}]
      /\ journal \in Seq(PubId) /\ objects \subseteq PubId
  BY DEF SweepInv, SweepTypeOK
<1>3. journal' \in Seq(PubId) /\ Len(journal) <= Len(journal')
  BY <1>1, <1>2, AppendProperties, LenProperties
<1>4. writes' \in [PubId -> {"none", "open", "landed", "lost"}]
  BY <1>1, <1>2
<1>5. pubs' = pubs /\ \A q : KeyRecorded(q)' <=> KeyRecorded(q)
  BY <1>1, <1>2, SameLedger
<1>6. \A q \in PubId : writes'[q] = IF q = p THEN "open" ELSE writes[q]
  BY <1>1, <1>2
<1>7. StoreMatchesRows'
  BY <1>1, <1>2, <1>5, <1>6 DEF StoreMatchesRows, TerminalPub
<1>8. \A q \in PubId : writes[q] = "landed" => writes'[q] = "landed"
  BY <1>1, <1>6
<1>. QED  BY <1>1, <1>2, <1>3, <1>4, <1>7, <1>8, StoreStepInv

\* The object appears; its row is not terminal, for no write is open then.
LEMMA LandInv ==
    ASSUME SweepInv, NEW p \in PubId, Land(p)
    PROVE  SweepInv'
<1>1. /\ writes[p] = "open"
      /\ objects' = objects \cup {p} /\ writes' = [writes EXCEPT ![p] = "landed"]
      /\ UNCHANGED <<ledgerVars, journal, cursor, updated, sw, crashes>>
  BY DEF Land
<1>2. /\ SweepTypeOK /\ LedgerInv /\ StoreMatchesRows
      /\ writes \in [PubId -> {"none", "open", "landed", "lost"}]
      /\ journal \in Seq(PubId) /\ objects \subseteq PubId
  BY DEF SweepInv, SweepTypeOK
<1>3. journal' \in Seq(PubId) /\ Len(journal) <= Len(journal') /\ objects' \subseteq PubId
  BY <1>1, <1>2, LenProperties
<1>4. writes' \in [PubId -> {"none", "open", "landed", "lost"}]
  BY <1>1, <1>2
<1>5. pubs' = pubs /\ \A q : KeyRecorded(q)' <=> KeyRecorded(q)
  BY <1>1, <1>2, SameLedger
<1>6. \A q \in PubId : writes'[q] = IF q = p THEN "landed" ELSE writes[q]
  BY <1>1, <1>2
<1>7. pubs[p].state \notin TerminalPub /\ ~pubs[p].cleaned
  BY <1>1, <1>2 DEF StoreMatchesRows
<1>8. StoreMatchesRows'
  BY <1>1, <1>2, <1>5, <1>6, <1>7 DEF StoreMatchesRows
<1>9. \A q \in PubId :
        /\ writes[q] = "landed" => writes'[q] = "landed"
        /\ pubs[q].state \in TerminalPub /\ q \notin objects => q \notin objects'
  BY <1>1, <1>6, <1>7
<1>. QED  BY <1>1, <1>3, <1>4, <1>8, <1>9, StoreStepInv

\* The write is given up.
LEMMA LoseWriteInv ==
    ASSUME SweepInv, NEW p \in PubId, LoseWrite(p)
    PROVE  SweepInv'
<1>1. /\ writes[p] = "open" /\ writes' = [writes EXCEPT ![p] = "lost"]
      /\ UNCHANGED <<ledgerVars, objects, journal, cursor, updated, sw, crashes>>
  BY DEF LoseWrite
<1>2. /\ SweepTypeOK /\ LedgerInv /\ StoreMatchesRows
      /\ writes \in [PubId -> {"none", "open", "landed", "lost"}]
      /\ journal \in Seq(PubId) /\ objects \subseteq PubId
  BY DEF SweepInv, SweepTypeOK
<1>3. journal' \in Seq(PubId) /\ Len(journal) <= Len(journal')
  BY <1>1, <1>2, LenProperties
<1>4. writes' \in [PubId -> {"none", "open", "landed", "lost"}]
  BY <1>1, <1>2
<1>5. pubs' = pubs /\ \A q : KeyRecorded(q)' <=> KeyRecorded(q)
  BY <1>1, <1>2, SameLedger
<1>6. \A q \in PubId : writes'[q] = IF q = p THEN "lost" ELSE writes[q]
  BY <1>1, <1>2
<1>7. StoreMatchesRows'
  BY <1>1, <1>2, <1>5, <1>6 DEF StoreMatchesRows
<1>8. \A q \in PubId : writes[q] = "landed" => writes'[q] = "landed"
  BY <1>1, <1>6
<1>. QED  BY <1>1, <1>2, <1>3, <1>4, <1>7, <1>8, StoreStepInv

\* The winner deletes its attempt object after the promotion.
LEMMA WinnerDeleteInv ==
    ASSUME SweepInv, NEW p \in PubId, WinnerDelete(p)
    PROVE  SweepInv'
<1>1. /\ pubs[p].state = "finalized" /\ objects' = objects \ {p}
      /\ UNCHANGED <<ledgerVars, writes, journal, cursor, updated, sw, crashes>>
  BY DEF WinnerDelete
<1>2. /\ SweepTypeOK /\ LedgerInv /\ StoreMatchesRows
      /\ writes \in [PubId -> {"none", "open", "landed", "lost"}]
      /\ journal \in Seq(PubId) /\ objects \subseteq PubId
  BY DEF SweepInv, SweepTypeOK
<1>3. journal' \in Seq(PubId) /\ Len(journal) <= Len(journal') /\ objects' \subseteq PubId
  BY <1>1, <1>2, LenProperties
<1>4. pubs' = pubs /\ \A q : KeyRecorded(q)' <=> KeyRecorded(q)
  BY <1>1, <1>2, SameLedger
<1>5. StoreMatchesRows'
  BY <1>1, <1>2, <1>4 DEF StoreMatchesRows, TerminalPub
<1>6. \A q \in PubId : q \notin objects => q \notin objects'
  BY <1>1
<1>. QED  BY <1>1, <1>2, <1>3, <1>5, <1>6, StoreStepInv

-----------------------------------------------------------------------------
(* The sweep *)

\* One sweep moves on to the local state h: what h says must be sound.
LEMMA MoveInv ==
    ASSUME SweepInv, LedgerInv', UNCHANGED <<objects, writes, journal>>,
           cursor' \in 0..Len(journal), crashes' \in 0..CrashBound,
           updated' \in Seq(PubId), \A p \in PubId : RowEffect(p),
           NEW s \in Sweepers, NEW h \in SweepState, sw' = [sw EXCEPT ![s] = h],
           \A i \in 1..Len(h.todo) :
              IF h.stage = "cleanup"
              THEN pubs'[h.todo[i]].state \in TerminalPub
              ELSE writes[h.todo[i]] = "landed",
           h.phase # "next" => h.item \in PubId,
           h.phase = "abandon" => writes[h.item] = "landed",
           h.phase \in {"delete", "record"} => pubs'[h.item].state \in TerminalPub,
           h.phase = "record" => h.item \notin objects
    PROVE  SweepInv'
<1>1. sw \in [Sweepers -> SweepState]
  BY DEF SweepInv, SweepTypeOK
<1>2. sw' \in [Sweepers -> SweepState]
  BY <1>1
<1>3. sw'[s] = h /\ \A t \in Sweepers : t # s => sw'[t] = sw[t]
  BY <1>1
<1>4. HandIsSound(s)'
  BY <1>3 DEF HandIsSound
<1>5. SweepTypeOK'
  BY <1>2 DEF SweepInv, SweepTypeOK, LedgerInv
<1>6. StoreMatchesRows'
  BY StoreKept DEF SweepInv
<1>7. ASSUME NEW t \in Sweepers, t # s  PROVE HandIsSound(t)'
  <2>1. SweepTypeOK /\ HandIsSound(t) /\ sw'[t] = sw[t]
    BY <1>3, <1>7 DEF SweepInv
  <2>2. \A p \in PubId :
            /\ pubs[p].state \in TerminalPub => pubs'[p].state \in TerminalPub
            /\ writes[p] = "landed" => writes'[p] = "landed"
            /\ pubs[p].state \in TerminalPub /\ p \notin objects => p \notin objects'
    BY DEF RowEffect
  <2>. QED  BY <2>1, <2>2, HandStays
<1>. QED  BY <1>4, <1>5, <1>6, <1>7 DEF SweepInv

\* The same for a step that leaves the ledger alone.
LEMMA QuietMoveInv ==
    ASSUME SweepInv, UNCHANGED <<ledgerVars, objects, writes, journal, updated>>,
           cursor' \in 0..Len(journal), crashes' \in 0..CrashBound,
           NEW s \in Sweepers, NEW h \in SweepState, sw' = [sw EXCEPT ![s] = h],
           \A i \in 1..Len(h.todo) :
              IF h.stage = "cleanup"
              THEN pubs[h.todo[i]].state \in TerminalPub
              ELSE writes[h.todo[i]] = "landed",
           h.phase # "next" => h.item \in PubId,
           h.phase = "abandon" => writes[h.item] = "landed",
           h.phase \in {"delete", "record"} => pubs[h.item].state \in TerminalPub,
           h.phase = "record" => h.item \notin objects
    PROVE  SweepInv'
<1>1. LedgerInv' /\ pubs' = pubs
  BY SameLedger DEF SweepInv
<1>2. \A p \in PubId : RowEffect(p)
  BY <1>1, NoRowEffect
<1>3. updated' \in Seq(PubId)
  BY DEF SweepInv, SweepTypeOK
<1>. QED  BY <1>1, <1>2, <1>3, MoveInv

\* What is known of sweep s before it takes a step.
LEMMA HandFacts ==
    ASSUME SweepInv, NEW s \in Sweepers
    PROVE  /\ sw[s] \in SweepState
           /\ sw[s].todo \in Seq(PubId) /\ sw[s].seen \subseteq PubId
           /\ cursor \in 0..Len(journal) /\ crashes \in 0..CrashBound
           /\ Len(journal) \in Nat
           /\ Remaining(s) \in Int
           /\ \A i \in 1..Len(sw[s].todo) :
                IF sw[s].stage = "cleanup"
                THEN pubs[sw[s].todo[i]].state \in TerminalPub
                ELSE writes[sw[s].todo[i]] = "landed"
           /\ sw[s].phase # "next" => sw[s].item \in PubId
           /\ sw[s].phase = "abandon" => writes[sw[s].item] = "landed"
           /\ sw[s].phase \in {"delete", "record"} => pubs[sw[s].item].state \in TerminalPub
           /\ sw[s].phase = "record" => sw[s].item \notin objects
<1>1. SweepTypeOK /\ HandIsSound(s)
  BY DEF SweepInv
<1>2. sw[s] \in SweepState
  BY <1>1 DEF SweepTypeOK
<1>3. sw[s].todo \in Seq(PubId) /\ sw[s].seen \subseteq PubId
  BY <1>2 DEF SweepState
<1>4. Remaining(s) \in Int
  <2>1. IsFiniteSet(sw[s].seen)
    BY <1>3, PubIdFinite, FS_Subset
  <2>2. Cardinality(sw[s].seen) \in Nat
    BY <2>1, FS_CardinalityType
  <2>. QED  BY <2>2, SweepAssumption DEF Remaining
<1>5. Len(journal) \in Nat
  BY <1>1, LenProperties DEF SweepTypeOK
<1>. QED  BY <1>1, <1>2, <1>3, <1>4, <1>5 DEF SweepTypeOK, HandIsSound

\* An idle sweep is sound.
LEMMA IdleFacts ==
    /\ IdleSweep \in SweepState
    /\ IdleSweep.todo = <<>> /\ IdleSweep.phase = "next"
<1>1. <<>> \in Seq(PubId)
  BY EmptySeq
<1>. QED  BY <1>1 DEF IdleSweep, SweepState, Stages, Phases

\* A sweep that ends, in whatever way, is sound.
LEMMA GoIdleInv ==
    ASSUME SweepInv, NEW s \in Sweepers, sw' = [sw EXCEPT ![s] = IdleSweep],
           UNCHANGED <<ledgerVars, storeVars, updated>>, crashes' \in 0..CrashBound
    PROVE  SweepInv'
<1>1. cursor' \in 0..Len(journal) /\ UNCHANGED <<objects, writes, journal>>
  BY HandFacts DEF storeVars
<1>. DEFINE h == IdleSweep
<1>2. h \in SweepState /\ h.todo = <<>> /\ h.phase = "next" /\ sw' = [sw EXCEPT ![s] = h]
  BY IdleFacts
<1>. HIDE DEF h
<1>3. \A i \in 1..Len(h.todo) : FALSE
  BY <1>2, EmptySeq
<1>. QED  BY <1>1, <1>2, <1>3, QuietMoveInv

\* The members of a query's answer satisfy its WHERE clause.
LEMMA MembersOf ==
    ASSUME NEW A, NEW t \in Seq(A), NEW i \in 1..Len(t)
    PROVE  t[i] \in A
BY LenProperties, ElementOfSeq

\* cleanup_candidates answers with terminal rows only.
LEMMA CleanupCandidatesType ==
    ASSUME SweepInv, NEW n \in Nat
    PROVE  CleanupCandidates(n) \in Seq({p \in PubId : pubs[p].state \in TerminalPub})
<1>. DEFINE W == {p \in PubId : pubs[p].state \in TerminalPub /\ ~pubs[p].cleaned}
            T == {p \in PubId : pubs[p].state \in TerminalPub}
<1>1. Keep(updated, W) \in Seq(PubId \cap W)
  BY KeepType DEF SweepInv, SweepTypeOK
<1>2. Keep(updated, W) \in Seq(T)
  BY <1>1, SeqDef
<1>. QED  BY <1>2, FirstOfType DEF CleanupCandidates

\* orphan_keys_before answers with recorded keys, whose objects all landed.
LEMMA OrphanKeysType ==
    ASSUME SweepInv, NEW n \in Nat
    PROVE  OrphanKeys(n) \in Seq({p \in PubId : writes[p] = "landed"})
<1>. DEFINE W == {p \in PubId :
                    /\ KeyRecorded(p)
                    /\ pubs[p].state # "finalized"
                    /\ pubs[p].state \in {"rejected", "abandoned"} \/ LeaseEnded(p)}
            T == {p \in PubId : writes[p] = "landed"}
<1>1. Keep(updated, W) \in Seq(PubId \cap W)
  BY KeepType DEF SweepInv, SweepTypeOK
<1>2. PubId \cap W \subseteq T
  BY DEF SweepInv, StoreMatchesRows
<1>. HIDE DEF T
<1>3. Keep(updated, W) \in Seq(T)
  BY <1>1, <1>2, SeqDef
<1>. QED  BY <1>3, FirstOfType DEF OrphanKeys, T

\* inventory_page_before answers with objects that exist.
LEMMA InventoryPageType ==
    ASSUME SweepInv, NEW n \in Nat
    PROVE  /\ InventoryPage(n) \in Seq({p \in PubId : writes[p] = "landed"})
           /\ NextCursor(n) \in 0..Len(journal)
<1>. DEFINE W == {p \in objects : ~KeyRecorded(p)}
            T == {p \in PubId : writes[p] = "landed"}
            page == SubSeq(journal, cursor + 1, PageEnd(n))
<1>1. journal \in Seq(PubId) /\ cursor \in 0..Len(journal) /\ Len(journal) \in Nat
  BY LenProperties DEF SweepInv, SweepTypeOK
<1>2. PageEnd(n) \in 0..Len(journal) /\ NextCursor(n) \in 0..Len(journal)
  BY <1>1 DEF PageEnd, NextCursor
<1>3. page \in Seq(PubId)
  <2>1. cursor + 1 \in Int /\ PageEnd(n) \in Int
    BY <1>1, <1>2
  <2>2. \A i \in (cursor + 1)..PageEnd(n) : journal[i] \in PubId
    BY <1>1, <1>2, ElementOfSeq
  <2>. QED  BY <2>1, <2>2, SubSeqProperties
<1>. HIDE DEF page
<1>4. Keep(page, W) \in Seq(PubId \cap W)
  BY <1>3, KeepType
<1>5. PubId \cap W \subseteq T
  BY DEF SweepInv, StoreMatchesRows
<1>. HIDE DEF T
<1>6. Keep(page, W) \in Seq(T)
  BY <1>4, <1>5, SeqDef
<1>. QED  BY <1>2, <1>6 DEF InventoryPage, page, T

\* A sweep begins with the cleanup candidates.
LEMMA SweepStartInv ==
    ASSUME SweepInv, NEW s \in Sweepers, SweepStart(s)
    PROVE  SweepInv'
<1>. DEFINE c == CleanupCandidates(SweepLimit)
            T == {p \in PubId : pubs[p].state \in TerminalPub}
            h == [sw[s] EXCEPT !.stage = "cleanup", !.seen = {}, !.todo = c]
<1>1. c \in Seq(T)
  BY CleanupCandidatesType, SweepAssumption
<1>2. c \in Seq(PubId) /\ \A i \in 1..Len(c) : c[i] \in T
  BY <1>1, SeqDef, MembersOf
<1>3. sw' = [sw EXCEPT ![s] = h] /\ UNCHANGED <<ledgerVars, storeVars, updated, crashes>>
  BY DEF SweepStart
<1>4. sw[s] \in SweepState
  BY HandFacts
<1>. HIDE DEF c
<1>5. /\ h \in SweepState /\ h.stage = "cleanup" /\ h.todo = c
      /\ h.phase = sw[s].phase /\ h.item = sw[s].item
  BY <1>2, <1>4 DEF SweepState, Stages
<1>. HIDE DEF h
<1>6. UNCHANGED <<objects, writes, journal, cursor>>
  BY <1>3 DEF storeVars
<1>. QED  BY <1>2, <1>3, <1>5, <1>6, HandFacts, QuietMoveInv

\* It goes on with the orphan keys, while there is budget.
LEMMA SweepOrphansInv ==
    ASSUME SweepInv, NEW s \in Sweepers, SweepOrphans(s)
    PROVE  SweepInv'
<1>. DEFINE c == IF Remaining(s) > 0 THEN OrphanKeys(Remaining(s)) ELSE <<>>
            T == {p \in PubId : writes[p] = "landed"}
            h == [sw[s] EXCEPT !.stage = "orphans", !.todo = c]
<1>1. c \in Seq(T)
  <2>1. CASE Remaining(s) > 0
    <3>1. Remaining(s) \in Nat
      BY <2>1, HandFacts
    <3>. QED  BY <2>1, <3>1, OrphanKeysType
  <2>2. CASE ~(Remaining(s) > 0)
    BY <2>2, EmptySeq
  <2>. QED  BY <2>1, <2>2
<1>2. c \in Seq(PubId) /\ \A i \in 1..Len(c) : c[i] \in T
  BY <1>1, SeqDef, MembersOf
<1>3. sw' = [sw EXCEPT ![s] = h] /\ UNCHANGED <<ledgerVars, storeVars, updated, crashes>>
  BY DEF SweepOrphans
<1>4. sw[s] \in SweepState
  BY HandFacts
<1>. HIDE DEF c
<1>5. /\ h \in SweepState /\ h.stage = "orphans" /\ h.todo = c
      /\ h.phase = sw[s].phase /\ h.item = sw[s].item
  BY <1>2, <1>4 DEF SweepState, Stages
<1>. HIDE DEF h
<1>6. UNCHANGED <<objects, writes, journal, cursor>>
  BY <1>3 DEF storeVars
<1>. QED  BY <1>2, <1>3, <1>5, <1>6, HandFacts, QuietMoveInv

\* And with one page of the inventory, which moves the persistent cursor.
LEMMA SweepInventoryInv ==
    ASSUME SweepInv, NEW s \in Sweepers, SweepInventory(s)
    PROVE  SweepInv'
<1>0. UNCHANGED <<ledgerVars, objects, writes, journal, updated, crashes>>
  BY DEF SweepInventory
<1>1. CASE Remaining(s) <= 0 /\ sw' = [sw EXCEPT ![s] = IdleSweep] /\ UNCHANGED cursor
  <2>1. UNCHANGED <<ledgerVars, storeVars, updated>> /\ crashes' \in 0..CrashBound
    BY <1>0, <1>1, HandFacts DEF storeVars
  <2>. QED  BY <1>1, <2>1, GoIdleInv
<1>2. CASE /\ Remaining(s) > 0
           /\ sw' = [sw EXCEPT ![s].stage = "inventory",
                               ![s].todo = InventoryPage(Remaining(s))]
           /\ cursor' = NextCursor(Remaining(s))
  <2>. DEFINE c == InventoryPage(Remaining(s))
              T == {p \in PubId : writes[p] = "landed"}
              h == [sw[s] EXCEPT !.stage = "inventory", !.todo = c]
  <2>1. Remaining(s) \in Nat
    BY <1>2, HandFacts
  <2>2. c \in Seq(T) /\ cursor' \in 0..Len(journal)
    BY <1>2, <2>1, InventoryPageType
  <2>3. c \in Seq(PubId) /\ \A i \in 1..Len(c) : c[i] \in T
    BY <2>2, SeqDef, MembersOf
  <2>4. sw' = [sw EXCEPT ![s] = h]
    BY <1>2
  <2>5. sw[s] \in SweepState
    BY HandFacts
  <2>. HIDE DEF c
  <2>6. /\ h \in SweepState /\ h.stage = "inventory" /\ h.todo = c
        /\ h.phase = sw[s].phase /\ h.item = sw[s].item
    BY <2>3, <2>5 DEF SweepState, Stages
  <2>. HIDE DEF h
  <2>. QED  BY <1>0, <2>2, <2>3, <2>4, <2>6, HandFacts, QuietMoveInv
<1>. QED  BY <1>1, <1>2 DEF SweepInventory

\* The next item is read.  A landed write is all that is known of an orphan; the
\* state that is read now says whether it must be abandoned first.
LEMMA SweepNextInv ==
    ASSUME SweepInv, NEW s \in Sweepers, SweepNext(s)
    PROVE  SweepInv'
<1>. DEFINE g == sw[s]
            p == Head(g.todo)
            skip == g.stage # "cleanup" /\ (p \in g.seen \/ Remaining(s) <= 0)
            h0 == [g EXCEPT !.todo = Tail(@)]
            h1 == [g EXCEPT !.todo = Tail(@), !.item = p, !.v = pubs[p].version,
                            !.seen = @ \cup {p},
                            !.phase = IF NeedsAbandon(p) THEN "abandon" ELSE "delete"]
            h == IF skip THEN h0 ELSE h1
<1>1. /\ sw' = [sw EXCEPT ![s] = h] /\ g.phase = "next" /\ g.todo # <<>>
      /\ UNCHANGED <<ledgerVars, objects, writes, journal, cursor, updated, crashes>>
  <2>1. sw' = [sw EXCEPT ![s] = h]
    <3>1. CASE skip
      <4>1. sw' = [sw EXCEPT ![s] = h0]
        BY <3>1 DEF SweepNext
      <4>. QED  BY <3>1, <4>1
    <3>2. CASE ~skip
      <4>1. sw' = [sw EXCEPT ![s] = h1]
        BY <3>2 DEF SweepNext
      <4>. QED  BY <3>2, <4>1
    <3>. QED  BY <3>1, <3>2
  <2>. QED  BY <2>1 DEF SweepNext, storeVars
<1>2. /\ g \in SweepState /\ g.todo \in Seq(PubId)
      /\ \A i \in 1..Len(g.todo) :
            IF g.stage = "cleanup"
            THEN pubs[g.todo[i]].state \in TerminalPub
            ELSE writes[g.todo[i]] = "landed"
  BY HandFacts
<1>. HIDE DEF g
<1>3. p = g.todo[1] /\ p \in PubId /\ 1 \in 1..Len(g.todo)
  BY <1>1, <1>2, HeadTailProperties, LenProperties, EmptySeq
<1>. DEFINE t == Tail(g.todo)
<1>4. /\ t \in Seq(PubId)
      /\ \A i \in 1..Len(t) : i + 1 \in 1..Len(g.todo) /\ t[i] = g.todo[i + 1]
  <2>1. t \in Seq(PubId) /\ Len(t) = Len(g.todo) - 1 /\ \A i \in 1..Len(t) : t[i] = g.todo[i + 1]
    BY <1>1, <1>2, HeadTailProperties
  <2>2. Len(g.todo) \in Nat
    BY <1>2, LenProperties
  <2>. QED  BY <2>1, <2>2
<1>5. \A i \in 1..Len(t) : IF g.stage = "cleanup"
                           THEN pubs[t[i]].state \in TerminalPub
                           ELSE writes[t[i]] = "landed"
  BY <1>2, <1>4
<1>6. h0 \in SweepState /\ h0.todo = t /\ h0.stage = g.stage /\ h0.phase = "next"
  BY <1>1, <1>2, <1>4 DEF SweepState
<1>7. pubs[p].version \in Nat
  BY <1>3 DEF SweepInv, LedgerInv, LedgerTypeOK, PubRow
<1>. HIDE DEF p, t
<1>8. /\ h1 \in SweepState /\ h1.todo = t /\ h1.stage = g.stage /\ h1.item = p
      /\ h1.phase = IF NeedsAbandon(p) THEN "abandon" ELSE "delete"
  BY <1>2, <1>3, <1>4, <1>7 DEF SweepState, Phases, t
<1>9. h1.phase = "abandon" => writes[p] = "landed"
  BY <1>2, <1>3, <1>8 DEF NeedsAbandon
<1>10. h1.phase # "abandon" => h1.phase = "delete" /\ pubs[p].state \in TerminalPub
  BY <1>8 DEF NeedsAbandon
<1>11. /\ h \in SweepState /\ h.todo = t /\ h.stage = g.stage
       /\ h.phase # "next" => h.item \in PubId
       /\ h.phase = "abandon" => writes[h.item] = "landed"
       /\ h.phase \in {"delete", "record"} => pubs[h.item].state \in TerminalPub
       /\ h.phase # "record"
  <2>. HIDE DEF h0, h1, skip
  <2>. QED  BY <1>3, <1>6, <1>8, <1>9, <1>10
<1>. HIDE DEF h
<1>12. cursor' \in 0..Len(journal) /\ crashes' \in 0..CrashBound
  BY <1>1, HandFacts
<1>. QED  BY <1>1, <1>5, <1>11, <1>12, QuietMoveInv

\* The item in hand is abandoned, put into its grace or passed over.
LEMMA SweepAbandonInv ==
    ASSUME SweepInv, NEW s \in Sweepers, SweepAbandon(s)
    PROVE  SweepInv'
<1>. DEFINE g == sw[s]
            p == g.item
            v == g.v
            h0 == [g EXCEPT !.phase = "next"]
            h1 == [g EXCEPT !.phase = "delete", !.v = v + 1]
<1>1. /\ UNCHANGED <<objects, writes, journal, cursor, crashes>>
      /\ g.phase = "abandon" /\ Reordered
  BY DEF SweepAbandon, storeVars
<1>2. /\ g \in SweepState /\ g.todo \in Seq(PubId)
      /\ p \in PubId /\ writes[p] = "landed"
      /\ \A i \in 1..Len(g.todo) :
            IF g.stage = "cleanup"
            THEN pubs[g.todo[i]].state \in TerminalPub
            ELSE writes[g.todo[i]] = "landed"
  BY <1>1, HandFacts
<1>3. cursor' \in 0..Len(journal) /\ crashes' \in 0..CrashBound
  BY <1>1, HandFacts
<1>4. updated' \in Seq(PubId)
  BY <1>1, ReorderedType DEF SweepInv
<1>5. /\ \/ Abandon(p, v) /\ sw' = [sw EXCEPT ![s] = h1]
         \/ BeginGrace(p, v) /\ sw' = [sw EXCEPT ![s] = h0]
         \/ UNCHANGED ledgerVars /\ sw' = [sw EXCEPT ![s] = h0]
         \/ UNCHANGED ledgerVars /\ sw' = [sw EXCEPT ![s] = IdleSweep]
  BY DEF SweepAbandon
<1>6. v \in Nat
  BY <1>2 DEF SweepState
<1>. HIDE DEF p, v, g
<1>7. h0 \in SweepState /\ h0.todo = g.todo /\ h0.stage = g.stage /\ h0.phase = "next"
  BY <1>2 DEF SweepState, Phases
<1>8. /\ h1 \in SweepState /\ h1.todo = g.todo /\ h1.stage = g.stage
      /\ h1.phase = "delete" /\ h1.item = p
  <2>. DEFINE u == v + 1
  <2>1. u \in Nat
    BY <1>6
  <2>. HIDE DEF u
  <2>2. [g EXCEPT !.phase = "delete", !.v = u] \in SweepState
    BY <1>2, <2>1 DEF SweepState, Phases
  <2>. QED  BY <1>2, <2>2 DEF SweepState, u, p
<1>. HIDE DEF h0, h1
<1>9. ASSUME LedgerInv', \A q \in PubId : RowEffect(q), NEW h \in SweepState,
             sw' = [sw EXCEPT ![s] = h], h.todo = g.todo, h.stage = g.stage,
             h.phase \in {"next", "delete"},
             h.phase = "delete" => h.item = p /\ pubs'[p].state \in TerminalPub
      PROVE  SweepInv'
  <2>1. ASSUME NEW i \in 1..Len(h.todo)
        PROVE  IF h.stage = "cleanup"
               THEN pubs'[h.todo[i]].state \in TerminalPub
               ELSE writes[h.todo[i]] = "landed"
    <3>1. h.todo[i] \in PubId
      BY <1>2, <1>9, MembersOf
    <3>2. pubs[h.todo[i]].state \in TerminalPub => pubs'[h.todo[i]].state \in TerminalPub
      BY <1>9, <3>1 DEF RowEffect
    <3>. QED  BY <1>2, <1>9, <3>2
  <2>. QED  BY <1>1, <1>2, <1>3, <1>4, <1>9, <2>1, MoveInv
<1>10. CASE Abandon(p, v) /\ sw' = [sw EXCEPT ![s] = h1]
  <2>1. LedgerInv'
    BY <1>2, <1>10, AbandonInv DEF SweepInv
  <2>2. \A q \in PubId : RowEffect(q)
    BY <1>2, <1>10, CloseEffect
  <2>3. pubs'[p].state \in TerminalPub
    <3>1. pubs \in [PubId -> PubRow]
      BY DEF SweepInv, LedgerInv, LedgerTypeOK
    <3>2. pubs' = [pubs EXCEPT ![p].state = "abandoned", ![p].version = @ + 1]
      BY <1>10 DEF Abandon
    <3>. QED  BY <1>2, <3>1, <3>2 DEF PubRow, TerminalPub
  <2>. QED  BY <1>8, <1>9, <1>10, <2>1, <2>2, <2>3
<1>11. CASE BeginGrace(p, v) /\ sw' = [sw EXCEPT ![s] = h0]
  <2>1. LedgerInv' /\ \A q \in PubId : RowEffect(q)
    BY <1>2, <1>11, BeginGraceInv, BeginGraceEffect DEF SweepInv
  <2>. QED  BY <1>7, <1>9, <1>11, <2>1
<1>12. CASE UNCHANGED ledgerVars
  <2>1. LedgerInv' /\ \A q \in PubId : RowEffect(q)
    BY <1>12, SameLedger, NoRowEffect DEF SweepInv
  <2>2. CASE sw' = [sw EXCEPT ![s] = h0]
    BY <1>7, <1>9, <2>1, <2>2
  <2>3. CASE sw' = [sw EXCEPT ![s] = IdleSweep]
    <3>. DEFINE h == IdleSweep
    <3>1. h \in SweepState /\ h.todo = <<>> /\ h.phase = "next" /\ sw' = [sw EXCEPT ![s] = h]
      BY <2>3, IdleFacts
    <3>. HIDE DEF h
    <3>2. \A i \in 1..Len(h.todo) : FALSE
      BY <3>1, EmptySeq
    <3>. QED  BY <1>1, <1>3, <1>4, <2>1, <3>1, <3>2, MoveInv
  <2>. QED  BY <1>5, <1>10, <1>11, <2>2, <2>3
<1>. QED  BY <1>5, <1>10, <1>11, <1>12

\* The object of a terminal row is deleted.
LEMMA SweepDeleteInv ==
    ASSUME SweepInv, NEW s \in Sweepers, SweepDelete(s)
    PROVE  SweepInv'
<1>. DEFINE p == sw[s].item
            h == [sw[s] EXCEPT !.phase = "record"]
<1>1. /\ sw[s].phase = "delete" /\ objects' = objects \ {p}
      /\ sw' = [sw EXCEPT ![s] = h]
      /\ UNCHANGED <<ledgerVars, writes, journal, cursor, updated, crashes>>
  BY DEF SweepDelete, ObjectsWithout
<1>2. /\ SweepTypeOK /\ LedgerInv /\ StoreMatchesRows
      /\ sw \in [Sweepers -> SweepState] /\ sw[s] \in SweepState
  BY DEF SweepInv, SweepTypeOK
<1>3. p \in PubId /\ pubs[p].state \in TerminalPub
  BY <1>1, HandFacts
<1>4. /\ h \in SweepState /\ h.phase = "record" /\ h.item = p
      /\ h.todo = sw[s].todo /\ h.stage = sw[s].stage
  BY <1>2 DEF SweepState, Phases
<1>. HIDE DEF h, p
<1>5. sw' \in [Sweepers -> SweepState] /\ sw'[s] = h
      /\ \A t \in Sweepers : t # s => sw'[t] = sw[t]
  BY <1>1, <1>2, <1>4
<1>6. LedgerInv' /\ pubs' = pubs /\ \A q : KeyRecorded(q)' <=> KeyRecorded(q)
  BY <1>1, <1>2, SameLedger
<1>7. SweepTypeOK'
  BY <1>1, <1>2, <1>5, <1>6 DEF SweepTypeOK, LedgerInv
<1>8. StoreMatchesRows'
  BY <1>1, <1>2, <1>3, <1>6 DEF StoreMatchesRows
<1>9. HandIsSound(s)'
  <2>1. \A i \in 1..Len(h.todo) : IF h.stage = "cleanup"
                                  THEN pubs[h.todo[i]].state \in TerminalPub
                                  ELSE writes[h.todo[i]] = "landed"
    BY <1>4, HandFacts
  <2>. QED  BY <1>1, <1>3, <1>4, <1>5, <1>6, <2>1 DEF HandIsSound
<1>10. ASSUME NEW t \in Sweepers, t # s  PROVE HandIsSound(t)'
  <2>1. HandIsSound(t) /\ sw'[t] = sw[t]
    BY <1>5, <1>10 DEF SweepInv
  <2>2. \A q \in PubId : q \notin objects => q \notin objects'
    BY <1>1
  <2>. QED  BY <1>1, <1>2, <1>6, <2>1, <2>2, HandStays
<1>. QED  BY <1>6, <1>7, <1>8, <1>9, <1>10 DEF SweepInv

\* The evidence is written after the deletion.
LEMMA SweepRecordInv ==
    ASSUME SweepInv, NEW s \in Sweepers, SweepRecord(s)
    PROVE  SweepInv'
<1>. DEFINE g == sw[s]
            p == g.item
            v == g.v
            h == [g EXCEPT !.phase = "next"]
<1>1. /\ UNCHANGED <<objects, writes, journal, cursor, crashes>>
      /\ g.phase = "record" /\ Reordered /\ sw' = [sw EXCEPT ![s] = h]
      /\ RecordCleanup(p, v) \/ UNCHANGED ledgerVars
  BY DEF SweepRecord, storeVars
<1>2. /\ g \in SweepState /\ g.todo \in Seq(PubId)
      /\ p \in PubId /\ p \notin objects
      /\ \A i \in 1..Len(g.todo) :
            IF g.stage = "cleanup"
            THEN pubs[g.todo[i]].state \in TerminalPub
            ELSE writes[g.todo[i]] = "landed"
  BY <1>1, HandFacts
<1>3. cursor' \in 0..Len(journal) /\ crashes' \in 0..CrashBound
  BY <1>1, HandFacts
<1>4. updated' \in Seq(PubId)
  BY <1>1, ReorderedType DEF SweepInv
<1>. HIDE DEF p, v, g
<1>5. h \in SweepState /\ h.todo = g.todo /\ h.stage = g.stage /\ h.phase = "next"
  BY <1>2 DEF SweepState, Phases
<1>. HIDE DEF h
<1>6. LedgerInv' /\ \A q \in PubId : RowEffect(q)
  <2>1. CASE RecordCleanup(p, v)
    BY <1>2, <2>1, RecordCleanupInv, RecordCleanupEffect DEF SweepInv
  <2>2. CASE UNCHANGED ledgerVars
    BY <2>2, SameLedger, NoRowEffect DEF SweepInv
  <2>. QED  BY <1>1, <2>1, <2>2
<1>7. ASSUME NEW i \in 1..Len(h.todo)
      PROVE  IF h.stage = "cleanup"
             THEN pubs'[h.todo[i]].state \in TerminalPub
             ELSE writes[h.todo[i]] = "landed"
  <2>1. h.todo[i] \in PubId
    BY <1>2, <1>5, MembersOf
  <2>2. pubs[h.todo[i]].state \in TerminalPub => pubs'[h.todo[i]].state \in TerminalPub
    BY <1>6, <2>1 DEF RowEffect
  <2>. QED  BY <1>2, <1>5, <2>2
<1>. QED  BY <1>1, <1>3, <1>4, <1>5, <1>6, <1>7, MoveInv

\* A sweep that is over or dies forgets its hand.
LEMMA SweepStopInv ==
    ASSUME SweepInv, NEW s \in Sweepers, SweepEnd(s) \/ SweepCrash(s)
    PROVE  SweepInv'
<1>1. sw' = [sw EXCEPT ![s] = IdleSweep] /\ UNCHANGED <<ledgerVars, storeVars, updated>>
  BY DEF SweepEnd, SweepCrash
<1>2. crashes' \in 0..CrashBound
  <2>1. crashes \in 0..CrashBound
    BY HandFacts
  <2>. QED  BY <2>1, SweepAssumption DEF SweepEnd, SweepCrash
<1>. QED  BY <1>1, <1>2, GoIdleInv

-----------------------------------------------------------------------------
(* The theorems *)

\* The system starts with an empty store, idle sweeps and an empty ledger.
LEMMA SweepInitInv ==
    ASSUME SweepInit
    PROVE  SweepInv
<1>1. LedgerInv
  BY LedgerInitInv DEF SweepInit
<1>2. SweepTypeOK
  <2>1. LedgerTypeOK
    BY <1>1 DEF LedgerInv
  <2>2. <<>> \in Seq(PubId) /\ Len(<<>>) = 0
    BY EmptySeq
  <2>3. sw \in [Sweepers -> SweepState]
    BY IdleFacts DEF SweepInit
  <2>4. writes \in [PubId -> {"none", "open", "landed", "lost"}]
    BY DEF SweepInit
  <2>. QED  BY <2>1, <2>2, <2>3, <2>4, SweepAssumption DEF SweepInit, SweepTypeOK
<1>3. StoreMatchesRows
  <2>1. \A p \in PubId : pubs[p] = NoPub
    BY DEF SweepInit, LedgerInit
  <2>2. \A p \in PubId : ~KeyRecorded(p) /\ ~pubs[p].cleaned /\ pubs[p].state \notin TerminalPub
    BY <2>1 DEF KeyRecorded, NoPub, TerminalPub
  <2>. QED  BY <2>2 DEF StoreMatchesRows, SweepInit
<1>4. ASSUME NEW s \in Sweepers  PROVE HandIsSound(s)
  <2>1. sw[s].todo = <<>> /\ sw[s].phase = "next"
    BY IdleFacts DEF SweepInit
  <2>2. \A i \in 1..Len(sw[s].todo) : FALSE
    BY <2>1, EmptySeq
  <2>. QED  BY <2>1, <2>2 DEF HandIsSound
<1>. QED  BY <1>1, <1>2, <1>3, <1>4 DEF SweepInv

\* Every step of publishers, sweeps, the queue and the clock keeps the invariant.
LEMMA SweepNextStepInv ==
    ASSUME SweepInv, [SweepSysNext]_sysVars
    PROVE  SweepInv'
<1>1. CASE (QueueStep /\ UNCHANGED pubVars) /\ UNCHANGED sweepVars
  BY <1>1, QueueOrClockInv
<1>2. CASE ClockStep
  BY <1>2, QueueOrClockInv DEF ClockStep
<1>3. CASE PublisherStep
  <2>1. CASE PublisherLedgerStep
    BY <2>1, PublisherLedgerInv
  <2>2. ASSUME NEW p \in PubId,
               \/ StartWrite(p) \/ Land(p) \/ LoseWrite(p)
               \/ WinnerDelete(p) \/ WinnerRecordCleanup(p)
        PROVE  SweepInv'
    BY <2>2, StartWriteInv, LandInv, LoseWriteInv, WinnerDeleteInv, WinnerRecordCleanupInv
  <2>. QED  BY <1>3, <2>1, <2>2 DEF PublisherStep
<1>4. ASSUME NEW s \in Sweepers, SweepStep(s) \/ SweepCrash(s)  PROVE SweepInv'
  <2>1. CASE SweepStart(s)
    BY <2>1, SweepStartInv
  <2>2. CASE SweepOrphans(s)
    BY <2>2, SweepOrphansInv
  <2>3. CASE SweepInventory(s)
    BY <2>3, SweepInventoryInv
  <2>4. CASE SweepEnd(s) \/ SweepCrash(s)
    BY <2>4, SweepStopInv
  <2>5. CASE SweepNext(s)
    BY <2>5, SweepNextInv
  <2>6. CASE SweepAbandon(s)
    BY <2>6, SweepAbandonInv
  <2>7. CASE SweepDelete(s)
    BY <2>7, SweepDeleteInv
  <2>8. CASE SweepRecord(s)
    BY <2>8, SweepRecordInv
  <2>. QED  BY <1>4, <2>1, <2>2, <2>3, <2>4, <2>5, <2>6, <2>7, <2>8 DEF SweepStep
<1>5. CASE UNCHANGED sysVars
  <2>1. LedgerInv' /\ pubs' = pubs
    BY <1>5, SameLedger DEF SweepInv, sysVars
  <2>2. \A p \in PubId : RowEffect(p)
    BY <2>1, NoRowEffect
  <2>3. UNCHANGED <<storeVars, updated, sw, crashes>>
    BY <1>5 DEF sysVars, sweepVars, storeVars
  <2>4. updated' \in Seq(PubId) /\ sw' \in [Sweepers -> SweepState]
    BY <2>3 DEF SweepInv, SweepTypeOK
  <2>. QED  BY <2>1, <2>2, <2>3, <2>4, LedgerEffectInv
<1>. QED  BY <1>1, <1>2, <1>3, <1>4, <1>5 DEF SweepSysNext

\* Store, ledger and the hands of all sweeps agree in every reachable state,
\* whatever dies half way.
THEOREM SweepInvariance == SweepSpec => []SweepInv
<1>1. SweepInit => SweepInv
  BY SweepInitInv
<1>2. SweepInv /\ [SweepSysNext]_sysVars => SweepInv'
  BY SweepNextStepInv
<1>. QED  BY <1>1, <1>2, PTL DEF SweepSpec

\* No sweep takes an object away that a live attempt has recorded and not yet
\* promoted.
THEOREM ObjectsPresent == SweepSpec => []NeededObjectPresent
<1>1. SweepInv => NeededObjectPresent
  <2>. SUFFICES ASSUME SweepInv, NEW p \in PubId,
                       pubs[p].state \in {"object_written", "validated"}
                PROVE  p \in objects
    BY DEF NeededObjectPresent
  <2>1. pubs[p].digest \in Digests /\ pubs[p].state \notin TerminalPub
    BY DEF SweepInv, LedgerInv, OpenRowHasEvidence, TerminalPub
  <2>2. KeyRecorded(p)
    BY <2>1, DigestAssumption DEF KeyRecorded
  <2>. QED  BY <2>1, <2>2 DEF SweepInv, StoreMatchesRows
<1>. QED  BY <1>1, SweepInvariance, PTL

\* attempt_object_deleted_at is the truth, and stays it.
THEOREM EvidenceTrue == SweepSpec => []EvidenceIsTrue
<1>1. SweepInv => EvidenceIsTrue
  BY DEF SweepInv, StoreMatchesRows, EvidenceIsTrue
<1>. QED  BY <1>1, SweepInvariance, PTL

-----------------------------------------------------------------------------
(* The ledger under sweeps is the ledger *)

\* To the ledger, a step of the whole system is one of its own transactions or
\* nothing: a version kept in the hand of a sweep counts only while it is still
\* the version of the row.
LEMMA StepOfLedger ==
    ASSUME SweepInv, [SweepSysNext]_sysVars
    PROVE  [LedgerNext]_ledgerVars
<1>1. CASE (QueueStep /\ UNCHANGED pubVars) \/ ClockStep
  BY <1>1 DEF LedgerNext, ClockStep
<1>2. CASE PublisherStep
  <2>1. CASE PublisherLedgerStep
    <3>1. ASSUME NEW l \in Leases,
                 Finalize(l[1], l[2],
                     [k \in RequiredKinds[l[1]] |-> pubs[<<l[1], l[2], k>>].version])
          PROVE  LedgerStep
      <4>1. RequiredKinds[l[1]] \in SUBSET Kinds
        BY KindsAssumption DEF Leases
      <4>. QED  BY <3>1, <4>1 DEF LedgerStep
    <3>2. LedgerStep
      BY <2>1, <3>1 DEF PublisherLedgerStep, LedgerStep
    <3>. QED  BY <3>2 DEF LedgerNext
  <2>2. ASSUME NEW p \in PubId, StartWrite(p) \/ Land(p) \/ LoseWrite(p) \/ WinnerDelete(p)
        PROVE  UNCHANGED ledgerVars
    BY <2>2 DEF StartWrite, Land, LoseWrite, WinnerDelete
  <2>3. ASSUME NEW p \in PubId, WinnerRecordCleanup(p)  PROVE LedgerNext
    BY <2>3 DEF WinnerRecordCleanup, LedgerNext, LedgerStep
  <2>. QED  BY <1>2, <2>1, <2>2, <2>3 DEF PublisherStep
<1>3. ASSUME NEW s \in Sweepers, SweepAbandon(s)  PROVE [LedgerNext]_ledgerVars
  <2>. DEFINE p == sw[s].item
              v == sw[s].v
  <2>1. p \in PubId
    BY <1>3, HandFacts DEF SweepAbandon
  <2>2. Abandon(p, v) \/ BeginGrace(p, v) \/ UNCHANGED ledgerVars
    BY <1>3 DEF SweepAbandon
  <2>. HIDE DEF p, v
  <2>3. CASE Abandon(p, v) \/ BeginGrace(p, v)
    <3>1. v = pubs[p].version
      BY <2>3 DEF Abandon, BeginGrace, AtVersion
    <3>. QED  BY <2>1, <2>3, <3>1 DEF LedgerNext, LedgerStep
  <2>. QED  BY <2>2, <2>3
<1>4. ASSUME NEW s \in Sweepers, SweepRecord(s)  PROVE [LedgerNext]_ledgerVars
  <2>. DEFINE p == sw[s].item
              v == sw[s].v
  <2>1. p \in PubId
    BY <1>4, HandFacts DEF SweepRecord
  <2>2. RecordCleanup(p, v) \/ UNCHANGED ledgerVars
    BY <1>4 DEF SweepRecord
  <2>. HIDE DEF p, v
  <2>3. CASE RecordCleanup(p, v)
    <3>1. v = pubs[p].version
      BY <2>3 DEF RecordCleanup, AtVersion
    <3>. QED  BY <2>1, <2>3, <3>1 DEF LedgerNext, LedgerStep
  <2>. QED  BY <2>2, <2>3
<1>5. ASSUME NEW s \in Sweepers,
             \/ SweepStart(s) \/ SweepOrphans(s) \/ SweepInventory(s) \/ SweepEnd(s)
             \/ SweepNext(s) \/ SweepDelete(s) \/ SweepCrash(s)
      PROVE  UNCHANGED ledgerVars
  BY <1>5 DEF SweepStart, SweepOrphans, SweepInventory, SweepEnd, SweepNext,
              SweepDelete, SweepCrash
<1>6. CASE UNCHANGED sysVars
  BY <1>6 DEF sysVars
<1>. QED  BY <1>1, <1>2, <1>3, <1>4, <1>5, <1>6 DEF SweepSysNext, SweepStep

\* Publishers that work beside the object store, and sweeps that act on what
\* they read long ago, take only steps the ledger allows any caller: the whole
\* system implements Publication.
THEOREM SweepImplementsLedger == SweepSpec => LedgerSpec
<1>1. SweepInit => LedgerInit
  BY DEF SweepInit
<1>2. SweepInv /\ [SweepSysNext]_sysVars => [LedgerNext]_ledgerVars
  BY StepOfLedger
<1>. QED  BY <1>1, <1>2, SweepInvariance, PTL DEF SweepSpec, LedgerSpec

\* So no sweep can take from a client what the winner has shown it.
THEOREM ShownUnderSweeps == SweepSpec => VisibleForEver
BY SweepImplementsLedger, ShownForEver, PTL

\* And no sweep disturbs what a client is promised of its jobs.
THEOREM LifecycleUnderSweeps == SweepSpec => ImplementsLifecycle
BY SweepImplementsLedger, LedgerImplementsLifecycle, PTL

-----------------------------------------------------------------------------
(* What a ledger transaction leaves of a lease *)

\* The end of leases keeps the identity of every attempt.
LEMMA EndKeepsWorker ==
    ASSUME LQInv, NEW S \in SUBSET Jobs, NEW m \in 1..MaxAttempts,
           EndLeases(S, m), NEW j \in Jobs, NEW n \in 1..Len(attempts[j]),
           \A i \in S : jobs[i].state = "running"
    PROVE  attempts'[j][n].worker = attempts[j][n].worker
<1>1. CASE j \notin S
  BY <1>1 DEF EndLeases
<1>2. CASE j \in S
  <2>1. /\ attempts[j] \in Seq(AttemptRow) /\ Len(attempts[j]) \in Nat
        /\ attempts[j][n] \in AttemptRow /\ DOMAIN attempts[j] = 1..Len(attempts[j])
    BY AttemptsType, LenProperties DEF LQInv
  <2>2. attempts'[j] = [attempts[j] EXCEPT ![jobs[j].current].state = Outcome(j, m),
                                           ![jobs[j].current].ttl = 0]
    BY <1>2 DEF EndLeases
  <2>3. CASE n = jobs[j].current
    BY <2>1, <2>2, <2>3 DEF AttemptRow
  <2>4. CASE n # jobs[j].current
    BY <2>1, <2>2, <2>4
  <2>. QED  BY <2>3, <2>4
<1>. QED  BY <1>1, <1>2

\* No operation of the queue gives an attempt to another worker.
LEMMA QueueKeepsWorker ==
    ASSUME LQInv, [LQNext]_lqVars, NEW j \in Jobs, NEW n \in 1..Len(attempts[j])
    PROVE  attempts'[j][n].worker = attempts[j][n].worker
<1>. DEFINE Kept == attempts'[j][n].worker = attempts[j][n].worker
<1>0. /\ attempts \in [Jobs -> Seq(AttemptRow)] /\ attempts[j] \in Seq(AttemptRow)
      /\ Len(attempts[j]) \in Nat /\ attempts[j][n] \in AttemptRow
      /\ DOMAIN attempts[j] = 1..Len(attempts[j])
  BY AttemptsType, LenProperties DEF LQInv, LQTypeOK
<1>1. CASE UNCHANGED lqVars
  BY <1>1 DEF lqVars
<1>2. ASSUME NEW k \in Jobs, CreateJob(k) \/ RequestCancel(k) \/ ApiRequestCancel(k)
      PROVE  Kept
  BY <1>2 DEF CreateJob, RequestCancel, ApiRequestCancel
<1>3. ASSUME NEW w \in Workers, RegisterWorker(w)
      PROVE  Kept
  BY <1>3 DEF RegisterWorker
<1>4. ASSUME NEW w \in Workers, NEW k \in Jobs, NEW locked \in SUBSET Jobs,
             ClaimNext(w, k, locked)
      PROVE  Kept
  <2>1. Grant(w, k)
    BY <1>4 DEF ClaimNext
  <2>. DEFINE r == [worker |-> w, epoch |-> NextEpoch(k), state |-> "active",
                    ttl |-> LeaseSeconds]
  <2>2. attempts' = [attempts EXCEPT ![k] = Append(attempts[k], r)]
    BY <2>1 DEF Grant
  <2>. HIDE DEF r
  <2>3. attempts'[j][n] = attempts[j][n]
    BY <1>0, <2>2
  <2>. QED  BY <2>3
<1>5. ASSUME NEW k \in Jobs, NEW m \in Nat, Heartbeat(k, m)
      PROVE  Kept
  <2>1. attempts' = [attempts EXCEPT ![k][m].ttl = LeaseSeconds]
    BY <1>5 DEF Heartbeat
  <2>2. CASE k = j /\ m = n
    BY <1>0, <2>1, <2>2 DEF AttemptRow
  <2>3. CASE ~(k = j /\ m = n)
    BY <1>0, <2>1, <2>3
  <2>. QED  BY <2>2, <2>3
<1>6. ASSUME NEW k \in Jobs, NEW i, NEW m \in {1, MaxAttempts},
             CancelCurrent(k, i) \/ FailRetryable(k, i, m)
      PROVE  Kept
  <2>1. {k} \in SUBSET Jobs /\ m \in 1..MaxAttempts /\ 1 \in 1..MaxAttempts
    BY LimitAssumption
  <2>2. PICK b \in 1..MaxAttempts : EndLeases({k}, b)
    BY <1>6, <2>1 DEF CancelCurrent, FailRetryable
  <2>3. \A l \in {k} : jobs[l].state = "running"
    BY <1>6 DEF CancelCurrent, FailRetryable, LockCurrent
  <2>. QED  BY <2>1, <2>2, <2>3, EndKeepsWorker
<1>7. ASSUME NEW batch \in SUBSET Jobs, ReapExpired(batch)
      PROVE  Kept
  <2>1. EndLeases(batch, MaxAttempts) /\ MaxAttempts \in 1..MaxAttempts
    BY <1>7, LimitAssumption DEF ReapExpired
  <2>2. \A l \in batch : jobs[l].state = "running"
    BY <1>7 DEF ReapExpired, Expired, LockCurrent
  <2>. QED  BY <2>1, <2>2, EndKeepsWorker
<1>8. CASE Tick
  <2>1. attempts'[j] = [i \in 1..Len(attempts[j]) |->
                            [attempts[j][i] EXCEPT !.ttl = Before(@)]]
    BY <1>8 DEF Tick
  <2>. QED  BY <1>0, <2>1 DEF AttemptRow
<1>9. ASSUME NEW l \in Leases, Heartbeat(l[1], l[2])  PROVE Kept
  <2>1. l[1] \in Jobs /\ l[2] \in Nat
    BY LimitAssumption DEF Leases
  <2>. QED  BY <1>5, <1>9, <2>1
<1>10. ASSUME NEW l \in Leases, NEW m \in {1, MaxAttempts},
              CancelCurrent(l[1], l[2]) \/ FailRetryable(l[1], l[2], m)
       PROVE  Kept
  <2>1. l[1] \in Jobs
    BY DEF Leases
  <2>. QED  BY <1>6, <1>10, <2>1
<1>. QED  BY <1>1, <1>2, <1>3, <1>4, <1>7, <1>8, <1>9, <1>10 DEF LQNext, QueueStep

\* A lease that was granted stays granted to its worker, and one that is over
\* stays over, whatever transaction of the ledger or the queue commits.
LEMMA LeaseKept ==
    ASSUME LedgerInv, [LedgerNext]_ledgerVars, NEW l \in Leases
    PROVE  /\ l \in Leases'
           /\ attempts'[l[1]][l[2]].worker = attempts[l[1]][l[2]].worker
           /\ ~LeaseCurrent(l[1], l[2]) => ~LeaseCurrent(l[1], l[2])'
<1>1. l[1] \in Jobs /\ l[2] \in 1..MaxAttempts /\ l[2] \in 1..Len(attempts[l[1]])
      /\ l \in Jobs \X (1..MaxAttempts)
  BY DEF Leases, Granted
<1>2. LQInv /\ LQInv'
  BY LedgerNextInv DEF LedgerInv
<1>3. Len(attempts[l[1]]) \in Nat /\ Len(attempts'[l[1]]) \in Nat
  BY <1>1, <1>2, LenProperties DEF LQInv, LQTypeOK
<1>4. CASE [LQNext]_lqVars
  <2>1. Len(attempts[l[1]]) <= Len(attempts'[l[1]])
    BY <1>1, <1>2, <1>4, QueueKeepsWinner
  <2>2. l[2] \in 1..Len(attempts'[l[1]])
    BY <1>1, <1>3, <2>1
  <2>3. l \in Leases'
    BY <1>1, <2>2 DEF Leases, Granted
  <2>4. attempts'[l[1]][l[2]].worker = attempts[l[1]][l[2]].worker
    BY <1>1, <1>2, <1>4, QueueKeepsWorker
  <2>5. LeaseCurrent(l[1], l[2])' => LeaseCurrent(l[1], l[2])
    BY <1>1, <1>2, <1>4, StepMakesNone
  <2>. QED  BY <2>3, <2>4, <2>5
<1>5. ASSUME NEW k \in Jobs, NEW i, NEW vs, Finalize(k, i, vs)
      PROVE  /\ l \in Leases'
             /\ attempts'[l[1]][l[2]].worker = attempts[l[1]][l[2]].worker
             /\ ~LeaseCurrent(l[1], l[2]) => ~LeaseCurrent(l[1], l[2])'
  <2>1. /\ \A h \in Jobs : h # k => attempts'[h] = attempts[h]
        /\ Len(attempts'[k]) = Len(attempts[k])
    BY <1>5, FinalizeQueue
  <2>2. l \in Leases'
    BY <1>1, <2>1 DEF Leases, Granted
  <2>3. attempts'[l[1]][l[2]].worker = attempts[l[1]][l[2]].worker
    <3>1. /\ attempts \in [Jobs -> Seq(AttemptRow)] /\ attempts[l[1]] \in Seq(AttemptRow)
          /\ attempts[l[1]][l[2]] \in AttemptRow
          /\ DOMAIN attempts[l[1]] = 1..Len(attempts[l[1]])
      BY <1>1, <1>2, AttemptsType, LenProperties DEF LQInv, LQTypeOK
    <3>2. attempts' = [attempts EXCEPT ![k][i].state = "succeeded", ![k][i].ttl = 0]
      BY <1>5 DEF Finalize
    <3>3. CASE l[1] = k /\ l[2] = i
      BY <1>1, <3>1, <3>2, <3>3 DEF AttemptRow
    <3>4. CASE ~(l[1] = k /\ l[2] = i)
      BY <1>1, <3>1, <3>2, <3>4
    <3>. QED  BY <3>3, <3>4
  <2>4. LeaseCurrent(l[1], l[2])' => LeaseCurrent(l[1], l[2])
    BY <1>1, <1>5, FinalizeMakesNone
  <2>. QED  BY <2>2, <2>3, <2>4
<1>6. \/ [LQNext]_lqVars
      \/ \E k \in Jobs : \E i, vs : Finalize(k, i, vs)
  <2>1. CASE UNCHANGED ledgerVars
    BY <2>1 DEF ledgerVars, lqVars
  <2>2. CASE QueueStep /\ UNCHANGED pubVars
    BY <2>2 DEF LQNext
  <2>3. CASE LedgerTick
    BY <2>3 DEF LedgerTick, LQNext
  <2>4. CASE LedgerStep
    <3>1. ASSUME NEW p \in PubId, NEW v, NEW d,
                 \/ Reserve(p) \/ RecordObject(p, v, d) \/ RecordValidated(p, v, d)
                 \/ Reject(p, v) \/ BeginGrace(p, v) \/ Abandon(p, v) \/ RecordCleanup(p, v)
          PROVE  UNCHANGED lqVars
      BY <3>1 DEF Reserve, RecordObject, RecordValidated, Reject, BeginGrace, Abandon,
                  RecordCleanup
    <3>2. ASSUME NEW m \in Leases, NEW S, Finalize(m[1], m[2], [k \in S |-> pubs[<<m[1], m[2], k>>].version])
          PROVE  \E k \in Jobs : \E i, vs : Finalize(k, i, vs)
      <4>1. m[1] \in Jobs
        BY DEF Leases
      <4>. QED  BY <3>2, <4>1
    <3>. QED  BY <2>4, <3>1, <3>2 DEF LedgerStep
  <2>. QED  BY <2>1, <2>2, <2>3, <2>4 DEF LedgerNext
<1>. QED  BY <1>4, <1>5, <1>6

-----------------------------------------------------------------------------
(* Processes *)

ProcSound(w) == OwnsLease(w) /\ KnowsLeaseEnd(w) /\ CarriesOutput(w)

\* The result of the lease of u and what the ledger knows of it stay as they are.
OutputKept(u) ==
    /\ made'[Lease(u)] = made[Lease(u)]
    /\ \A k \in Kinds :
        LET p == <<proc[u].job, proc[u].n, k>>
        IN  pubs'[p].digest = pubs[p].digest /\ pubs'[p].blob = pubs[p].blob

\* What WorkInv says of process w.
LEMMA ProcFacts ==
    ASSUME WorkInv, NEW w \in Workers
    PROVE  /\ proc[w] \in Proc /\ mon[w] \in Monitor
           /\ OwnsLease(w) /\ KnowsLeaseEnd(w) /\ CarriesOutput(w)
           /\ proc[w].n # NoAttempt =>
                /\ Lease(w) \in Leases
                /\ Lease(w)[1] = proc[w].job /\ Lease(w)[2] = proc[w].n
                /\ proc[w].job \in Jobs /\ proc[w].n \in 1..MaxAttempts
                /\ Granted(proc[w].job, proc[w].n)
                /\ attempts[proc[w].job][proc[w].n].worker = w
                /\ Lease(w) \in Jobs \X (1..MaxAttempts)
                /\ \A k \in Kinds : <<proc[w].job, proc[w].n, k>> \in PubId
                /\ Pub(w) \in PubId
           /\ proc[w].pc \notin {"dead", "down", "idle"} => proc[w].n # NoAttempt
           /\ mon[w] # "off" => proc[w].pc \in Publishing
<1>1. /\ proc[w] \in Proc /\ mon[w] \in Monitor
      /\ OwnsLease(w) /\ KnowsLeaseEnd(w) /\ CarriesOutput(w)
  BY DEF WorkInv, WorkerTypeOK
<1>2. ASSUME proc[w].n # NoAttempt
      PROVE  /\ Lease(w) \in Leases
             /\ Lease(w)[1] = proc[w].job /\ Lease(w)[2] = proc[w].n
             /\ proc[w].job \in Jobs /\ proc[w].n \in 1..MaxAttempts
             /\ Granted(proc[w].job, proc[w].n)
             /\ attempts[proc[w].job][proc[w].n].worker = w
             /\ Lease(w) \in Jobs \X (1..MaxAttempts)
             /\ \A k \in Kinds : <<proc[w].job, proc[w].n, k>> \in PubId
             /\ Pub(w) \in PubId
  <2>1. Lease(w) \in Leases /\ attempts[proc[w].job][proc[w].n].worker = w
    BY <1>1, <1>2 DEF OwnsLease
  <2>2. /\ Lease(w)[1] = proc[w].job /\ Lease(w)[2] = proc[w].n
        /\ proc[w].job \in Jobs /\ proc[w].n \in 1..MaxAttempts
        /\ Granted(proc[w].job, proc[w].n)
        /\ Lease(w) \in Jobs \X (1..MaxAttempts)
    BY <2>1 DEF Leases, Lease
  <2>. QED  BY <2>1, <2>2, OutputAssumption DEF PubId, Pub
<1>. QED  BY <1>1, <1>2 DEF OwnsLease

\* Two processes never hold the same lease, not even one that is over.
LEMMA Apart ==
    ASSUME WorkInv, NEW u \in Workers, NEW w \in Workers, u # w,
           proc[u].n # NoAttempt, proc[w].n # NoAttempt
    PROVE  Lease(u) # Lease(w)
<1>1. /\ Lease(u)[1] = proc[u].job /\ Lease(u)[2] = proc[u].n
      /\ attempts[proc[u].job][proc[u].n].worker = u
  BY ProcFacts
<1>2. /\ Lease(w)[1] = proc[w].job /\ Lease(w)[2] = proc[w].n
      /\ attempts[proc[w].job][proc[w].n].worker = w
  BY ProcFacts
<1>. QED  BY <1>1, <1>2

\* A process that does not move stays sound.
LEMMA Still ==
    ASSUME WorkInv, [LedgerNext]_ledgerVars, canon \subseteq canon',
           NEW u \in Workers, proc'[u] = proc[u], mon'[u] = mon[u],
           proc[u].n # NoAttempt => OutputKept(u)
    PROVE  ProcSound(u)'
<1>1. LedgerInv
  BY DEF WorkInv
<1>2. Lease(u)' = Lease(u)
  BY DEF Lease
<1>3. proc[u].n # NoAttempt =>
        /\ Lease(u) \in Leases'
        /\ attempts'[proc[u].job][proc[u].n].worker = u
        /\ ~Mine(u) => ~LeaseCurrent(proc[u].job, proc[u].n)'
  BY <1>1, LeaseKept, ProcFacts DEF Mine
<1>4. OwnsLease(u)'
  BY <1>2, <1>3, ProcFacts DEF OwnsLease
<1>5. KnowsLeaseEnd(u)'
  <2>1. BelievesLeaseOver(u)' => BelievesLeaseOver(u)
    BY DEF BelievesLeaseOver
  <2>2. BelievesLeaseOver(u) => proc[u].n # NoAttempt
    BY DEF BelievesLeaseOver
  <2>3. Mine(u)' <=> LeaseCurrent(proc[u].job, proc[u].n)'
    BY DEF Mine
  <2>. QED  BY <1>3, <2>1, <2>2, <2>3, ProcFacts DEF KnowsLeaseEnd
<1>6. CarriesOutput(u)'
  <2>1. proc[u].pc \in Producing \/ proc[u].pc = "record_validated" \/ Executing(u) =>
            proc[u].n # NoAttempt
    BY ProcFacts DEF Producing, Executing, Streaming
  <2>2. CASE proc[u].n = NoAttempt
    BY <1>2, <2>1, <2>2 DEF CarriesOutput, Executing
  <2>3. CASE proc[u].n # NoAttempt
    <3>1. OutputKept(u)
      BY <2>3
    <3>2. CarriesOutput(u)
      BY ProcFacts
    <3>. QED  BY <1>2, <3>1, <3>2 DEF CarriesOutput, OutputKept, Executing
  <2>. QED  BY <2>2, <2>3
<1>. QED  BY <1>4, <1>5, <1>6 DEF ProcSound

\* Process w moves to h and its monitor to m; both say the truth and all other
\* leases keep their outputs.
LEMMA ActInv ==
    ASSUME WorkInv, [LedgerNext]_ledgerVars, RowIsOwnOutput',
           canon \subseteq canon', canon' \subseteq Digests,
           made' \in [Jobs \X (1..MaxAttempts) -> Digests \cup {NoDigest}],
           NEW w \in Workers, NEW h \in Proc, NEW m \in Monitor,
           proc' = [proc EXCEPT ![w] = h], mon' = [mon EXCEPT ![w] = m],
           \A u \in Workers : u # w /\ proc[u].n # NoAttempt => OutputKept(u),
           ProcSound(w)'
    PROVE  WorkInv'
<1>1. LedgerInv' /\ LedgerTypeOK'
  BY LedgerNextInv DEF WorkInv, LedgerInv
<1>2. proc \in [Workers -> Proc] /\ mon \in [Workers -> Monitor]
  BY DEF WorkInv, WorkerTypeOK
<1>3. proc' \in [Workers -> Proc] /\ mon' \in [Workers -> Monitor]
  BY <1>2
<1>4. WorkerTypeOK'
  BY <1>1, <1>3 DEF WorkerTypeOK
<1>5. ASSUME NEW u \in Workers  PROVE ProcSound(u)'
  <2>1. CASE u # w
    <3>1. proc'[u] = proc[u] /\ mon'[u] = mon[u]
      BY <1>2, <2>1
    <3>. QED  BY <2>1, <3>1, Still
  <2>. QED  BY <2>1
<1>. QED  BY <1>1, <1>4, <1>5 DEF WorkInv, ProcSound

\* When all leases keep their outputs, all rows keep naming them.
LEMMA RowsKept ==
    ASSUME WorkInv, [LedgerNext]_ledgerVars, canon \subseteq canon', made' = made,
           \A p \in PubId : /\ pubs'[p].digest = pubs[p].digest
                            /\ pubs'[p].blob = pubs[p].blob
                            /\ pubs'[p].stale = pubs[p].stale
    PROVE  /\ RowIsOwnOutput'
           /\ \A u \in Workers : proc[u].n # NoAttempt => OutputKept(u)
           /\ made' \in [Jobs \X (1..MaxAttempts) -> Digests \cup {NoDigest}]
<1>1. LedgerInv /\ RowIsOwnOutput
  BY DEF WorkInv
<1>2. ASSUME NEW p \in PubId
      PROVE  /\ pubs'[p].digest # NoDigest =>
                Granted(p[1], p[2])' /\ pubs'[p].digest = made'[<<p[1], p[2]>>]
             /\ pubs'[p].blob # NoDigest =>
                /\ Granted(p[1], p[2])' /\ pubs'[p].blob = made'[<<p[1], p[2]>>]
                /\ pubs'[p].blob \in canon'
             /\ pubs'[p].stale = NotStale
  <2>1. p[1] \in Jobs /\ p[2] \in 1..MaxAttempts
    BY PubParts
  <2>2. Granted(p[1], p[2]) => Granted(p[1], p[2])'
    <3>. DEFINE l == <<p[1], p[2]>>
    <3>1. l[1] = p[1] /\ l[2] = p[2] /\ (Granted(p[1], p[2]) => l \in Leases)
      BY <2>1 DEF Leases
    <3>. HIDE DEF l
    <3>2. l \in Leases => l \in Leases'
      BY <1>1, LeaseKept
    <3>. QED  BY <3>1, <3>2 DEF Leases
  <2>3. /\ pubs[p].digest # NoDigest =>
            Granted(p[1], p[2]) /\ pubs[p].digest = made[<<p[1], p[2]>>]
        /\ pubs[p].blob # NoDigest =>
            /\ Granted(p[1], p[2]) /\ pubs[p].blob = made[<<p[1], p[2]>>]
            /\ pubs[p].blob \in canon
        /\ pubs[p].stale = NotStale
    BY <1>1 DEF RowIsOwnOutput
  <2>. QED  BY <2>2, <2>3
<1>3. RowIsOwnOutput'
  BY <1>2 DEF RowIsOwnOutput
<1>4. ASSUME NEW u \in Workers, proc[u].n # NoAttempt  PROVE OutputKept(u)
  BY <1>4, ProcFacts DEF OutputKept
<1>. QED  BY <1>3, <1>4 DEF WorkInv, WorkerTypeOK

\* h says that its lease is over.
SaysOver(h, m) ==
    \/ m = "lost" \/ h.pc \in {"stopped", "cleanup"}
    \/ h.pc \in {"down", "idle"} /\ ~h.skipped

\* A process that moves on with its lease is sound if h and m are.
LEMMA MovedSound ==
    ASSUME WorkInv, [LedgerNext]_ledgerVars,
           NEW w \in Workers, NEW h \in Proc, NEW m \in Monitor,
           proc'[w] = h, mon'[w] = m, proc[w].n # NoAttempt,
           h.job = proc[w].job, h.n = proc[w].n,
           m # "off" => h.pc \in Publishing,
           SaysOver(h, m) => ~Mine(w) \/ ~LeaseCurrent(h.job, h.n)',
           h.pc \in Producing => made'[Lease(w)] \in Digests,
           h.pc = "record_validated" => made'[Lease(w)] \in canon',
           h.pc \in {"claimed", "deployed", "evidence", "invoke"} =>
                Executing(w) /\ OutputKept(w)
    PROVE  ProcSound(w)'
<1>1. LedgerInv
  BY DEF WorkInv
<1>2. Lease(w)' = Lease(w)
  BY DEF Lease
<1>3. /\ Lease(w) \in Leases'
      /\ attempts'[proc[w].job][proc[w].n].worker = w
      /\ ~Mine(w) => ~LeaseCurrent(proc[w].job, proc[w].n)'
  BY <1>1, LeaseKept, ProcFacts DEF Mine
<1>4. OwnsLease(w)'
  BY <1>2, <1>3 DEF OwnsLease
<1>5. KnowsLeaseEnd(w)'
  <2>1. BelievesLeaseOver(w)' => SaysOver(h, m)
    BY DEF BelievesLeaseOver, SaysOver
  <2>2. Mine(w)' <=> LeaseCurrent(h.job, h.n)'
    BY DEF Mine
  <2>3. ~Mine(w) => ~LeaseCurrent(h.job, h.n)'
    BY <1>3
  <2>. QED  BY <2>1, <2>2, <2>3 DEF KnowsLeaseEnd
<1>6. CarriesOutput(w)'
  <2>1. Executing(w)' => Executing(w) /\ OutputKept(w)
    BY DEF Executing
  <2>2. CarriesOutput(w)
    BY ProcFacts
  <2>. QED  BY <1>2, <2>1, <2>2 DEF CarriesOutput, OutputKept
<1>. QED  BY <1>4, <1>5, <1>6 DEF ProcSound

\* A step of one process that no other process and no row of the ledger sees.
LEMMA LocalInv ==
    ASSUME WorkInv, UNCHANGED <<ledgerVars, made>>,
           canon \subseteq canon', canon' \subseteq Digests,
           NEW w \in Workers, NEW h \in Proc, NEW m \in Monitor,
           proc' = [proc EXCEPT ![w] = h], mon' = [mon EXCEPT ![w] = m],
           proc[w].n # NoAttempt, h.job = proc[w].job, h.n = proc[w].n,
           m # "off" => h.pc \in Publishing,
           SaysOver(h, m) => ~Mine(w),
           h.pc \in Producing => made[Lease(w)] \in Digests,
           h.pc = "record_validated" => made[Lease(w)] \in canon',
           h.pc \in {"claimed", "deployed", "evidence", "invoke"} => Executing(w)
    PROVE  WorkInv'
<1>1. pubs' = pubs /\ made' = made
  BY DEF ledgerVars
<1>2. /\ RowIsOwnOutput'
      /\ \A u \in Workers : proc[u].n # NoAttempt => OutputKept(u)
      /\ made' \in [Jobs \X (1..MaxAttempts) -> Digests \cup {NoDigest}]
  BY <1>1, RowsKept
<1>3. proc'[w] = h /\ mon'[w] = m
  BY DEF WorkInv, WorkerTypeOK
<1>4. ProcSound(w)'
  BY <1>1, <1>2, <1>3, MovedSound
<1>. QED  BY <1>2, <1>4, ActInv

\* A process without a lease is sound.
LEMMA DropInv ==
    ASSUME WorkInv, [LedgerNext]_ledgerVars, UNCHANGED <<pubVars, canon, made>>,
           NEW w \in Workers, NEW pc \in {"dead", "down", "idle"},
           proc' = [proc EXCEPT ![w] = NewProc(pc)], mon' = [mon EXCEPT ![w] = "off"]
    PROVE  WorkInv'
<1>. DEFINE h == NewProc(pc)
<1>1. h \in Proc /\ h.pc = pc /\ h.n = NoAttempt
  BY DEF NewProc, Proc, PC, NoAttempt
<1>2. proc' = [proc EXCEPT ![w] = h]
  OBVIOUS
<1>. HIDE DEF h
<1>3. /\ pubs' = pubs /\ made' = made
      /\ canon \subseteq canon' /\ canon' \subseteq Digests /\ "off" \in Monitor
  BY DEF pubVars, WorkInv, WorkerTypeOK, Monitor
<1>4. /\ RowIsOwnOutput'
      /\ \A u \in Workers : proc[u].n # NoAttempt => OutputKept(u)
      /\ made' \in [Jobs \X (1..MaxAttempts) -> Digests \cup {NoDigest}]
  BY <1>3, RowsKept
<1>5. proc'[w] = h /\ mon'[w] = "off"
  BY <1>2 DEF WorkInv, WorkerTypeOK
<1>6. ProcSound(w)'
  <2>1. OwnsLease(w)'
    BY <1>1, <1>5 DEF OwnsLease
  <2>2. KnowsLeaseEnd(w)'
    BY <1>1, <1>5 DEF KnowsLeaseEnd, BelievesLeaseOver
  <2>3. CarriesOutput(w)'
    BY <1>1, <1>5 DEF CarriesOutput, Executing, Producing, Streaming
  <2>. QED  BY <2>1, <2>2, <2>3 DEF ProcSound
<1>. QED  BY <1>1, <1>2, <1>3, <1>4, <1>6, ActInv

\* The three ways in which a process that keeps its lease changes.
LEMMA GotoForm ==
    ASSUME WorkInv, NEW w \in Workers, NEW pc \in PC, Goto(w, pc)
    PROVE  \E h \in Proc : /\ proc' = [proc EXCEPT ![w] = h]
                           /\ h.pc = pc /\ h.job = proc[w].job /\ h.n = proc[w].n
                           /\ h.skipped = proc[w].skipped
<1>. DEFINE h == [proc[w] EXCEPT !.pc = pc, !.check = "assert"]
<1>1. proc[w] \in Proc
  BY ProcFacts
<1>2. proc' = [proc EXCEPT ![w] = h]
  BY DEF Goto
<1>3. /\ h \in Proc /\ h.pc = pc /\ h.job = proc[w].job /\ h.n = proc[w].n
      /\ h.skipped = proc[w].skipped
  BY <1>1 DEF Proc
<1>. HIDE DEF h
<1>. QED  BY <1>2, <1>3

\* A publication that fails goes to its failure handler.
LEMMA FailingForm ==
    ASSUME WorkInv, NEW w \in Workers, NEW f \in BOOLEAN, Failing(w, f)
    PROVE  \E h \in Proc : /\ proc' = [proc EXCEPT ![w] = h]
                           /\ h.pc = "failing" /\ h.job = proc[w].job /\ h.n = proc[w].n
<1>. DEFINE h == [proc[w] EXCEPT !.pc = "failing", !.check = "assert", !.final = f]
<1>1. proc[w] \in Proc
  BY ProcFacts
<1>2. proc' = [proc EXCEPT ![w] = h]
  BY DEF Failing
<1>3. h \in Proc /\ h.pc = "failing" /\ h.job = proc[w].job /\ h.n = proc[w].n
  BY <1>1 DEF Proc, PC
<1>. HIDE DEF h
<1>. QED  BY <1>2, <1>3

\* An exception leaves run_once.
LEMMA LeavesForm ==
    ASSUME WorkInv, NEW w \in Workers, NEW b \in BOOLEAN, Leaves(w, b)
    PROVE  \E h \in Proc : /\ proc' = [proc EXCEPT ![w] = h]
                           /\ mon' = [mon EXCEPT ![w] = "off"]
                           /\ h.pc = "down" /\ h.job = proc[w].job /\ h.n = proc[w].n
                           /\ h.skipped = b
<1>. DEFINE h == [NewProc("down") EXCEPT !.job = proc[w].job, !.n = proc[w].n, !.skipped = b]
<1>1. proc[w] \in Proc
  BY ProcFacts
<1>2. proc' = [proc EXCEPT ![w] = h] /\ mon' = [mon EXCEPT ![w] = "off"]
  BY DEF Leaves
<1>3. NewProc("down") \in Proc
  BY DEF NewProc, Proc, PC, NoAttempt
<1>4. h \in Proc /\ h.pc = "down" /\ h.job = proc[w].job /\ h.n = proc[w].n /\ h.skipped = b
  BY <1>1, <1>3 DEF Proc, NewProc
<1>. HIDE DEF h
<1>. QED  BY <1>2, <1>4

\* A process that goes to another stage without touching the ledger.
LEMMA GotoInv ==
    ASSUME WorkInv, UNCHANGED <<ledgerVars, made>>,
           canon \subseteq canon', canon' \subseteq Digests,
           NEW w \in Workers, proc[w].n # NoAttempt,
           NEW pc \in PC, Goto(w, pc),
           NEW m \in Monitor, mon' = [mon EXCEPT ![w] = m],
           m # "off" => pc \in Publishing,
           m = "lost" \/ pc \in {"stopped", "cleanup", "down", "idle"} => ~Mine(w),
           pc \in Producing => made[Lease(w)] \in Digests,
           pc = "record_validated" => made[Lease(w)] \in canon',
           pc \in {"claimed", "deployed", "evidence", "invoke"} => Executing(w)
    PROVE  WorkInv'
<1>1. PICK h \in Proc : /\ proc' = [proc EXCEPT ![w] = h]
                        /\ h.pc = pc /\ h.job = proc[w].job /\ h.n = proc[w].n
  BY GotoForm
<1>2. SaysOver(h, m) => ~Mine(w)
  BY <1>1 DEF SaysOver
<1>. QED  BY <1>1, <1>2, LocalInv

\* A publication that fails without touching the ledger.
LEMMA FailingInv ==
    ASSUME WorkInv, UNCHANGED <<ledgerVars, made, canon, mon>>,
           NEW w \in Workers, proc[w].n # NoAttempt, NEW f \in BOOLEAN, Failing(w, f)
    PROVE  WorkInv'
<1>1. PICK h \in Proc : /\ proc' = [proc EXCEPT ![w] = h]
                        /\ h.pc = "failing" /\ h.job = proc[w].job /\ h.n = proc[w].n
  BY FailingForm
<1>. DEFINE m == mon[w]
<1>2. m \in Monitor /\ mon' = [mon EXCEPT ![w] = m]
  BY DEF WorkInv, WorkerTypeOK
<1>3. SaysOver(h, m) => ~Mine(w)
  BY <1>1, ProcFacts DEF SaysOver, KnowsLeaseEnd, BelievesLeaseOver
<1>4. canon \subseteq canon' /\ canon' \subseteq Digests
  BY DEF WorkInv, WorkerTypeOK
<1>5. /\ h.pc \in Publishing /\ h.pc \notin Producing /\ h.pc # "record_validated"
      /\ h.pc \notin {"claimed", "deployed", "evidence", "invoke"}
  BY <1>1 DEF Publishing, Producing, Streaming
<1>. HIDE DEF m
<1>. QED  BY <1>1, <1>2, <1>3, <1>4, <1>5, LocalInv

\* A process that leaves run_once without touching the ledger: its lease is over,
\* or it was skipped.
LEMMA LeavesInv ==
    ASSUME WorkInv, UNCHANGED <<ledgerVars, made, canon>>,
           NEW w \in Workers, proc[w].n # NoAttempt, NEW b \in BOOLEAN,
           Leaves(w, b), ~b => ~Mine(w)
    PROVE  WorkInv'
<1>1. PICK h \in Proc : /\ proc' = [proc EXCEPT ![w] = h]
                        /\ mon' = [mon EXCEPT ![w] = "off"]
                        /\ h.pc = "down" /\ h.job = proc[w].job /\ h.n = proc[w].n
                        /\ h.skipped = b
  BY LeavesForm
<1>2. SaysOver(h, "off") => ~Mine(w)
  BY <1>1 DEF SaysOver
<1>3. canon \subseteq canon' /\ canon' \subseteq Digests /\ "off" \in Monitor
  BY DEF WorkInv, WorkerTypeOK, Monitor
<1>4. /\ h.pc \notin Producing /\ h.pc # "record_validated"
      /\ h.pc \notin {"claimed", "deployed", "evidence", "invoke"}
  BY <1>1 DEF Producing, Streaming
<1>. QED  BY <1>1, <1>2, <1>3, <1>4, LocalInv

\* The same where neither the monitor nor the canonical store changes.
LEMMA GotoQuietInv ==
    ASSUME WorkInv, UNCHANGED <<ledgerVars, mon, canon, made>>,
           NEW w \in Workers, proc[w].n # NoAttempt, NEW pc \in PC, Goto(w, pc),
           pc \notin {"cleanup", "down", "idle", "record_validated"},
           proc[w].pc \in Publishing => pc \in Publishing,
           pc = "stopped" => ~Mine(w),
           pc \in Producing => proc[w].pc \in Producing,
           pc \in {"claimed", "deployed", "evidence", "invoke"} => Executing(w)
    PROVE  WorkInv'
<1>. DEFINE m == mon[w]
<1>1. m \in Monitor /\ mon' = [mon EXCEPT ![w] = m]
  BY DEF WorkInv, WorkerTypeOK
<1>2. canon \subseteq canon' /\ canon' \subseteq Digests
  BY DEF WorkInv, WorkerTypeOK
<1>3. m # "off" => pc \in Publishing
  BY ProcFacts
<1>4. m = "lost" => ~Mine(w)
  BY ProcFacts DEF KnowsLeaseEnd, BelievesLeaseOver
<1>5. pc \in Producing => made[Lease(w)] \in Digests
  BY ProcFacts DEF CarriesOutput
<1>. HIDE DEF m
<1>. QED  BY <1>1, <1>2, <1>3, <1>4, <1>5, GotoInv

\* A process that dies forgets its lease.
LEMMA DiesInv ==
    ASSUME WorkInv, UNCHANGED <<ledgerVars, canon, made>>,
           NEW w \in Workers, Dies(w), mon' = [mon EXCEPT ![w] = "off"]
    PROVE  WorkInv'
<1>1. proc' = [proc EXCEPT ![w] = NewProc("dead")]
  BY DEF Dies
<1>2. UNCHANGED <<pubVars, canon, made>>
  BY DEF ledgerVars, pubVars
<1>. QED  BY <1>1, <1>2, DropInv

\* Outside publish there is no monitor to stop.
LEMMA NoMonitor ==
    ASSUME WorkInv, NEW w \in Workers, proc[w].pc \notin Publishing, UNCHANGED mon
    PROVE  mon' = [mon EXCEPT ![w] = "off"]
BY ProcFacts DEF WorkInv, WorkerTypeOK

\* The stages of DurableRuntimeWorker that touch neither ledger nor output.
LEMMA StageInv ==
    ASSUME WorkInv, NEW w \in Workers,
           \/ RuntimeLeaseLost(w) \/ LoadDeployment(w) \/ LoadEvidence(w)
           \/ Materialize(w) \/ Produced(w) \/ Faulted(w)
    PROVE  WorkInv'
<1>1. UNCHANGED <<ledgerVars, mon, canon, made>>
  BY DEF RuntimeLeaseLost, LoadDeployment, LoadEvidence, Materialize, Produced, Faulted, Stage
<1>2. proc[w].pc \in {"claimed", "deployed", "evidence", "invoke", "produced", "faulted"}
  BY DEF RuntimeLeaseLost, LoadDeployment, LoadEvidence, Materialize, Produced, Faulted,
         Stage, Executing, At
<1>3. proc[w].n # NoAttempt
  BY <1>2, ProcFacts
<1>4. proc[w].pc \notin Publishing
  BY <1>2 DEF Publishing, Streaming
<1>5. CASE Dies(w)
  BY <1>1, <1>4, <1>5, NoMonitor, DiesInv
<1>6. ASSUME NEW pc \in {"stopped", "rejected", "faulted", "deployed", "evidence", "invoke",
                         "start", "fail_retryable"},
             Goto(w, pc), pc = "stopped" => ~Mine(w),
             pc \in {"deployed", "evidence", "invoke"} => Executing(w),
             pc = "start" => proc[w].pc = "produced"
      PROVE  WorkInv'
  <2>1. pc \in PC
    BY DEF PC, Ending, Streaming
  <2>2. pc \in Producing => proc[w].pc \in Producing
    BY <1>6 DEF Producing, Streaming
  <2>3. pc \notin {"cleanup", "down", "idle", "record_validated", "claimed"}
    OBVIOUS
  <2>. QED  BY <1>1, <1>3, <1>4, <1>6, <2>1, <2>2, <2>3, GotoQuietInv
<1>7. CASE RuntimeLeaseLost(w)
  BY <1>5, <1>6, <1>7 DEF RuntimeLeaseLost
<1>8. CASE LoadDeployment(w)
  BY <1>6, <1>8 DEF LoadDeployment, Stage, Executing, At
<1>9. CASE LoadEvidence(w)
  BY <1>6, <1>9 DEF LoadEvidence, Stage, Executing, At
<1>10. CASE Materialize(w)
  BY <1>6, <1>10 DEF Materialize, Stage, Executing, At
<1>11. CASE Produced(w)
  BY <1>6, <1>11 DEF Produced, At
<1>12. CASE Faulted(w)
  BY <1>5, <1>6, <1>12 DEF Faulted
<1>. QED  BY <1>7, <1>8, <1>9, <1>10, <1>11, <1>12

\* run_once gives its lease up only when it is over.
LEMMA GiveBackInv ==
    ASSUME WorkInv, NEW w \in Workers, Rejected(w) \/ Stopped(w)
    PROVE  WorkInv'
<1>1. UNCHANGED <<ledgerVars, canon, made>> /\ proc[w].pc \in {"rejected", "stopped"}
  BY DEF Rejected, Stopped, At
<1>2. proc[w].n # NoAttempt /\ proc[w].pc \notin Publishing
  BY <1>1, ProcFacts DEF Publishing, Streaming
<1>3. ASSUME NEW pc \in {"cancel", "fail_terminal"}, Goto(w, pc), UNCHANGED mon
      PROVE  WorkInv'
  <2>1. pc \in PC /\ pc \notin Producing
    BY DEF PC, Ending, Producing, Streaming
  <2>2. pc \notin {"cleanup", "down", "idle", "record_validated", "claimed", "deployed",
                   "evidence", "invoke", "stopped"}
    OBVIOUS
  <2>. QED  BY <1>1, <1>2, <1>3, <2>1, <2>2, GotoQuietInv
<1>4. ASSUME Exit(w), ~Mine(w)  PROVE WorkInv'
  BY <1>1, <1>2, <1>4, LeavesInv DEF Exit
<1>5. CASE Rejected(w)
  <2>1. ~MineUnexpired(w) => ~Mine(w)
    BY DEF Mine, MineUnexpired, LeaseCurrent
  <2>. QED  BY <1>3, <1>4, <1>5, <2>1 DEF Rejected
<1>6. CASE Stopped(w)
  <2>1. ~Mine(w)
    BY <1>2, <1>6, ProcFacts DEF Stopped, At, KnowsLeaseEnd, BelievesLeaseOver
  <2>. QED  BY <1>3, <1>4, <1>6, <2>1 DEF Stopped
<1>. QED  BY <1>5, <1>6

\* The monitor starts with the publication.
LEMMA StartMonitorInv ==
    ASSUME WorkInv, NEW w \in Workers, StartMonitor(w)
    PROVE  WorkInv'
<1>1. UNCHANGED <<ledgerVars, canon, made>> /\ proc[w].pc = "start"
  BY DEF StartMonitor, At
<1>2. proc[w].n # NoAttempt /\ proc[w].pc \notin Publishing /\ proc[w].pc \in Producing
  BY <1>1, ProcFacts DEF Publishing, Producing, Streaming
<1>3. canon \subseteq canon' /\ canon' \subseteq Digests
  BY <1>1 DEF WorkInv, WorkerTypeOK
<1>4. CASE Goto(w, "plan") /\ mon' = [mon EXCEPT ![w] = "starting"]
  <2>1. "plan" \in PC /\ "starting" \in Monitor /\ "plan" \in Publishing
    BY DEF PC, Monitor, Publishing
  <2>2. made[Lease(w)] \in Digests
    BY <1>2, ProcFacts DEF CarriesOutput
  <2>. QED  BY <1>1, <1>2, <1>3, <1>4, <2>1, <2>2, GotoInv
<1>5. CASE Goto(w, "fail_retryable") /\ UNCHANGED mon
  <2>1. "fail_retryable" \in PC /\ "fail_retryable" \notin Producing
    BY DEF PC, Ending, Producing, Streaming
  <2>. QED  BY <1>1, <1>2, <1>5, <2>1, GotoQuietInv
<1>. QED  BY <1>4, <1>5 DEF StartMonitor

\* The runtime makes its result before the ledger has heard of the lease.
LEMMA InvokeInv ==
    ASSUME WorkInv, NEW w \in Workers, Invoke(w)
    PROVE  WorkInv'
<1>1. UNCHANGED <<ledgerVars, mon, canon>> /\ proc[w].pc = "invoke"
  BY DEF Invoke, At
<1>2. proc[w].n # NoAttempt /\ proc[w].pc \notin Publishing /\ Executing(w)
  BY <1>1, ProcFacts DEF Publishing, Streaming, Executing
<1>3. ASSUME UNCHANGED made, Dies(w) \/ Goto(w, "rejected") \/ Goto(w, "faulted")
      PROVE  WorkInv'
  <2>1. CASE Dies(w)
    BY <1>1, <1>2, <1>3, <2>1, NoMonitor, DiesInv
  <2>2. ASSUME NEW pc \in {"rejected", "faulted"}, Goto(w, pc)  PROVE WorkInv'
    <3>1. pc \in PC /\ pc \notin Producing
      BY DEF PC, Producing, Streaming
    <3>. QED  BY <1>1, <1>2, <1>3, <2>2, <3>1, GotoQuietInv
  <2>. QED  BY <1>3, <2>1, <2>2
<1>4. ASSUME NEW d \in Results[proc[w].n], made' = [made EXCEPT ![Lease(w)] = d],
             NEW pc \in {"produced", "faulted"}, Goto(w, pc)
      PROVE  WorkInv'
  <2>1. /\ Lease(w) \in Jobs \X (1..MaxAttempts) /\ proc[w].n \in 1..MaxAttempts
        /\ Lease(w) = <<proc[w].job, proc[w].n>>
    BY <1>2, ProcFacts DEF Lease
  <2>2. d \in Digests
    BY <2>1, ResultsAssumption
  <2>3. made \in [Jobs \X (1..MaxAttempts) -> Digests \cup {NoDigest}]
    BY DEF WorkInv, WorkerTypeOK
  <2>4. /\ made' \in [Jobs \X (1..MaxAttempts) -> Digests \cup {NoDigest}]
        /\ made'[Lease(w)] = d
        /\ \A l \in Jobs \X (1..MaxAttempts) : l # Lease(w) => made'[l] = made[l]
    BY <1>4, <2>1, <2>2, <2>3
  <2>5. pubs' = pubs /\ \A i, n : Granted(i, n)' <=> Granted(i, n)
    BY <1>1 DEF ledgerVars, Granted
  <2>6. RowIsOwnOutput'
    <3>. SUFFICES ASSUME NEW p \in PubId
                  PROVE  /\ pubs[p].digest # NoDigest =>
                            Granted(p[1], p[2]) /\ pubs[p].digest = made'[<<p[1], p[2]>>]
                         /\ pubs[p].blob # NoDigest =>
                            /\ Granted(p[1], p[2]) /\ pubs[p].blob = made'[<<p[1], p[2]>>]
                            /\ pubs[p].blob \in canon
                         /\ pubs[p].stale = NotStale
      BY <1>1, <2>5 DEF RowIsOwnOutput
    <3>1. /\ p[3] \in Kinds /\ p = <<p[1], p[2], p[3]>>
          /\ <<p[1], p[2]>> \in Jobs \X (1..MaxAttempts)
      BY PubParts
    <3>2. /\ pubs[p].digest # NoDigest =>
             Granted(p[1], p[2]) /\ pubs[p].digest = made[<<p[1], p[2]>>]
          /\ pubs[p].blob # NoDigest =>
             /\ Granted(p[1], p[2]) /\ pubs[p].blob = made[<<p[1], p[2]>>]
             /\ pubs[p].blob \in canon
          /\ pubs[p].stale = NotStale
      BY DEF WorkInv, RowIsOwnOutput
    <3>3. CASE <<p[1], p[2]>> = Lease(w)
      <4>1. p = <<proc[w].job, proc[w].n, p[3]>>
        BY <2>1, <3>1, <3>3
      <4>2. pubs[p].digest = NoDigest /\ pubs[p].blob = NoDigest
        BY <1>2, <3>1, <4>1, ProcFacts DEF CarriesOutput
      <4>. QED  BY <3>2, <4>2
    <3>4. CASE <<p[1], p[2]>> # Lease(w)
      BY <2>4, <3>1, <3>2, <3>4
    <3>. QED  BY <3>3, <3>4
  <2>7. ASSUME NEW u \in Workers, u # w, proc[u].n # NoAttempt  PROVE OutputKept(u)
    <3>1. Lease(u) # Lease(w) /\ Lease(u) \in Jobs \X (1..MaxAttempts)
      BY <1>2, <2>7, Apart, ProcFacts
    <3>. QED  BY <2>4, <2>5, <3>1 DEF OutputKept
  <2>8. pc \in PC
    BY DEF PC
  <2>9. PICK h \in Proc : /\ proc' = [proc EXCEPT ![w] = h]
                          /\ h.pc = pc /\ h.job = proc[w].job /\ h.n = proc[w].n
    BY <1>4, <2>8, GotoForm
  <2>10. mon' = [mon EXCEPT ![w] = "off"] /\ "off" \in Monitor
    BY <1>1, <1>2, NoMonitor DEF Monitor
  <2>11. proc'[w] = h /\ mon'[w] = "off"
    BY <2>9, <2>10 DEF WorkInv, WorkerTypeOK
  <2>12. ProcSound(w)'
    <3>1. ~SaysOver(h, "off") /\ h.pc # "record_validated"
          /\ h.pc \notin {"claimed", "deployed", "evidence", "invoke"}
      BY <2>9 DEF SaysOver
    <3>. QED  BY <1>1, <1>2, <2>2, <2>4, <2>9, <2>10, <2>11, <3>1, MovedSound
  <2>13. canon \subseteq canon' /\ canon' \subseteq Digests
    BY <1>1 DEF WorkInv, WorkerTypeOK
  <2>. QED  BY <1>1, <2>4, <2>6, <2>7, <2>9, <2>10, <2>12, <2>13, ActInv
<1>. QED  BY <1>3, <1>4 DEF Invoke, RemovalFails

-----------------------------------------------------------------------------
(* Steps of publish and of its monitor that leave the ledger alone *)

\* The monitor records an outcome.
LEMMA MonitorInv ==
    ASSUME WorkInv, UNCHANGED <<ledgerVars, proc, canon, made>>,
           NEW w \in Workers, proc[w].pc \in Publishing,
           NEW m \in Monitor, mon' = [mon EXCEPT ![w] = m], m = "lost" => ~Mine(w)
    PROVE  WorkInv'
<1>. DEFINE h == proc[w]
<1>1. /\ h \in Proc /\ h.job = proc[w].job /\ h.n = proc[w].n /\ h.pc = proc[w].pc
      /\ proc' = [proc EXCEPT ![w] = h] /\ h.pc \in Publishing
  BY DEF WorkInv, WorkerTypeOK
<1>2. proc[w].n # NoAttempt
  BY ProcFacts DEF Publishing, Streaming
<1>3. SaysOver(h, m) => ~Mine(w)
  BY <1>2, ProcFacts DEF SaysOver, KnowsLeaseEnd, BelievesLeaseOver
<1>4. canon \subseteq canon' /\ canon' \subseteq Digests
  BY DEF WorkInv, WorkerTypeOK
<1>5. /\ h.pc \in Producing => made[Lease(w)] \in Digests
      /\ h.pc = "record_validated" => made[Lease(w)] \in canon'
      /\ h.pc \in {"claimed", "deployed", "evidence", "invoke"} => Executing(w)
  BY <1>4, ProcFacts DEF CarriesOutput, Executing
<1>. HIDE DEF h
<1>. QED  BY <1>1, <1>2, <1>3, <1>4, <1>5, LocalInv

\* The monitor stops.
LEMMA MonitorStopsInv ==
    ASSUME WorkInv, NEW w \in Workers, MonitorStops(w)
    PROVE  WorkInv'
<1>1. UNCHANGED <<ledgerVars, proc, canon, made>> /\ MonitorLives(w)
  BY DEF MonitorStops
<1>2. proc[w].pc \in Publishing
  BY <1>1, ProcFacts DEF MonitorLives
<1>3. ~MineUnexpired(w) => ~Mine(w)
  BY DEF Mine, MineUnexpired, LeaseCurrent
<1>4. {"cancel", "lost", "fatal"} \subseteq Monitor
  BY DEF Monitor
<1>. QED  BY <1>1, <1>2, <1>3, <1>4, MonitorInv DEF MonitorStops

\* The publisher waits for the monitor and plans.
LEMMA PlanInv ==
    ASSUME WorkInv, NEW w \in Workers, Plan(w)
    PROVE  WorkInv'
<1>1. UNCHANGED <<ledgerVars, canon, made>> /\ proc[w].pc = "plan"
  BY DEF Plan, At
<1>2. /\ proc[w].n # NoAttempt /\ proc[w].pc \in Publishing /\ proc[w].pc \in Producing
      /\ "fatal" \in Monitor /\ "reserve" \in PC /\ "reserve" \in Publishing
  BY <1>1, ProcFacts DEF Publishing, Producing, Monitor, PC
<1>3. CASE mon' = [mon EXCEPT ![w] = "fatal"] /\ UNCHANGED proc
  BY <1>1, <1>2, <1>3, MonitorInv
<1>4. CASE Goto(w, "reserve") /\ UNCHANGED mon
  BY <1>1, <1>2, <1>4, GotoQuietInv
<1>5. CASE (Failing(w, TRUE) \/ Failing(w, FALSE)) /\ UNCHANGED mon
  BY <1>1, <1>2, <1>5, FailingInv
<1>. QED  BY <1>3, <1>4, <1>5 DEF Plan

\* _finish_failure: a lease that is given up is over.
LEMMA FinishFailureInv ==
    ASSUME WorkInv, NEW w \in Workers, FinishFailure(w)
    PROVE  WorkInv'
<1>1. UNCHANGED <<ledgerVars, canon, made>> /\ proc[w].pc = "failing"
  BY DEF FinishFailure, At
<1>2. proc[w].n # NoAttempt
  BY <1>1, ProcFacts
<1>3. CASE GiveUp(w)
  <2>1. Exit(w)
    BY <1>3 DEF FinishFailure
  <2>2. ~Mine(w)
    <3>1. ~MineUnexpired(w) => ~Mine(w)
      BY DEF Mine, MineUnexpired, LeaseCurrent
    <3>2. mon[w] = "lost" => ~Mine(w)
      BY <1>2, ProcFacts DEF KnowsLeaseEnd, BelievesLeaseOver
    <3>. QED  BY <1>3, <3>1, <3>2 DEF GiveUp
  <2>. QED  BY <1>1, <1>2, <2>1, <2>2, LeavesInv DEF Exit
<1>4. CASE ~GiveUp(w)
  <2>1. PICK pc \in Ending : Goto(w, pc) /\ mon' = [mon EXCEPT ![w] = "off"]
    BY <1>4 DEF FinishFailure, Ending
  <2>2. /\ pc \in PC /\ pc \notin Producing /\ "off" \in Monitor
        /\ pc \notin {"stopped", "cleanup", "down", "idle", "record_validated", "claimed",
                      "deployed", "evidence", "invoke"}
    BY DEF PC, Ending, Producing, Streaming, Monitor
  <2>3. canon \subseteq canon' /\ canon' \subseteq Digests
    BY <1>1 DEF WorkInv, WorkerTypeOK
  <2>. QED  BY <1>1, <1>2, <2>1, <2>2, <2>3, GotoInv
<1>. QED  BY <1>3, <1>4

\* The lease and then the monitor are looked at.
LEMMA CheckpointInv ==
    ASSUME WorkInv, NEW w \in Workers, Checkpoint(w)
    PROVE  WorkInv'
<1>1. UNCHANGED <<ledgerVars, canon, made>> /\ proc[w].pc \in Streaming
  BY DEF Checkpoint
<1>2. proc[w].n # NoAttempt /\ proc[w].pc \in Publishing /\ proc[w].pc \in Producing
  BY <1>1, ProcFacts DEF Publishing, Producing, Streaming
<1>3. CASE Exit(w) /\ ~Mine(w)
  BY <1>1, <1>2, <1>3, LeavesInv DEF Exit
<1>4. CASE Failing(w, FALSE) /\ UNCHANGED mon
  BY <1>1, <1>2, <1>4, FailingInv
<1>5. ASSUME NEW c \in {"hook", "act"}, proc' = [proc EXCEPT ![w].check = c], UNCHANGED mon
      PROVE  WorkInv'
  <2>. DEFINE h == [proc[w] EXCEPT !.check = c]
              m == mon[w]
  <2>1. proc' = [proc EXCEPT ![w] = h] /\ proc[w] \in Proc
    BY <1>5, ProcFacts
  <2>2. h \in Proc /\ h.pc = proc[w].pc /\ h.job = proc[w].job /\ h.n = proc[w].n
    BY <2>1 DEF Proc
  <2>. HIDE DEF h
  <2>3. m \in Monitor /\ mon' = [mon EXCEPT ![w] = m]
    BY <1>5 DEF WorkInv, WorkerTypeOK
  <2>4. SaysOver(h, m) => ~Mine(w)
    BY <1>1, <1>2, <2>2, ProcFacts DEF SaysOver, KnowsLeaseEnd, BelievesLeaseOver, Streaming
  <2>5. canon \subseteq canon' /\ canon' \subseteq Digests
    BY <1>1 DEF WorkInv, WorkerTypeOK
  <2>6. made[Lease(w)] \in Digests
    BY <1>2, ProcFacts DEF CarriesOutput
  <2>7. h.pc # "record_validated" /\ h.pc \notin {"claimed", "deployed", "evidence", "invoke"}
    BY <1>1, <2>2 DEF Streaming
  <2>. HIDE DEF m
  <2>. QED  BY <1>1, <1>2, <2>1, <2>2, <2>3, <2>4, <2>5, <2>6, <2>7, LocalInv
<1>. QED  BY <1>3, <1>4, <1>5 DEF Checkpoint

\* A fenced delivery, an I/O error and a step to the next stage.
LEMMA PublishLocalInv ==
    ASSUME WorkInv, NEW w \in Workers, proc[w].pc \in Publishing \cap Producing,
           UNCHANGED <<canon, made>>,
           \/ Fenced(w) \/ IOError(w)
           \/ \E pc \in {"record", "promote", "finalize"} : Pass(w, pc)
    PROVE  WorkInv'
<1>1. proc[w].n # NoAttempt
  BY ProcFacts DEF Publishing, Streaming
<1>2. CASE Fenced(w)
  BY <1>1, <1>2, LeavesInv DEF Fenced, Exit
<1>3. CASE IOError(w)
  BY <1>1, <1>3, FailingInv DEF IOError
<1>4. ASSUME NEW pc \in {"record", "promote", "finalize"}, Pass(w, pc)  PROVE WorkInv'
  <2>1. pc \in PC /\ pc \in Publishing
    BY DEF PC, Publishing, Streaming
  <2>. QED  BY <1>1, <1>4, <2>1, GotoQuietInv DEF Pass
<1>. QED  BY <1>2, <1>3, <1>4

-----------------------------------------------------------------------------
(* The ledger transactions of publish *)

\* A transaction of the publisher commits; the process goes on or fails.
LEMMA PublishStepInv ==
    ASSUME WorkInv, [LedgerNext]_ledgerVars, UNCHANGED <<mon, canon, made>>,
           RowIsOwnOutput',
           NEW w \in Workers, proc[w].pc \in Publishing \cap Producing,
           \A u \in Workers : u # w /\ proc[u].n # NoAttempt => OutputKept(u),
           NEW h \in Proc, proc' = [proc EXCEPT ![w] = h],
           h.job = proc[w].job, h.n = proc[w].n,
           h.pc \in Publishing, h.pc # "record_validated",
           h.pc = "cleanup" => ~LeaseCurrent(h.job, h.n)'
    PROVE  WorkInv'
<1>. DEFINE m == mon[w]
<1>1. proc[w].n # NoAttempt
  BY ProcFacts DEF Publishing, Streaming
<1>2. m \in Monitor /\ mon' = [mon EXCEPT ![w] = m] /\ mon'[w] = m /\ proc'[w] = h
  BY DEF WorkInv, WorkerTypeOK
<1>3. SaysOver(h, m) => ~Mine(w) \/ ~LeaseCurrent(h.job, h.n)'
  <2>1. m = "lost" => ~Mine(w)
    BY <1>1, ProcFacts DEF KnowsLeaseEnd, BelievesLeaseOver
  <2>. QED  BY <2>1 DEF SaysOver, Publishing, Streaming
<1>4. made'[Lease(w)] \in Digests
  BY ProcFacts DEF CarriesOutput
<1>5. h.pc \notin {"claimed", "deployed", "evidence", "invoke"}
  BY DEF Publishing, Streaming
<1>6. /\ canon \subseteq canon' /\ canon' \subseteq Digests
      /\ made' \in [Jobs \X (1..MaxAttempts) -> Digests \cup {NoDigest}]
  BY DEF WorkInv, WorkerTypeOK
<1>. HIDE DEF m
<1>7. ProcSound(w)'
  BY <1>1, <1>2, <1>3, <1>4, <1>5, MovedSound
<1>. QED  BY <1>2, <1>6, <1>7, ActInv

\* What the process becomes when the transaction has committed.
LEMMA CommittedForm ==
    ASSUME WorkInv, NEW w \in Workers, NEW pc \in PC, NEW v \in Nat, Committed(w, pc, v)
    PROVE  /\ mon' = mon
           /\ \E h \in Proc : /\ proc' = [proc EXCEPT ![w] = h]
                              /\ h.pc \in {pc, "failing"}
                              /\ h.job = proc[w].job /\ h.n = proc[w].n
<1>1. CASE Failing(w, FALSE) /\ UNCHANGED mon
  BY <1>1, FailingForm
<1>2. CASE /\ proc' = [proc EXCEPT ![w].pc = pc, ![w].check = "assert", ![w].v = v]
           /\ UNCHANGED mon
  <2>. DEFINE h == [proc[w] EXCEPT !.pc = pc, !.check = "assert", !.v = v]
  <2>1. proc[w] \in Proc /\ proc' = [proc EXCEPT ![w] = h]
    BY <1>2, ProcFacts
  <2>2. h \in Proc /\ h.pc = pc /\ h.job = proc[w].job /\ h.n = proc[w].n
    BY <2>1 DEF Proc
  <2>. HIDE DEF h
  <2>. QED  BY <1>2, <2>1, <2>2
<1>. QED  BY <1>1, <1>2 DEF Committed

\* Only the row of the publisher's own lease may change what it names.
LEMMA OwnRowOnly ==
    ASSUME WorkInv, NEW w \in Workers, proc[w].n # NoAttempt, made' = made,
           NEW r, pubs' = [pubs EXCEPT ![Pub(w)] = r],
           NEW u \in Workers, u # w, proc[u].n # NoAttempt
    PROVE  OutputKept(u)
<1>1. Lease(u) # Lease(w) /\ Lease(u) = <<proc[u].job, proc[u].n>>
      /\ Lease(w) = <<proc[w].job, proc[w].n>>
  BY Apart DEF Lease
<1>2. ASSUME NEW k \in Kinds
      PROVE  pubs'[<<proc[u].job, proc[u].n, k>>] = pubs[<<proc[u].job, proc[u].n, k>>]
  <2>1. <<proc[u].job, proc[u].n, k>> # Pub(w)
    BY <1>1 DEF Pub
  <2>2. <<proc[u].job, proc[u].n, k>> \in PubId /\ pubs \in [PubId -> PubRow]
    BY ProcFacts DEF WorkInv, LedgerInv, LedgerTypeOK
  <2>. QED  BY <2>1, <2>2
<1>. QED  BY <1>2 DEF OutputKept

\* Reserve, reject and the like do not change what rows name.
LEMMA SameNames ==
    ASSUME WorkInv, NEW p \in PubId, NEW v,
           Reserve(p) \/ Reject(p, v) \/ RecordCleanup(p, v)
    PROVE  /\ \A q \in PubId : /\ pubs'[q].digest = pubs[q].digest
                               /\ pubs'[q].blob = pubs[q].blob
                               /\ pubs'[q].stale = pubs[q].stale
           /\ LedgerNext
<1>1. pubs \in [PubId -> PubRow] /\ pubs[p] \in PubRow
  BY DEF WorkInv, LedgerInv, LedgerTypeOK
<1>2. CASE Reserve(p)
  <2>1. pubs' = [pubs EXCEPT ![p].state = "reserved"]
    BY <1>2 DEF Reserve
  <2>. QED  BY <1>1, <1>2, <2>1 DEF PubRow, LedgerNext, LedgerStep
<1>3. CASE Reject(p, v)
  <2>1. pubs' = [pubs EXCEPT ![p].state = "rejected", ![p].version = @ + 1]
    BY <1>3 DEF Reject
  <2>2. v = pubs[p].version
    BY <1>3 DEF Reject, AtVersion
  <2>. QED  BY <1>1, <1>3, <2>1, <2>2 DEF PubRow, LedgerNext, LedgerStep
<1>4. CASE RecordCleanup(p, v)
  <2>1. pubs' = [pubs EXCEPT ![p].cleaned = TRUE, ![p].version = @ + 1]
    BY <1>4 DEF RecordCleanup
  <2>2. v = pubs[p].version
    BY <1>4 DEF RecordCleanup, AtVersion
  <2>. QED  BY <1>1, <1>4, <2>1, <2>2 DEF PubRow, LedgerNext, LedgerStep
<1>. QED  BY <1>2, <1>3, <1>4

\* The row is reserved.
LEMMA ReserveOutputInv ==
    ASSUME WorkInv, NEW w \in Workers, ReserveOutput(w)
    PROVE  WorkInv'
<1>1. proc[w].pc = "reserve" /\ UNCHANGED <<canon, made>>
  BY DEF ReserveOutput, At
<1>2. proc[w].pc \in Publishing \cap Producing /\ proc[w].n # NoAttempt
  BY <1>1, ProcFacts DEF Publishing, Producing, Streaming
<1>3. CASE Reserve(Pub(w)) /\ Committed(w, "write", 0)
  <2>1. Pub(w) \in PubId /\ "write" \in PC /\ "write" \in Publishing /\ "failing" \in Publishing
    BY <1>2, ProcFacts DEF PC, Streaming, Publishing
  <2>2. /\ LedgerNext
        /\ \A q \in PubId : /\ pubs'[q].digest = pubs[q].digest
                            /\ pubs'[q].blob = pubs[q].blob
                            /\ pubs'[q].stale = pubs[q].stale
    BY <1>3, <2>1, SameNames
  <2>3. RowIsOwnOutput' /\ \A u \in Workers : proc[u].n # NoAttempt => OutputKept(u)
    BY <1>1, <2>2, RowsKept
  <2>4. mon' = mon /\ \E h \in Proc : /\ proc' = [proc EXCEPT ![w] = h]
                                      /\ h.pc \in {"write", "failing"}
                                      /\ h.job = proc[w].job /\ h.n = proc[w].n
    BY <1>3, <2>1, CommittedForm
  <2>. QED  BY <1>1, <1>2, <2>1, <2>2, <2>3, <2>4, PublishStepInv
<1>. QED  BY <1>1, <1>2, <1>3, PublishLocalInv DEF ReserveOutput

\* The row is rejected and the publication fails, or the process is fenced off.
LEMMA RejectAndFailInv ==
    ASSUME WorkInv, NEW w \in Workers, proc[w].pc \in Publishing \cap Producing,
           NEW f \in BOOLEAN, RejectAndFail(w, f), UNCHANGED <<canon, made>>
    PROVE  WorkInv'
<1>1. proc[w].n # NoAttempt
  BY ProcFacts DEF Publishing, Streaming
<1>2. CASE Reject(Pub(w), proc[w].v) /\ Failing(w, f) /\ UNCHANGED mon
  <2>1. Pub(w) \in PubId /\ "failing" \in Publishing
    BY <1>1, ProcFacts DEF Publishing
  <2>2. /\ LedgerNext
        /\ \A q \in PubId : /\ pubs'[q].digest = pubs[q].digest
                            /\ pubs'[q].blob = pubs[q].blob
                            /\ pubs'[q].stale = pubs[q].stale
    BY <1>2, <2>1, SameNames
  <2>3. RowIsOwnOutput' /\ \A u \in Workers : proc[u].n # NoAttempt => OutputKept(u)
    BY <2>2, RowsKept
  <2>4. PICK h \in Proc : /\ proc' = [proc EXCEPT ![w] = h]
                          /\ h.pc = "failing" /\ h.job = proc[w].job /\ h.n = proc[w].n
    BY <1>2, FailingForm
  <2>. QED  BY <1>2, <2>1, <2>2, <2>3, <2>4, PublishStepInv
<1>. QED  BY <1>2, PublishLocalInv DEF RejectAndFail

\* The steps of publish around the object and the canonical copy.
LEMMA ObjectStepInv ==
    ASSUME WorkInv, NEW w \in Workers,
           WriteObject(w) \/ ValidateObject(w) \/ VerifyCanonical(w)
    PROVE  WorkInv'
<1>1. UNCHANGED <<canon, made>> /\ proc[w].pc \in {"write", "validate", "verify"}
  BY DEF WriteObject, ValidateObject, VerifyCanonical, Acting, At
<1>2. proc[w].pc \in Publishing \cap Producing
  BY <1>1 DEF Publishing, Producing, Streaming
<1>3. \/ Fenced(w) \/ IOError(w)
      \/ \E pc \in {"record", "promote", "finalize"} : Pass(w, pc)
      \/ RejectAndFail(w, TRUE) \/ RejectAndFail(w, FALSE)
  BY DEF WriteObject, ValidateObject, VerifyCanonical, Drifts
<1>. QED  BY <1>1, <1>2, <1>3, PublishLocalInv, RejectAndFailInv

\* The bytes reach the canonical store before the ledger hears of them.
LEMMA PromoteObjectInv ==
    ASSUME WorkInv, NEW w \in Workers, PromoteObject(w)
    PROVE  WorkInv'
<1>1. made' = made /\ proc[w].pc = "promote"
  BY DEF PromoteObject, Acting, At
<1>2. proc[w].pc \in Publishing \cap Producing /\ proc[w].n # NoAttempt
  BY <1>1, ProcFacts DEF Publishing, Producing, Streaming
<1>3. CASE Pass(w, "record_validated") /\ canon' = Promotion(w)
  <2>1. Goto(w, "record_validated") /\ UNCHANGED <<ledgerVars, mon>>
    BY <1>3 DEF Pass
  <2>2. made[Lease(w)] \in Digests
    BY <1>2, ProcFacts DEF CarriesOutput
  <2>3. canon \subseteq canon' /\ canon' \subseteq Digests /\ made[Lease(w)] \in canon'
    BY <1>3, <2>2 DEF Promotion, WorkInv, WorkerTypeOK
  <2>. DEFINE m == mon[w]
  <2>4. m \in Monitor /\ mon' = [mon EXCEPT ![w] = m]
    BY <2>1 DEF WorkInv, WorkerTypeOK
  <2>5. m = "lost" => ~Mine(w)
    BY <1>2, ProcFacts DEF KnowsLeaseEnd, BelievesLeaseOver
  <2>6. "record_validated" \in PC /\ "record_validated" \in Publishing
    BY DEF PC, Publishing
  <2>. HIDE DEF m
  <2>. QED  BY <1>1, <1>2, <2>1, <2>2, <2>3, <2>4, <2>5, <2>6, GotoInv
<1>4. CASE (Drifts(w) \/ IOError(w)) /\ UNCHANGED canon
  BY <1>1, <1>2, <1>4, PublishLocalInv, RejectAndFailInv DEF Drifts
<1>. QED  BY <1>3, <1>4 DEF PromoteObject

\* The publisher writes the result of its own lease into its own row.
LEMMA OwnNameWritten ==
    ASSUME WorkInv, LedgerNext, UNCHANGED <<canon, made>>, UNCHANGED lqVars,
           NEW w \in Workers, proc[w].n # NoAttempt,
           NEW r \in PubRow, pubs' = [pubs EXCEPT ![Pub(w)] = r],
           r.stale = NotStale,
           r.digest = made[Lease(w)],
           r.blob # NoDigest => r.blob = made[Lease(w)] /\ r.blob \in canon
    PROVE  RowIsOwnOutput'
<1>1. /\ Pub(w) \in PubId /\ Pub(w) = <<proc[w].job, proc[w].n, Output>>
      /\ Lease(w) = <<proc[w].job, proc[w].n>> /\ Granted(proc[w].job, proc[w].n)
  BY ProcFacts DEF Pub, Lease
<1>2. pubs \in [PubId -> PubRow] /\ \A i, n : Granted(i, n)' <=> Granted(i, n)
  BY DEF WorkInv, LedgerInv, LedgerTypeOK, lqVars, Granted
<1>. SUFFICES ASSUME NEW p \in PubId
              PROVE  /\ pubs'[p].digest # NoDigest =>
                        Granted(p[1], p[2]) /\ pubs'[p].digest = made[<<p[1], p[2]>>]
                     /\ pubs'[p].blob # NoDigest =>
                        /\ Granted(p[1], p[2]) /\ pubs'[p].blob = made[<<p[1], p[2]>>]
                        /\ pubs'[p].blob \in canon
                     /\ pubs'[p].stale = NotStale
  BY <1>2 DEF RowIsOwnOutput
<1>3. CASE p = Pub(w)
  <2>1. pubs'[p] = r /\ p[1] = proc[w].job /\ p[2] = proc[w].n
    BY <1>1, <1>2, <1>3
  <2>. QED  BY <1>1, <2>1
<1>4. CASE p # Pub(w)
  <2>1. pubs'[p] = pubs[p]
    BY <1>1, <1>2, <1>4
  <2>2. RowIsOwnOutput
    BY DEF WorkInv
  <2>. QED  BY <2>1, <2>2 DEF RowIsOwnOutput
<1>. QED  BY <1>3, <1>4

\* record_object names what the runtime made for this lease.
LEMMA RecordOutputInv ==
    ASSUME WorkInv, NEW w \in Workers, RecordOutput(w)
    PROVE  WorkInv'
<1>1. proc[w].pc = "record" /\ UNCHANGED <<canon, made>>
  BY DEF RecordOutput, At
<1>2. proc[w].pc \in Publishing \cap Producing /\ proc[w].n # NoAttempt
  BY <1>1, ProcFacts DEF Publishing, Producing, Streaming
<1>. DEFINE d == made[Lease(w)]
            v == proc[w].v
            p == Pub(w)
<1>3. CASE RecordObject(p, v, d) /\ Committed(w, "validate", v + 1)
  <2>1. p \in PubId /\ d \in Digests /\ v \in Nat /\ pubs[p] \in PubRow
    BY <1>2, ProcFacts DEF CarriesOutput, Proc, WorkInv, LedgerInv, LedgerTypeOK
  <2>. HIDE DEF v, p, d
  <2>2. /\ v = pubs[p].version /\ pubs[p].state = "reserved" /\ UNCHANGED lqVars
        /\ pubs' = [pubs EXCEPT ![p].state = "object_written", ![p].version = @ + 1,
                                ![p].digest = d]
    BY <1>3 DEF RecordObject, AtVersion
  <2>3. LedgerNext
    BY <1>3, <2>1, <2>2 DEF LedgerNext, LedgerStep
  <2>. DEFINE u == pubs[p].version + 1
              r == [pubs[p] EXCEPT !.state = "object_written", !.version = u, !.digest = d]
  <2>4. pubs' = [pubs EXCEPT ![p] = r] /\ u \in Nat
    <3>1. pubs \in [PubId -> PubRow]
      BY DEF WorkInv, LedgerInv, LedgerTypeOK
    <3>2. pubs' = [pubs EXCEPT ![p] = r]
      BY <2>1, <2>2, <3>1
    <3>. QED  BY <2>1, <3>2 DEF PubRow
  <2>. HIDE DEF u
  <2>5. /\ r \in PubRow /\ r.digest = d /\ r.blob = pubs[p].blob /\ r.stale = pubs[p].stale
    BY <2>1, <2>4 DEF PubRow, PubState, OpenPub
  <2>. HIDE DEF r
  <2>6. /\ pubs[p].stale = NotStale
        /\ pubs[p].blob # NoDigest => pubs[p].blob = made[Lease(w)] /\ pubs[p].blob \in canon
    <3>1. p[1] = proc[w].job /\ p[2] = proc[w].n /\ Lease(w) = <<p[1], p[2]>>
      BY DEF p, Pub, Lease
    <3>. QED  BY <2>1, <3>1 DEF WorkInv, RowIsOwnOutput
  <2>7. RowIsOwnOutput'
    BY <1>1, <1>2, <2>2, <2>3, <2>4, <2>5, <2>6, OwnNameWritten DEF p, d
  <2>8. \A x \in Workers : x # w /\ proc[x].n # NoAttempt => OutputKept(x)
    BY <1>1, <1>2, <2>4, OwnRowOnly DEF p
  <2>9. "validate" \in PC /\ "validate" \in Publishing /\ "failing" \in Publishing /\ v + 1 \in Nat
    BY <2>1 DEF PC, Streaming, Publishing
  <2>10. mon' = mon /\ \E h \in Proc : /\ proc' = [proc EXCEPT ![w] = h]
                                       /\ h.pc \in {"validate", "failing"}
                                       /\ h.job = proc[w].job /\ h.n = proc[w].n
    BY <1>3, <2>9, CommittedForm
  <2>. QED  BY <1>1, <1>2, <2>3, <2>7, <2>8, <2>9, <2>10, PublishStepInv
<1>. QED  BY <1>1, <1>2, <1>3, PublishLocalInv DEF RecordOutput

\* record_validated names the canonical copy of it.
LEMMA RecordCanonicalInv ==
    ASSUME WorkInv, NEW w \in Workers, RecordCanonical(w)
    PROVE  WorkInv'
<1>1. proc[w].pc = "record_validated" /\ UNCHANGED <<canon, made>>
  BY DEF RecordCanonical, At
<1>2. proc[w].pc \in Publishing \cap Producing /\ proc[w].n # NoAttempt
  BY <1>1, ProcFacts DEF Publishing, Producing, Streaming
<1>. DEFINE d == made[Lease(w)]
            v == proc[w].v
            p == Pub(w)
<1>3. CASE RecordValidated(p, v, d) /\ Committed(w, "verify", v + 1)
  <2>1. p \in PubId /\ d \in Digests /\ d \in canon /\ v \in Nat /\ pubs[p] \in PubRow
    BY <1>1, <1>2, ProcFacts DEF CarriesOutput, Proc, WorkInv, LedgerInv, LedgerTypeOK
  <2>. HIDE DEF v, p, d
  <2>2. /\ v = pubs[p].version /\ pubs[p].digest = d /\ UNCHANGED lqVars
        /\ pubs' = [pubs EXCEPT ![p].state = "validated", ![p].version = @ + 1,
                                ![p].blob = d]
    BY <1>3 DEF RecordValidated, AtVersion
  <2>3. LedgerNext
    BY <1>3, <2>1, <2>2 DEF LedgerNext, LedgerStep
  <2>. DEFINE u == pubs[p].version + 1
              r == [pubs[p] EXCEPT !.state = "validated", !.version = u, !.blob = d]
  <2>4. pubs' = [pubs EXCEPT ![p] = r] /\ u \in Nat
    <3>1. pubs \in [PubId -> PubRow]
      BY DEF WorkInv, LedgerInv, LedgerTypeOK
    <3>2. pubs' = [pubs EXCEPT ![p] = r]
      BY <2>1, <2>2, <3>1
    <3>. QED  BY <2>1, <3>2 DEF PubRow
  <2>. HIDE DEF u
  <2>5. /\ r \in PubRow /\ r.digest = pubs[p].digest /\ r.blob = d /\ r.stale = pubs[p].stale
    BY <2>1, <2>4 DEF PubRow, PubState, OpenPub
  <2>. HIDE DEF r
  <2>6. pubs[p].stale = NotStale
    BY <2>1 DEF WorkInv, RowIsOwnOutput
  <2>7. RowIsOwnOutput'
    BY <1>1, <1>2, <2>1, <2>2, <2>3, <2>4, <2>5, <2>6, OwnNameWritten DEF p, d
  <2>8. \A x \in Workers : x # w /\ proc[x].n # NoAttempt => OutputKept(x)
    BY <1>1, <1>2, <2>4, OwnRowOnly DEF p
  <2>9. "verify" \in PC /\ "verify" \in Publishing /\ "failing" \in Publishing /\ v + 1 \in Nat
    BY <2>1 DEF PC, Streaming, Publishing
  <2>10. mon' = mon /\ \E h \in Proc : /\ proc' = [proc EXCEPT ![w] = h]
                                       /\ h.pc \in {"verify", "failing"}
                                       /\ h.job = proc[w].job /\ h.n = proc[w].n
    BY <1>3, <2>9, CommittedForm
  <2>. QED  BY <1>1, <1>2, <2>3, <2>7, <2>8, <2>9, <2>10, PublishStepInv
<1>. QED  BY <1>1, <1>2, <1>3, PublishLocalInv DEF RecordCanonical

\* The winner is shown and its lease is over.
LEMMA FinalizeOutputInv ==
    ASSUME WorkInv, NEW w \in Workers, FinalizeOutput(w)
    PROVE  WorkInv'
<1>1. proc[w].pc = "finalize" /\ UNCHANGED <<canon, made>>
  BY DEF FinalizeOutput, Acting, At
<1>2. proc[w].pc \in Publishing \cap Producing /\ proc[w].n # NoAttempt
  BY <1>1, ProcFacts DEF Publishing, Producing, Streaming
<1>. DEFINE v == proc[w].v
            j == proc[w].job
            n == proc[w].n
            vs == [k \in {Output} |-> v]
<1>3. CASE Finalize(j, n, vs) /\ Committed(w, "cleanup", v + 1)
  <2>1. v \in Nat /\ j \in Jobs /\ Lease(w) \in Leases /\ Lease(w)[1] = j /\ Lease(w)[2] = n
    BY <1>2, ProcFacts DEF Proc
  <2>. HIDE DEF v, j, n
  <2>2. vs = [k \in {Output} |-> pubs[<<j, n, k>>].version]
    <3>1. DOMAIN vs = {Output} /\ vs[Output] = v
      OBVIOUS
    <3>. HIDE DEF vs
    <3>2. AtVersion(<<j, n, Output>>, {"validated"}, vs[Output])
      BY <1>3, <3>1 DEF Finalize
    <3>. QED  BY <3>1, <3>2 DEF AtVersion, vs
  <2>3. LedgerNext
    <3>1. {Output} \in SUBSET Kinds
      BY OutputAssumption
    <3>2. Finalize(Lease(w)[1], Lease(w)[2],
                   [k \in {Output} |-> pubs[<<Lease(w)[1], Lease(w)[2], k>>].version])
      BY <1>3, <2>1, <2>2
    <3>. QED  BY <2>1, <3>1, <3>2 DEF LedgerNext, LedgerStep
  <2>. HIDE DEF vs
  <2>4. \A q \in PubId : /\ pubs'[q].digest = pubs[q].digest
                         /\ pubs'[q].blob = pubs[q].blob
                         /\ pubs'[q].stale = pubs[q].stale
    <3>1. \A q \in PubId : \/ pubs'[q] = pubs[q]
                           \/ pubs'[q] = [pubs[q] EXCEPT !.state = "finalized", !.version = @ + 1]
      BY <1>3 DEF Finalize
    <3>2. \A q \in PubId : pubs[q] \in PubRow
      BY DEF WorkInv, LedgerInv, LedgerTypeOK
    <3>. QED  BY <3>1, <3>2 DEF PubRow
  <2>5. RowIsOwnOutput' /\ \A u \in Workers : proc[u].n # NoAttempt => OutputKept(u)
    BY <1>1, <2>3, <2>4, RowsKept
  <2>6. jobs'[j].state = "succeeded"
    BY <1>3, <2>1, FinalizeQueue DEF WorkInv
  <2>7. "cleanup" \in PC /\ "cleanup" \in Publishing /\ "failing" \in Publishing /\ v + 1 \in Nat
    BY <2>1 DEF PC, Publishing
  <2>8. mon' = mon /\ \E h \in Proc : /\ proc' = [proc EXCEPT ![w] = h]
                                      /\ h.pc \in {"cleanup", "failing"}
                                      /\ h.job = j /\ h.n = n
    BY <1>3, <2>7, CommittedForm DEF j, n
  <2>9. PICK h \in Proc : /\ proc' = [proc EXCEPT ![w] = h]
                          /\ h.pc \in {"cleanup", "failing"}
                          /\ h.job = j /\ h.n = n
    BY <2>8
  <2>10. ~LeaseCurrent(h.job, h.n)' /\ h.job = proc[w].job /\ h.n = proc[w].n
    <3>1. jobs'[h.job].state = "succeeded"
      BY <2>6, <2>9
    <3>. QED  BY <2>9, <3>1 DEF j, n, LeaseCurrent, LockCurrent
  <2>11. h.pc \in Publishing /\ h.pc # "record_validated"
    BY <2>7, <2>9
  <2>. QED  BY <1>1, <1>2, <2>3, <2>5, <2>8, <2>9, <2>10, <2>11, PublishStepInv
<1>. QED  BY <1>1, <1>2, <1>3, PublishLocalInv DEF FinalizeOutput

\* run_once returns; the lease of the winner is over already.
LEMMA CleanupInv ==
    ASSUME WorkInv, NEW w \in Workers, Cleanup(w)
    PROVE  WorkInv'
<1>1. /\ proc[w].pc = "cleanup" /\ UNCHANGED <<canon, made>> /\ Goto(w, "idle")
      /\ mon' = [mon EXCEPT ![w] = "off"]
  BY DEF Cleanup, At
<1>2. proc[w].n # NoAttempt /\ Pub(w) \in PubId
  BY <1>1, ProcFacts
<1>3. ~Mine(w)
  BY <1>1, <1>2, ProcFacts DEF KnowsLeaseEnd, BelievesLeaseOver
<1>4. [LedgerNext]_ledgerVars /\ RowIsOwnOutput'
      /\ \A u \in Workers : proc[u].n # NoAttempt => OutputKept(u)
  <2>1. CASE RecordCleanup(Pub(w), pubs[Pub(w)].version)
    BY <1>1, <1>2, <2>1, SameNames, RowsKept
  <2>2. CASE UNCHANGED ledgerVars
    <3>1. pubs' = pubs
      BY <2>2 DEF ledgerVars
    <3>. QED  BY <1>1, <2>2, <3>1, RowsKept
  <2>. QED  BY <2>1, <2>2 DEF Cleanup
<1>5. "idle" \in PC /\ "off" \in Monitor
  BY DEF PC, Monitor
<1>6. PICK h \in Proc : /\ proc' = [proc EXCEPT ![w] = h]
                        /\ h.pc = "idle" /\ h.job = proc[w].job /\ h.n = proc[w].n
  BY <1>1, <1>5, GotoForm
<1>7. proc'[w] = h /\ mon'[w] = "off"
  BY <1>1, <1>6 DEF WorkInv, WorkerTypeOK
<1>8. /\ h.pc \notin Producing /\ h.pc # "record_validated"
      /\ h.pc \notin {"claimed", "deployed", "evidence", "invoke"}
  BY <1>6 DEF Producing, Streaming
<1>9. ProcSound(w)'
  BY <1>2, <1>3, <1>4, <1>5, <1>6, <1>7, <1>8, MovedSound
<1>10. /\ canon \subseteq canon' /\ canon' \subseteq Digests
       /\ made' \in [Jobs \X (1..MaxAttempts) -> Digests \cup {NoDigest}]
  BY <1>1 DEF WorkInv, WorkerTypeOK
<1>. QED  BY <1>1, <1>4, <1>5, <1>6, <1>9, <1>10, ActInv

-----------------------------------------------------------------------------
(* Operations of the queue *)

\* A transaction of the queue by which process w moves on.
LEMMA QueueMoveInv ==
    ASSUME WorkInv, QueueStep, UNCHANGED <<pubVars, canon, made>>,
           NEW w \in Workers, NEW h \in Proc, NEW m \in Monitor,
           proc' = [proc EXCEPT ![w] = h], mon' = [mon EXCEPT ![w] = m],
           proc[w].n # NoAttempt, h.job = proc[w].job, h.n = proc[w].n,
           m # "off" => h.pc \in Publishing,
           SaysOver(h, m) => ~Mine(w) \/ ~LeaseCurrent(h.job, h.n)',
           h.pc \in Producing => made[Lease(w)] \in Digests,
           h.pc = "record_validated" => made[Lease(w)] \in canon,
           h.pc \in {"claimed", "deployed", "evidence", "invoke"} => Executing(w)
    PROVE  WorkInv'
<1>1. LedgerNext
  BY DEF LedgerNext
<1>2. pubs' = pubs /\ canon \subseteq canon' /\ canon' \subseteq Digests
  BY DEF pubVars, WorkInv, WorkerTypeOK
<1>3. /\ RowIsOwnOutput'
      /\ \A u \in Workers : proc[u].n # NoAttempt => OutputKept(u)
      /\ made' \in [Jobs \X (1..MaxAttempts) -> Digests \cup {NoDigest}]
  BY <1>1, <1>2, RowsKept
<1>4. proc'[w] = h /\ mon'[w] = m
  BY DEF WorkInv, WorkerTypeOK
<1>5. ProcSound(w)'
  BY <1>1, <1>3, <1>4, MovedSound
<1>. QED  BY <1>1, <1>2, <1>3, <1>5, ActInv

\* The lease that a transaction has ended is over.
LEMMA EndedIsOver ==
    ASSUME WorkInv, NEW j \in Jobs, NEW n \in Nat \ {NoAttempt}, NEW m, EndLeases({j}, m)
    PROVE  ~LeaseCurrent(j, n)'
<1>1. jobs[j] \in JobRow
  BY DEF WorkInv, LedgerInv, LQInv, LQTypeOK
<1>2. jobs'[j].current = NoAttempt
  BY <1>1 DEF EndLeases, JobRow
<1>. QED  BY <1>2 DEF LeaseCurrent, LockCurrent

\* The lease is ended, or its rows are locked and it is not.
LEMMA EndLeaseInv ==
    ASSUME WorkInv, NEW w \in Workers, EndLease(w)
    PROVE  WorkInv'
<1>1. UNCHANGED <<pubVars, canon, made>> /\ proc[w].pc \in Ending
  BY DEF EndLease
<1>2. /\ proc[w].n # NoAttempt /\ Lease(w) \in Leases /\ proc[w].job \in Jobs
      /\ Lease(w)[1] = proc[w].job /\ Lease(w)[2] = proc[w].n /\ proc[w].n \in Nat \ {NoAttempt}
  BY <1>1, ProcFacts DEF Ending, Proc
<1>3. CASE Leaves(w, MineUnexpired(w)) /\ UNCHANGED lqVars
  <2>1. UNCHANGED <<ledgerVars, made, canon>>
    BY <1>1, <1>3 DEF lqVars, pubVars, ledgerVars
  <2>2. MineUnexpired(w) \in BOOLEAN
    BY DEF MineUnexpired, LockCurrent
  <2>3. ~MineUnexpired(w) => ~Mine(w)
    BY DEF Mine, MineUnexpired, LeaseCurrent
  <2>. QED  BY <1>2, <1>3, <2>1, <2>2, <2>3, LeavesInv
<1>4. ASSUME NEW m \in {1, MaxAttempts}, Exit(w),
             CancelCurrent(proc[w].job, proc[w].n) \/ FailRetryable(proc[w].job, proc[w].n, m)
      PROVE  WorkInv'
  <2>1. QueueStep
    BY <1>2, <1>4 DEF QueueStep
  <2>2. PICK i : EndLeases({proc[w].job}, i)
    BY <1>4 DEF CancelCurrent, FailRetryable
  <2>3. PICK h \in Proc : /\ proc' = [proc EXCEPT ![w] = h]
                          /\ mon' = [mon EXCEPT ![w] = "off"]
                          /\ h.pc = "down" /\ h.job = proc[w].job /\ h.n = proc[w].n
    BY <1>4, LeavesForm DEF Exit
  <2>4. /\ h.pc \notin Producing /\ h.pc # "record_validated" /\ "off" \in Monitor
        /\ h.pc \notin {"claimed", "deployed", "evidence", "invoke"}
    BY <2>3 DEF Producing, Streaming, Monitor
  <2>5. ~LeaseCurrent(h.job, h.n)'
    <3>1. h.job \in Jobs /\ h.n \in Nat \ {NoAttempt} /\ EndLeases({h.job}, i)
      BY <1>2, <2>2, <2>3
    <3>. QED  BY <3>1, EndedIsOver
  <2>. QED  BY <1>1, <1>2, <2>1, <2>3, <2>4, <2>5, QueueMoveInv
<1>. QED  BY <1>3, <1>4 DEF EndLease

\* A heartbeat, of either thread.
LEMMA HeartbeatsInv ==
    ASSUME WorkInv, NEW w \in Workers, RuntimeHeartbeat(w) \/ MonitorHeartbeat(w)
    PROVE  WorkInv'
<1>. DEFINE h == proc[w]
            m == IF RuntimeHeartbeat(w) THEN mon[w] ELSE "on"
<1>1. /\ UNCHANGED <<pubVars, canon, made>> /\ Heartbeat(proc[w].job, proc[w].n)
      /\ h \in Proc /\ m \in Monitor
      /\ proc' = [proc EXCEPT ![w] = h] /\ mon' = [mon EXCEPT ![w] = m]
  BY ProcFacts DEF RuntimeHeartbeat, MonitorHeartbeat, WorkInv, WorkerTypeOK, procVars, Monitor
<1>2. Executing(w) \/ mon[w] # "off"
  BY DEF RuntimeHeartbeat, MonitorHeartbeat, MonitorLives
<1>3. /\ proc[w].n # NoAttempt /\ Lease(w) \in Leases
      /\ Lease(w)[1] = proc[w].job /\ Lease(w)[2] = proc[w].n
  BY <1>2, ProcFacts DEF Executing, Publishing, Streaming
<1>4. QueueStep
  BY <1>1, <1>3 DEF QueueStep
<1>5. m # "off" => h.pc \in Publishing
  BY <1>1, ProcFacts DEF RuntimeHeartbeat, MonitorHeartbeat, MonitorLives
<1>6. SaysOver(h, m) => ~Mine(w)
  BY <1>3, ProcFacts DEF SaysOver, KnowsLeaseEnd, BelievesLeaseOver
<1>7. /\ h.pc \in Producing => made[Lease(w)] \in Digests
      /\ h.pc = "record_validated" => made[Lease(w)] \in canon
      /\ h.pc \in {"claimed", "deployed", "evidence", "invoke"} => Executing(w)
      /\ h.job = proc[w].job /\ h.n = proc[w].n
  BY ProcFacts DEF CarriesOutput, Executing
<1>. HIDE DEF h, m
<1>. QED  BY <1>1, <1>3, <1>4, <1>5, <1>6, <1>7, QueueMoveInv

\* A process starts again, or dies.
LEMMA RestartInv ==
    ASSUME WorkInv, NEW w \in Workers, Restart(w) \/ Crash(w)
    PROVE  WorkInv'
<1>1. CASE Crash(w)
  BY <1>1, DiesInv DEF Crash
<1>2. CASE Restart(w)
  <2>1. [LedgerNext]_ledgerVars
    <3>1. CASE RegisterWorker(w)
      BY <1>2, <3>1 DEF Restart, LedgerNext, QueueStep
    <3>2. CASE UNCHANGED lqVars
      BY <1>2, <3>2 DEF Restart, lqVars, pubVars, ledgerVars
    <3>. QED  BY <1>2, <3>1, <3>2 DEF Restart
  <2>. QED  BY <1>2, <2>1, DropInv DEF Restart
<1>. QED  BY <1>1, <1>2

\* A claim: no row of the ledger belongs to a lease that was not granted before.
LEMMA ClaimInv ==
    ASSUME WorkInv, NEW w \in Workers, Claim(w)
    PROVE  WorkInv'
<1>1. /\ proc[w].pc = "idle" /\ UNCHANGED <<pubVars, mon, canon, made>>
  BY DEF Claim, At
<1>2. PICK j \in Jobs, locked \in SUBSET Jobs :
        /\ ClaimNext(w, j, locked)
        /\ proc' = [proc EXCEPT ![w] = [NewProc("claimed") EXCEPT
                        !.job = j, !.n = Len(attempts[j]) + 1]]
  BY DEF Claim
<1>. DEFINE n == Len(attempts[j]) + 1
            h == [NewProc("claimed") EXCEPT !.job = j, !.n = n]
            r == [worker |-> w, epoch |-> NextEpoch(j), state |-> "active",
                  ttl |-> LeaseSeconds]
<1>3. QueueStep
  BY <1>2 DEF QueueStep
<1>4. LedgerNext
  BY <1>1, <1>3 DEF LedgerNext
<1>5. /\ attempts \in [Jobs -> Seq(AttemptRow)] /\ attempts[j] \in Seq(AttemptRow)
      /\ Len(attempts[j]) \in Nat /\ Len(attempts[j]) < MaxAttempts
  <2>1. LQInv /\ jobs[j].state = "queued"
    BY <1>2 DEF WorkInv, LedgerInv, ClaimNext, Claimable
  <2>. QED  BY <2>1, LenProperties DEF LQInv, LQTypeOK, RetryBudget
<1>6. n \in 1..MaxAttempts /\ n \in Nat /\ n # NoAttempt /\ ~Granted(j, n)
  BY <1>5, LimitAssumption DEF NoAttempt, Granted
<1>7. attempts' = [attempts EXCEPT ![j] = Append(attempts[j], r)]
  BY <1>2 DEF ClaimNext, Grant
<1>8. r.worker = w
  OBVIOUS
<1>. HIDE DEF r
<1>9. Len(attempts'[j]) = n /\ attempts'[j][n] = r
  BY <1>5, <1>7
<1>10. h \in Proc /\ h.pc = "claimed" /\ h.job = j /\ h.n = n /\ proc' = [proc EXCEPT ![w] = h]
  <2>. HIDE DEF n
  <2>. QED  BY <1>2, <1>6 DEF NewProc, Proc, PC, n
<1>. HIDE DEF h, n
<1>11. mon[w] = "off" /\ mon' = [mon EXCEPT ![w] = "off"] /\ "off" \in Monitor
  BY <1>1, ProcFacts DEF Publishing, Streaming, WorkInv, WorkerTypeOK, Monitor
<1>12. proc'[w] = h /\ mon'[w] = "off"
  BY <1>10, <1>11 DEF WorkInv, WorkerTypeOK
<1>13. /\ pubs' = pubs /\ made' = made /\ canon \subseteq canon' /\ canon' \subseteq Digests
  BY <1>1 DEF pubVars, WorkInv, WorkerTypeOK
<1>14. /\ RowIsOwnOutput'
       /\ \A u \in Workers : proc[u].n # NoAttempt => OutputKept(u)
       /\ made' \in [Jobs \X (1..MaxAttempts) -> Digests \cup {NoDigest}]
  BY <1>4, <1>13, RowsKept
<1>15. ProcSound(w)'
  <2>1. Lease(w)' = <<j, n>>
    BY <1>10, <1>12 DEF Lease
  <2>2. <<j, n>> \in Leases'
    BY <1>6, <1>9 DEF Leases, Granted
  <2>3. OwnsLease(w)'
    BY <1>6, <1>8, <1>9, <1>10, <1>12, <2>1, <2>2 DEF OwnsLease
  <2>4. KnowsLeaseEnd(w)'
    BY <1>10, <1>12 DEF KnowsLeaseEnd, BelievesLeaseOver
  <2>5. ASSUME NEW k \in Kinds
        PROVE  pubs'[<<j, n, k>>].digest = NoDigest /\ pubs'[<<j, n, k>>].blob = NoDigest
    <3>. DEFINE p == <<j, n, k>>
    <3>1. p \in PubId /\ p[1] = j /\ p[2] = n
      BY <1>6 DEF PubId
    <3>. HIDE DEF p
    <3>2. pubs[p].digest = NoDigest /\ pubs[p].blob = NoDigest
      BY <1>6, <3>1 DEF WorkInv, RowIsOwnOutput
    <3>. QED  BY <1>13, <3>2 DEF p
  <2>6. h.pc \notin Producing /\ h.pc # "record_validated"
    BY <1>10 DEF Producing, Streaming
  <2>7. CarriesOutput(w)'
    BY <1>10, <1>12, <2>5, <2>6 DEF CarriesOutput
  <2>. QED  BY <2>3, <2>4, <2>7 DEF ProcSound
<1>. QED  BY <1>4, <1>10, <1>11, <1>13, <1>14, <1>15, ActInv

\* Where no row is condemned, the clock of the queue is the clock of the ledger.
LEMMA TickIsLedgerTick ==
    ASSUME WorkInv, Tick, UNCHANGED pubVars
    PROVE  LedgerTick
<1>1. pubs \in [PubId -> PubRow] /\ \A p \in PubId : pubs[p].stale = NotStale
  BY DEF WorkInv, LedgerInv, LedgerTypeOK, RowIsOwnOutput
<1>2. \A p \in PubId : [pubs[p] EXCEPT !.stale = GraceAfter(@)] = pubs[p]
  BY <1>1 DEF GraceAfter, NotStale, PubRow
<1>3. pubs = [p \in PubId |-> [pubs[p] EXCEPT !.stale = GraceAfter(@)]]
  BY <1>1, <1>2
<1>. QED  BY <1>3 DEF LedgerTick, pubVars

\* Clients, the reaper and the clock.
LEMMA ServiceInv ==
    ASSUME WorkInv, (Client \/ Reaper \/ Tick) /\ UNCHANGED <<pubVars, procVars>>
    PROVE  WorkInv' /\ LedgerNext
<1>1. UNCHANGED <<pubVars, proc, mon, canon, made>> /\ pubs' = pubs
  BY DEF procVars, pubVars
<1>2. LedgerNext
  <2>1. CASE Tick
    BY <1>1, <2>1, TickIsLedgerTick DEF LedgerNext
  <2>2. CASE Client \/ Reaper
    BY <1>1, <2>2 DEF Client, Reaper, QueueStep, LedgerNext
  <2>. QED  BY <2>1, <2>2
<1>3. canon \subseteq canon'
  BY <1>1
<1>4. RowIsOwnOutput' /\ \A u \in Workers : proc[u].n # NoAttempt => OutputKept(u)
  BY <1>1, <1>2, <1>3, RowsKept
<1>5. LedgerInv' /\ LedgerTypeOK'
  BY <1>2, LedgerNextInv DEF WorkInv, LedgerInv
<1>6. WorkerTypeOK'
  BY <1>1, <1>5 DEF WorkInv, WorkerTypeOK
<1>7. \A u \in Workers : ProcSound(u)'
  BY <1>1, <1>2, <1>3, <1>4, Still
<1>. QED  BY <1>2, <1>4, <1>5, <1>6, <1>7 DEF WorkInv, ProcSound

\* Nothing happens.
LEMMA WorkStutterInv ==
    ASSUME WorkInv, UNCHANGED workVars
    PROVE  WorkInv'
<1>1. UNCHANGED <<ledgerVars, proc, mon, canon, made>>
  BY DEF workVars, procVars
<1>2. pubs' = pubs /\ canon \subseteq canon'
  BY <1>1 DEF ledgerVars
<1>3. RowIsOwnOutput' /\ \A u \in Workers : proc[u].n # NoAttempt => OutputKept(u)
  BY <1>1, <1>2, RowsKept
<1>4. LedgerInv' /\ LedgerTypeOK'
  BY <1>1, LedgerNextInv DEF WorkInv, LedgerInv
<1>5. WorkerTypeOK'
  BY <1>1, <1>4 DEF WorkInv, WorkerTypeOK
<1>6. \A u \in Workers : ProcSound(u)'
  BY <1>1, <1>2, <1>3, Still
<1>. QED  BY <1>3, <1>4, <1>5, <1>6 DEF WorkInv, ProcSound

\* The invariant holds when every process is down.
LEMMA WorkInitInv == WorkInit => WorkInv
<1>. SUFFICES ASSUME WorkInit  PROVE WorkInv
  OBVIOUS
<1>1. LedgerInv /\ LedgerTypeOK
  BY LedgerInitInv DEF WorkInit, LedgerInv
<1>2. /\ NewProc("down") \in Proc /\ NewProc("down").n = NoAttempt
      /\ NewProc("down").pc = "down" /\ "off" \in Monitor
  BY DEF NewProc, Proc, PC, NoAttempt, Monitor
<1>3. /\ proc \in [Workers -> Proc] /\ mon \in [Workers -> Monitor]
      /\ \A w \in Workers : proc[w].n = NoAttempt /\ proc[w].pc = "down" /\ mon[w] = "off"
  BY <1>2 DEF WorkInit
<1>4. WorkerTypeOK
  BY <1>1, <1>3 DEF WorkInit, WorkerTypeOK
<1>5. RowIsOwnOutput
  BY DEF WorkInit, LedgerInit, RowIsOwnOutput, NoPub
<1>6. \A w \in Workers : OwnsLease(w) /\ KnowsLeaseEnd(w) /\ CarriesOutput(w)
  BY <1>3 DEF OwnsLease, KnowsLeaseEnd, BelievesLeaseOver, CarriesOutput, Executing,
              Producing, Streaming
<1>. QED  BY <1>1, <1>4, <1>5, <1>6 DEF WorkInv

-----------------------------------------------------------------------------
(* The theorems *)

\* Every step of the workers, their clients and the clock keeps the invariant.
LEMMA WorkNextInv ==
    ASSUME WorkInv, [WorkNext]_workVars
    PROVE  WorkInv'
<1>1. ASSUME NEW w \in Workers, ThreadStep(w)  PROVE WorkInv'
  <2>1. CASE \/ RuntimeLeaseLost(w) \/ LoadDeployment(w) \/ LoadEvidence(w)
             \/ Materialize(w) \/ Produced(w) \/ Faulted(w)
    BY <2>1, StageInv
  <2>2. CASE Restart(w) \/ Claim(w) \/ Invoke(w) \/ Rejected(w) \/ Stopped(w) \/ EndLease(w)
    BY <2>2, RestartInv, ClaimInv, InvokeInv, GiveBackInv, EndLeaseInv
  <2>3. CASE StartMonitor(w) \/ Plan(w) \/ FinishFailure(w) \/ Checkpoint(w)
    BY <2>3, StartMonitorInv, PlanInv, FinishFailureInv, CheckpointInv
  <2>4. CASE \/ ReserveOutput(w) \/ WriteObject(w) \/ RecordOutput(w)
             \/ ValidateObject(w) \/ PromoteObject(w) \/ RecordCanonical(w)
             \/ VerifyCanonical(w) \/ FinalizeOutput(w) \/ Cleanup(w)
    BY <2>4, ReserveOutputInv, ObjectStepInv, RecordOutputInv, PromoteObjectInv,
       RecordCanonicalInv, FinalizeOutputInv, CleanupInv
  <2>. QED  BY <1>1, <2>1, <2>2, <2>3, <2>4 DEF ThreadStep
<1>. QED  BY <1>1, RestartInv, HeartbeatsInv, MonitorStopsInv, ServiceInv, WorkStutterInv
          DEF WorkNext

\* Rows name only what their own lease made, leases belong to the processes that
\* claimed them, and what a process believes of the end of its lease is true,
\* under every interleaving of deliveries, monitors, crashes, restarts and reaps.
THEOREM WorkInvariance == WorkSpec => []WorkInv
<1>1. WorkInv /\ [WorkNext]_workVars => WorkInv'
  BY WorkNextInv
<1>. QED  BY <1>1, WorkInitInv, PTL DEF WorkSpec

\* What a client is shown is what the runtime of the winning attempt produced and
\* its bytes are in the canonical store, for any number of jobs, workers and
\* attempts and any results of the runtime.
THEOREM WinnersOwnOutput == WorkSpec => []WinnerIsOwnOutput
<1>1. WorkInv => WinnerIsOwnOutput
  <2>. SUFFICES ASSUME WorkInv, NEW a \in artifacts
                PROVE  a.blob = made[<<a.job, a.attempt>>] /\ a.blob \in canon
    BY DEF WinnerIsOwnOutput
  <2>. DEFINE p == <<a.job, a.attempt, a.kind>>
  <2>1. a \in ArtifactRow /\ a.attempt \in 1..MaxAttempts /\ pubs[p].blob = a.blob
    BY DEF WorkInv, LedgerInv, LedgerTypeOK, ArtifactOfRow
  <2>2. a.job \in Jobs /\ a.kind \in Kinds /\ a.blob # NoDigest
    BY <2>1, DigestAssumption DEF ArtifactRow
  <2>3. p \in PubId /\ p[1] = a.job /\ p[2] = a.attempt
    BY <2>1, <2>2 DEF PubId
  <2>. HIDE DEF p
  <2>. QED  BY <2>1, <2>2, <2>3 DEF WorkInv, RowIsOwnOutput
<1>. QED  BY <1>1, WorkInvariance, PTL

\* A delivery that ends by itself leaves no current lease behind, unless SKIP
\* LOCKED made it believe that its lease was lost.
THEOREM LeasesReleased == WorkSpec => []ReleasedOnExit
<1>1. WorkInv => ReleasedOnExit
  BY DEF WorkInv, ReleasedOnExit, KnowsLeaseEnd, BelievesLeaseOver
<1>. QED  BY <1>1, WorkInvariance, PTL

\* Every step of a worker is a transaction of the ledger or none of its business.
LEMMA WorkStepOfLedger ==
    ASSUME WorkInv, [WorkNext]_workVars
    PROVE  [LedgerNext]_ledgerVars
<1>1. ASSUME NEW w \in Workers, ThreadStep(w)  PROVE [LedgerNext]_ledgerVars
  <2>1. CASE \/ RuntimeLeaseLost(w) \/ LoadDeployment(w) \/ LoadEvidence(w)
             \/ Materialize(w) \/ Produced(w) \/ Faulted(w) \/ Invoke(w) \/ Rejected(w)
             \/ Stopped(w) \/ StartMonitor(w) \/ Plan(w) \/ FinishFailure(w) \/ Checkpoint(w)
             \/ VerifyCanonical(w)
    BY <2>1 DEF RuntimeLeaseLost, LoadDeployment, LoadEvidence, Materialize, Produced, Faulted,
                Stage, Invoke, Rejected, Stopped, StartMonitor, Plan, FinishFailure, Checkpoint,
                VerifyCanonical, Pass, IOError
  <2>2. CASE Restart(w)
    BY <2>2 DEF Restart, LedgerNext, QueueStep, lqVars, pubVars, ledgerVars
  <2>3. CASE Claim(w)
    BY <2>3 DEF Claim, LedgerNext, QueueStep
  <2>4. CASE EndLease(w)
    <3>1. /\ Lease(w) \in Leases /\ Lease(w)[1] = proc[w].job /\ Lease(w)[2] = proc[w].n
      BY <2>4, ProcFacts DEF EndLease, Ending
    <3>2. QueueStep \/ UNCHANGED lqVars
      BY <2>4, <3>1 DEF EndLease, QueueStep
    <3>. QED  BY <2>4, <3>2 DEF EndLease, LedgerNext, lqVars, pubVars, ledgerVars
  <2>5. CASE \/ ReserveOutput(w) \/ WriteObject(w) \/ RecordOutput(w)
             \/ ValidateObject(w) \/ PromoteObject(w) \/ RecordCanonical(w)
             \/ FinalizeOutput(w) \/ Cleanup(w)
    <3>1. /\ Pub(w) \in PubId /\ Lease(w) \in Leases
          /\ Lease(w)[1] = proc[w].job /\ Lease(w)[2] = proc[w].n
          /\ Pub(w) = <<proc[w].job, proc[w].n, Output>>
      BY <2>5, ProcFacts DEF ReserveOutput, WriteObject, RecordOutput, ValidateObject,
            PromoteObject, RecordCanonical, FinalizeOutput, Cleanup, Acting, At, Pub
    <3>2. ASSUME NEW v, Reserve(Pub(w)) \/ Reject(Pub(w), v) \/ RecordCleanup(Pub(w), v)
          PROVE  LedgerNext
      BY <3>1, <3>2, SameNames
    <3>3. ASSUME NEW f, RejectAndFail(w, f)  PROVE [LedgerNext]_ledgerVars
      BY <3>2, <3>3 DEF RejectAndFail, Fenced
    <3>4. CASE ReserveOutput(w)
      BY <3>2, <3>4 DEF ReserveOutput, Fenced, IOError
    <3>5. CASE WriteObject(w) \/ ValidateObject(w) \/ PromoteObject(w)
      BY <3>3, <3>5 DEF WriteObject, ValidateObject, PromoteObject, Pass, Drifts, IOError
    <3>6. CASE RecordOutput(w) \/ RecordCanonical(w)
      <4>1. made[Lease(w)] \in Digests
        BY <3>6, ProcFacts DEF RecordOutput, RecordCanonical, At, CarriesOutput, Producing
      <4>2. CASE RecordObject(Pub(w), proc[w].v, made[Lease(w)])
        BY <3>1, <4>1, <4>2 DEF RecordObject, AtVersion, LedgerNext, LedgerStep
      <4>3. CASE RecordValidated(Pub(w), proc[w].v, made[Lease(w)])
        BY <3>1, <4>1, <4>3 DEF RecordValidated, AtVersion, LedgerNext, LedgerStep
      <4>. QED  BY <3>6, <4>2, <4>3 DEF RecordOutput, RecordCanonical, Fenced, IOError
    <3>7. CASE FinalizeOutput(w)
      <4>1. CASE Finalize(proc[w].job, proc[w].n, [k \in {Output} |-> proc[w].v])
        <5>. DEFINE vs == [k \in {Output} |-> proc[w].v]
        <5>1. DOMAIN vs = {Output} /\ vs[Output] = proc[w].v
          OBVIOUS
        <5>2. proc[w].v = pubs[<<proc[w].job, proc[w].n, Output>>].version
          <6>. HIDE DEF vs
          <6>1. AtVersion(<<proc[w].job, proc[w].n, Output>>, {"validated"}, vs[Output])
            BY <4>1, <5>1 DEF Finalize, vs
          <6>. QED  BY <5>1, <6>1 DEF AtVersion
        <5>3. vs = [k \in {Output} |-> pubs[<<Lease(w)[1], Lease(w)[2], k>>].version]
          BY <3>1, <5>2
        <5>4. Finalize(Lease(w)[1], Lease(w)[2],
                       [k \in {Output} |-> pubs[<<Lease(w)[1], Lease(w)[2], k>>].version])
          BY <3>1, <4>1, <5>3
        <5>5. {Output} \in SUBSET Kinds
          BY OutputAssumption
        <5>. QED  BY <3>1, <5>4, <5>5 DEF LedgerNext, LedgerStep
      <4>. QED  BY <3>7, <4>1 DEF FinalizeOutput, Fenced, IOError
    <3>8. CASE Cleanup(w)
      BY <3>2, <3>8 DEF Cleanup
    <3>. QED  BY <2>5, <3>4, <3>5, <3>6, <3>7, <3>8
  <2>. QED  BY <1>1, <2>1, <2>2, <2>3, <2>4, <2>5 DEF ThreadStep
<1>2. ASSUME NEW w \in Workers, Crash(w) \/ MonitorStops(w)
      PROVE  UNCHANGED ledgerVars
  BY <1>2 DEF Crash, MonitorStops
<1>3. ASSUME NEW w \in Workers, RuntimeHeartbeat(w) \/ MonitorHeartbeat(w)
      PROVE  LedgerNext
  <2>1. /\ Lease(w) \in Leases /\ Lease(w)[1] = proc[w].job /\ Lease(w)[2] = proc[w].n
    BY <1>3, ProcFacts DEF RuntimeHeartbeat, MonitorHeartbeat, Executing, MonitorLives,
                           Publishing, Streaming
  <2>2. Heartbeat(Lease(w)[1], Lease(w)[2]) /\ UNCHANGED pubVars
    BY <1>3, <2>1 DEF RuntimeHeartbeat, MonitorHeartbeat
  <2>. QED  BY <2>1, <2>2 DEF LedgerNext, QueueStep
<1>4. CASE UNCHANGED workVars
  BY <1>4 DEF workVars
<1>. QED  BY <1>1, <1>2, <1>3, <1>4, ServiceInv DEF WorkNext

\* The workers implement the publication ledger: whatever they do to the queue
\* and to the ledger is one of its transactions, so that every property of
\* LedgerSpec holds of them.
THEOREM WorkImplementsLedger == WorkSpec => LedgerSpec
<1>1. WorkInit => LedgerInit
  BY DEF WorkInit
<1>2. WorkInv /\ [WorkNext]_workVars => [LedgerNext]_ledgerVars
  BY WorkStepOfLedger
<1>. QED  BY <1>1, <1>2, WorkInvariance, PTL DEF WorkSpec, LedgerSpec

\* So a worker never takes from a client what a winner has shown it, and winners
\* are complete.
THEOREM ShownUnderWork == WorkSpec => VisibleForEver /\ []WinnerComplete
BY WorkImplementsLedger, ShownForEver, WinnersComplete, PTL

\* The worker processes as a whole, with their crashes, lost answers and skipped
\* locks, implement the lifecycle that a client is promised.
THEOREM WorkImplementsLifecycle == WorkSpec => ImplementsLifecycle
BY WorkImplementsLedger, LedgerImplementsLifecycle, PTL

=============================================================================
