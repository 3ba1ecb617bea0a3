-------------------------- MODULE RecoverySet_proofs --------------------------
(***************************************************************************)
(* Why a sealed ledger is the history of its database, whatever releases   *)
(* are used on it, and why a backup or a restore that reports success has  *)
(* done it, however often it was stopped and begun again.  The inductive   *)
(* invariant is RecoveryInv of RecoverySet.                                *)
(***************************************************************************)
EXTENDS RecoverySet, TLAPS, SequenceTheorems

-----------------------------------------------------------------------------
(* The commands of Migrations *)

\* A release is a sequence of different files.
LEMMA ReleaseType ==
    ASSUME NEW r \in Releases
    PROVE  /\ r \in Seq(Files) /\ IsInjective(r) /\ Len(r) \in Nat /\ DOMAIN r = 1..Len(r)
           /\ \A i \in 1..Len(r) : r[i] \in Files
  BY ReleaseAssumption, LenProperties, ElementOfSeq

\* A part of a release from its beginning.
LEMMA PrefixType ==
    ASSUME NEW r \in Releases, NEW n \in 0..Len(r)
    PROVE  /\ SubSeq(r, 1, n) \in Seq(Files) /\ Len(SubSeq(r, 1, n)) = n
           /\ DOMAIN SubSeq(r, 1, n) = 1..n
           /\ \A i \in 1..n : SubSeq(r, 1, n)[i] = r[i]
           /\ IsInjective(SubSeq(r, 1, n))
<1>. DEFINE p == SubSeq(r, 1, n)
<1>1. Len(r) \in Nat /\ n \in Nat /\ n <= Len(r) /\ \A i \in 1..n : r[i] \in Files
  BY ReleaseType
<1>2. /\ p \in Seq(Files) /\ Len(p) = (IF 1 <= n THEN n - 1 + 1 ELSE 0)
      /\ \A i \in 1..(n - 1 + 1) : p[i] = r[1 + i - 1]
  BY <1>1, SubSeqProperties
<1>3. Len(p) = n /\ \A i \in 1..n : p[i] = r[i]
  BY <1>1, <1>2
<1>4. DOMAIN p = 1..n
  BY <1>2, <1>3, LenProperties
<1>5. IsInjective(p)
  <2>1. \A i \in 1..n : i \in DOMAIN r
    BY <1>1, ReleaseType
  <2>2. \A i, j \in DOMAIN r : r[i] = r[j] => i = j
    BY ReleaseType DEF IsInjective
  <2>. HIDE DEF p
  <2>. QED  BY <1>3, <1>4, <2>1, <2>2 DEF IsInjective
<1>. QED  BY <1>2, <1>3, <1>4, <1>5

\* What was executed of a release and what is pending are the release.
LEMMA PrefixExtended ==
    ASSUME NEW r \in Releases, NEW s \in Seq(Files), Len(s) <= Len(r),
           \A i \in DOMAIN s : s[i] = r[i]
    PROVE  s \o SubSeq(r, Len(s) + 1, Len(r)) = r
<1>. DEFINE k == Len(s)
            n == Len(r)
            p == SubSeq(r, k + 1, n)
<1>1. k \in Nat /\ n \in Nat /\ k <= n /\ DOMAIN s = 1..k
  BY ReleaseType, LenProperties
<1>2. \A i \in (k + 1)..n : r[i] \in Files
  BY <1>1, ReleaseType
<1>3. /\ p \in Seq(Files) /\ Len(p) = (IF k + 1 <= n THEN n - (k + 1) + 1 ELSE 0)
      /\ \A i \in 1..(n - (k + 1) + 1) : p[i] = r[(k + 1) + i - 1]
  BY <1>1, <1>2, SubSeqProperties
<1>4. Len(p) = n - k /\ \A i \in 1..(n - k) : p[i] = r[k + i]
  BY <1>1, <1>3
<1>. HIDE DEF p
<1>5. /\ s \o p \in Seq(Files) /\ Len(s \o p) = Len(s) + Len(p)
      /\ \A i \in 1..(Len(s) + Len(p)) : (s \o p)[i] = IF i <= Len(s) THEN s[i] ELSE p[i - Len(s)]
  BY <1>3, ConcatProperties
<1>6. Len(s \o p) = n
  BY <1>1, <1>4, <1>5
<1>7. ASSUME NEW i \in 1..n  PROVE (s \o p)[i] = r[i]
  <2>1. i <= k \/ (i - k \in 1..(n - k) /\ k + (i - k) = i)
    BY <1>1
  <2>. QED  BY <1>1, <1>4, <1>5, <1>7, <2>1
<1>8. s \o p = r
  BY <1>5, <1>6, <1>7, ReleaseType, SeqEqual
<1>. QED  BY <1>8 DEF p

\* What a command of Migrations may do to database d.
DbStep(d) ==
    /\ DOMAIN db' = Databases /\ \A e \in Databases : e # d => db'[e] = db[e]
    /\ HistorySound(db'[d]) /\ db'[d].rows = db[d].rows

LEMMA RowFields == DOMAIN NoRows = {"executed", "ledger", "seal", "granted", "rows"}
  BY DEF NoRows

\* Whichever release is used, what was executed is the beginning of it.
LEMMA MigratesSound ==
    ASSUME DOMAIN db = Databases, NEW d \in Databases, HistorySound(db[d]),
           NEW r \in MigrationSources, Migrates(d, r)
    PROVE  DbStep(d)
<1>. DEFINE p == SubSeq(r, Len(db[d].ledger) + 1, Len(r))
<1>1. r \in Releases
  BY DEF MigrationSources
<1>2. db[d].executed \o p = r /\ db[d].ledger \o p = r
  <2>1. db[d].ledger = db[d].executed
    <3>1. CASE db[d].ledger # <<>>
      BY <3>1 DEF Migrates, VerifiedSeal, HistorySound
    <3>2. CASE db[d].ledger = <<>>
      <4>1. PICK n \in 0..Len(Packaged) :
                db[d].executed = SubSeq(Packaged, 1, n) /\ DOMAIN db[d].ledger = 1..n
        BY <3>2 DEF Migrates, SealObjectsPresent, HistorySound
      <4>2. n = 0
        BY <3>2, <4>1
      <4>. QED  BY <3>2, <4>1, <4>2, SubSeqEmpty
    <3>. QED  BY <3>1, <3>2
  <2>2. db[d].executed \in Seq(Files)
    BY DEF HistorySound
  <2>3. Len(db[d].executed) <= Len(r) /\ \A i \in DOMAIN db[d].executed : db[d].executed[i] = r[i]
    BY <2>1 DEF Migrates, SealedRows, OrderedPrefix
  <2>. QED  BY <1>1, <2>1, <2>2, <2>3, PrefixExtended
<1>3. db' = [db EXCEPT ![d].executed = @ \o p, ![d].ledger = @ \o p, ![d].seal = "exact"]
  BY DEF Migrates
<1>4. /\ db'[d].executed = r /\ db'[d].ledger = r /\ db'[d].seal = "exact"
      /\ db'[d].rows = db[d].rows /\ DOMAIN db'[d] = DOMAIN NoRows /\ DOMAIN db' = Databases
      /\ \A e \in Databases : e # d => db'[e] = db[e]
  <2>. HIDE DEF p
  <2>. QED  BY <1>2, <1>3, RowFields DEF HistorySound
<1>5. HistorySound(db'[d])
  BY <1>1, <1>4, ReleaseType DEF HistorySound
<1>. QED  BY <1>4, <1>5 DEF DbStep

\* The digests that are adopted are those of the files that were executed.
LEMMA AdoptsSound ==
    ASSUME DOMAIN db = Databases, NEW d \in Databases, HistorySound(db[d]), NEW r,
           NEW trusted \in TrustedManifests, Adopts(d, r, trusted)
    PROVE  DbStep(d)
<1>1. Packaged \in Releases
  BY ReleaseAssumption
<1>2. PICK m \in 1..Len(Packaged) : trusted = SubSeq(Packaged, 1, m)
  BY DEF TrustedManifests
<1>3. PICK n \in 0..Len(Packaged) :
        db[d].executed = SubSeq(Packaged, 1, n) /\ DOMAIN db[d].ledger = 1..n
  BY DEF Adopts, Seals, SealObjectsPresent, HistorySound
<1>4. m \in 0..Len(Packaged) /\ Len(Packaged) \in Nat
  BY <1>1, ReleaseType
<1>5. 1..m = 1..n
  <2>1. DOMAIN trusted = 1..m
    BY <1>1, <1>2, <1>4, PrefixType
  <2>. QED  BY <1>3, <2>1 DEF Adopts
<1>6. trusted = db[d].executed
  <2>1. m = n
    BY <1>4, <1>5
  <2>. QED  BY <1>2, <1>3, <2>1
<1>7. db' = [db EXCEPT ![d].ledger = trusted, ![d].seal = "exact"]
  BY DEF Adopts, Seals
<1>8. /\ db'[d].executed = db[d].executed /\ db'[d].ledger = trusted /\ db'[d].seal = "exact"
      /\ db'[d].rows = db[d].rows /\ DOMAIN db'[d] = DOMAIN NoRows /\ DOMAIN db' = Databases
      /\ \A e \in Databases : e # d => db'[e] = db[e]
  BY <1>7, RowFields DEF HistorySound
<1>. QED  BY <1>6, <1>8 DEF DbStep, HistorySound

LEMMA GrantsSound ==
    ASSUME DOMAIN db = Databases, NEW d \in Databases, HistorySound(db[d]), NEW r, Grants(d, r)
    PROVE  DbStep(d)
<1>1. db' = [db EXCEPT ![d].granted = TRUE]
  BY DEF Grants
<1>2. /\ db'[d].executed = db[d].executed /\ db'[d].ledger = db[d].ledger
      /\ db'[d].seal = db[d].seal
      /\ db'[d].rows = db[d].rows /\ DOMAIN db'[d] = DOMAIN NoRows /\ DOMAIN db' = Databases
      /\ \A e \in Databases : e # d => db'[e] = db[e]
  BY <1>1, RowFields DEF HistorySound
<1>. QED  BY <1>2 DEF DbStep, HistorySound

LEMMA AdministersSound ==
    ASSUME DOMAIN db = Databases, NEW d \in Databases, HistorySound(db[d]), Administers(d)
    PROVE  DbStep(d)
  BY MigratesSound, AdoptsSound, GrantsSound DEF Administers

LEMMA TampersSound ==
    ASSUME DOMAIN db = Databases, NEW d \in Databases, HistorySound(db[d]), Tampers(d)
    PROVE  DbStep(d) /\ db'[d].seal = "broken"
<1>1. PICK rows : db' = [db EXCEPT ![d].ledger = rows, ![d].seal = "broken"]
  BY DEF Tampers
<1>2. /\ db'[d].executed = db[d].executed /\ db'[d].seal = "broken"
      /\ db'[d].rows = db[d].rows /\ DOMAIN db'[d] = DOMAIN NoRows /\ DOMAIN db' = Databases
      /\ \A e \in Databases : e # d => db'[e] = db[e]
  BY <1>1, RowFields DEF HistorySound
<1>. QED  BY <1>2 DEF DbStep, HistorySound

-----------------------------------------------------------------------------
(* RecoveryInv, by the variables that a step changes *)

LEMMA DirFields ==
    /\ DOMAIN EmptyDir = {"made", "objects", "dump", "manifest", "synced"}
    /\ EmptyDir.made = TRUE /\ EmptyDir.objects = {} /\ EmptyDir.manifest = None
    /\ NoDir.made = FALSE
  BY DEF EmptyDir, NoDir

\* The recovery set has the dump and the manifest that it had.
SetKept ==
    /\ target'["backup"].made = target["backup"].made
    /\ target["backup"].made =>
        /\ target'["backup"].dump = target["backup"].dump
        /\ target'["backup"].manifest = target["backup"].manifest

\* A step on the files.
LEMMA DiskStep ==
    ASSUME RecoveryInv, UNCHANGED <<db, canonical, service, switches>>, children' \subseteq children,
           DOMAIN state' = Commands, DOMAIN stage' = Commands, DOMAIN target' = Commands,
           \A c \in Commands : DirSound(stage'[c]) /\ DirSound(target'[c]),
           SetSound(stage'["backup"]),
           \/ SetKept
           \/ /\ ~target["backup"].made /\ target'["backup"].made
              /\ SetSound(target'["backup"]) /\ target'["backup"].manifest # None,
           \/ state'["restore"] \in {NoState, state["restore"]}
           \/ state'["restore"].phase \in DOMAIN Resume /\ Restoring(state'["restore"].id),
           ProcSound'
    PROVE  RecoveryInv'
<1>1. \A x : DumpSound(x)' <=> DumpSound(x)
  BY DEF DumpSound, RowsStored
<1>2. SetSound(target'["backup"])
  <2>1. SetSound(target["backup"])
    BY DEF RecoveryInv
  <2>. QED  BY <2>1 DEF SetSound, SetKept
<1>3. SetSound(stage["backup"])' /\ SetSound(target["backup"])'
  BY <1>1, <1>2 DEF SetSound
<1>4. target'["backup"].made => target'["backup"].manifest # None
  BY DEF SetKept, RecoveryInv
<1>5. \A child \in children' : /\ child.db \in Databases /\ target'["backup"].made
                               /\ child.dump = target'["backup"].dump
  BY DEF SetKept, RecoveryInv
<1>6. \A d : Restoring(d) => Restoring(d)'
  BY DEF Restoring, SetKept
<1>7. state'["restore"] # NoState =>
        state'["restore"].phase \in DOMAIN Resume /\ Restoring(state'["restore"].id)
  BY DEF RecoveryInv
<1>8. state'["restore"] # NoState =>
        (state["restore"].phase \in DOMAIN Resume /\ Restoring(state["restore"].id))'
  BY <1>7 DEF Restoring, SetKept, Resume
<1>9. \A d \in Databases : (HistorySound(db[d]) /\ RowsStored(db[d].rows))'
  BY DEF RecoveryInv, HistorySound, RowsStored
<1>10. \A c \in Commands : (DirSound(stage[c]) /\ DirSound(target[c]))'
  BY DEF DirSound
<1>11. /\ DOMAIN db' = Databases /\ switches' \in Nat
       /\ service' \in [Commands -> [db : Databases, version : 0..switches']]
  BY DEF RecoveryInv
<1>. QED
  BY <1>3, <1>4, <1>5, <1>8, <1>9, <1>10, <1>11 DEF RecoveryInv

\* A step on the files of which only the state files may change.
LEMMA SameDirs ==
    ASSUME RecoveryInv, UNCHANGED <<stage, target>>
    PROVE  /\ DOMAIN stage' = Commands /\ DOMAIN target' = Commands
           /\ \A c \in Commands : DirSound(stage'[c]) /\ DirSound(target'[c])
           /\ SetSound(stage'["backup"]) /\ SetKept
  BY DEF RecoveryInv, SetKept

-----------------------------------------------------------------------------
(* The running command *)

LEMMA CommandNames == "backup" \in Commands /\ "restore" \in Commands
  BY DEF Commands

LEMMA StoppedSound == proc' = Idle => ProcSound'
  BY DEF ProcSound

\* A command that is at a step is running.
LEMMA Running ==
    ASSUME RecoveryInv, NEW c \in Commands, NEW p, p # "idle", At(c, p)
    PROVE  /\ proc # Idle /\ proc.cmd = c /\ proc.pc = p /\ proc.id \in Databases
           /\ DOMAIN proc = {"cmd", "pc", "id", "version", "manifest"}
           /\ proc.version \in 0..switches
           /\ Bound(c) => service[c].db = proc.id
           /\ c = "backup" => BackupSound
           /\ c = "restore" => RestoreSound
<1>1. proc # Idle
  BY DEF At, Idle
<1>. QED  BY <1>1 DEF RecoveryInv, ProcSound, At

\* It goes on to another.
LEMMA GoesOn ==
    ASSUME RecoveryInv, NEW c \in Commands, NEW p, p # "idle", At(c, p), NEW q,
           Goto(q) \/ (q = p /\ UNCHANGED proc)
    PROVE  /\ proc'.cmd = c /\ proc'.pc = q /\ proc'.id = proc.id /\ proc'.version = proc.version
           /\ proc'.manifest = proc.manifest
           /\ DOMAIN proc' = {"cmd", "pc", "id", "version", "manifest"}
  BY Running DEF Goto

LEMMA GoesOnSound ==
    ASSUME RecoveryInv, NEW c \in Commands, NEW p, p # "idle", At(c, p), NEW q,
           Goto(q) \/ (q = p /\ UNCHANGED proc),
           UNCHANGED <<service, switches>>,
           c = "backup" => BackupSound', c = "restore" => RestoreSound'
    PROVE  ProcSound'
<1>1. /\ proc'.cmd = c /\ proc'.pc = q /\ proc'.id = proc.id /\ proc'.version = proc.version
      /\ DOMAIN proc' = {"cmd", "pc", "id", "version", "manifest"}
  BY GoesOn
<1>2. /\ proc.id \in Databases /\ proc.version \in 0..switches
      /\ Bound(c) => service[c].db = proc.id
  BY Running
<1>3. Bound(proc.cmd)' => service'[c].db = proc'.id
  BY <1>1, <1>2 DEF Bound
<1>. QED  BY <1>1, <1>2, <1>3 DEF ProcSound

\* A command begins with the database that its service file names.
LEMMA StartsSound ==
    ASSUME RecoveryInv, NEW c \in Commands, NEW q, NEW m, Starts(c, q, m),
           UNCHANGED <<service, switches>>,
           c = "backup" => BackupSound', c = "restore" => RestoreSound'
    PROVE  ProcSound'
<1>1. /\ proc'.cmd = c /\ proc'.pc = q /\ proc'.id = service[c].db
      /\ proc'.version = service[c].version
      /\ DOMAIN proc' = {"cmd", "pc", "id", "version", "manifest"}
  BY DEF Starts
<1>2. service[c].db \in Databases /\ service[c].version \in 0..switches
  BY DEF RecoveryInv
<1>. QED  BY <1>1, <1>2 DEF ProcSound, Bound

\* A restore between its first and its last steps.
LEMMA RestoreGoesOn ==
    ASSUME RecoveryInv, NEW p, p # "idle", At("restore", p),
           NEW q, q \notin {"mark", "rename", "unlink"}, Goto(q) \/ (q = p /\ UNCHANGED proc),
           UNCHANGED <<db, service, switches, target>>,
           state'["restore"].id = proc.id
    PROVE  ProcSound'
<1>1. /\ proc'.cmd = "restore" /\ proc'.pc = q /\ proc'.id = proc.id
      /\ proc'.manifest = proc.manifest
  BY CommandNames, GoesOn
<1>2. RestoreSound
  BY CommandNames, Running
<1>3. RestoreSound'
  BY <1>1, <1>2 DEF RestoreSound, Valid, Restoring
<1>. QED  BY <1>3, CommandNames, GoesOnSound

-----------------------------------------------------------------------------
(* create_recovery_set *)

LEMMA StartBackupStep ==
    ASSUME RecoveryInv, StartBackup
    PROVE  RecoveryInv'
<1>. DEFINE id == service["backup"].db
            st == state["backup"]
            dir == stage["backup"]
            set == target["backup"]
<1>1. /\ HasSealedLedger(id)
      /\ UNCHANGED <<db, children, state, stage, target, canonical, service, switches>>
  BY DEF StartBackup, disk, Outside
<1>2. \E q, m :
        /\ Starts("backup", q, m)
        /\ \/ q \in {"mark", "discard"}
           \/ q = "sync" /\ Valid(dir) /\ dir.manifest.id = id
           \/ q = "unlink" /\ Valid(set) /\ set.manifest.id = id /\ st.id = id
           \/ q = "republish" /\ Valid(dir) /\ dir.manifest.id = id /\ st.id = id
  BY DEF StartBackup
<1>3. PICK q, m :
        /\ Starts("backup", q, m)
        /\ \/ q \in {"mark", "discard"}
           \/ q = "sync" /\ Valid(dir) /\ dir.manifest.id = id
           \/ q = "unlink" /\ Valid(set) /\ set.manifest.id = id /\ st.id = id
           \/ q = "republish" /\ Valid(dir) /\ dir.manifest.id = id /\ st.id = id
  BY <1>2
<1>4. proc'.pc = q /\ proc'.id = id
  BY <1>3 DEF Starts
<1>5. BackupSound'
  <2>1. HasSealedLedger(proc.id)'
    BY <1>1, <1>4 DEF HasSealedLedger
  <2>2. \A x : Valid(x)' <=> Valid(x)
    BY DEF Valid
  <2>. QED  BY <1>1, <1>3, <1>4, <2>1, <2>2 DEF BackupSound
<1>6. ProcSound'
  BY <1>1, <1>3, <1>5, CommandNames, StartsSound
<1>. QED  BY <1>1, <1>6, SameDirs, DiskStep DEF RecoveryInv

\* A backup that goes on.
LEMMA BackupGoesOn ==
    ASSUME RecoveryInv, NEW p, p # "idle", At("backup", p), NEW q,
           Goto(q) \/ (q = p /\ UNCHANGED proc),
           UNCHANGED <<db, service, switches>>,
           q \in {"dump", "copy", "manifest"} => stage'["backup"].made /\ stage'["backup"].manifest = None,
           q = "dump" => stage'["backup"].objects = {},
           q \in {"copy", "manifest"} =>
                DumpSound(stage["backup"].dump)' /\ Junk \notin stage'["backup"].objects,
           q = "manifest" => stage'["backup"].dump.rows \subseteq stage'["backup"].objects,
           q \in {"sync", "synced", "republish", "rename"} =>
                Valid(stage'["backup"]) /\ stage'["backup"].manifest.id = proc.id,
           q = "unlink" => Valid(target'["backup"]) /\ target'["backup"].manifest.id = proc.id,
           q \in {"republish", "rename", "unlink"} => state'["backup"].id = proc.id
    PROVE  ProcSound'
<1>1. proc'.cmd = "backup" /\ proc'.pc = q /\ proc'.id = proc.id
  BY CommandNames, GoesOn
<1>2. HasSealedLedger(proc.id)'
  <2>1. HasSealedLedger(proc.id)
    BY CommandNames, Running DEF BackupSound
  <2>. QED  BY <1>1, <2>1 DEF HasSealedLedger
<1>3. Valid(stage["backup"])' = Valid(stage'["backup"]) /\ Valid(target["backup"])' = Valid(target'["backup"])
  BY DEF Valid
<1>4. BackupSound'
  BY <1>1, <1>2, <1>3 DEF BackupSound
<1>. QED  BY <1>4, CommandNames, GoesOnSound

LEMMA DiscardStep ==
    ASSUME RecoveryInv, Discard
    PROVE  RecoveryInv'
<1>1. /\ At("backup", "discard") /\ Goto("forget") /\ stage' = [stage EXCEPT !["backup"] = NoDir]
      /\ UNCHANGED <<db, children, state, target, canonical, service, switches>>
  BY DEF Discard, Elsewhere, Outside
<1>2. ProcSound'
  BY <1>1, BackupGoesOn
<1>3. /\ DOMAIN stage' = Commands /\ DOMAIN target' = Commands /\ DOMAIN state' = Commands
      /\ stage'["backup"] = NoDir /\ \A c \in Commands : c # "backup" => stage'[c] = stage[c]
  BY <1>1, CommandNames DEF RecoveryInv
<1>4. /\ \A c \in Commands : DirSound(stage'[c]) /\ DirSound(target'[c])
      /\ SetSound(stage'["backup"]) /\ SetKept
  BY <1>1, <1>3, DirFields DEF RecoveryInv, DirSound, SetSound, SetKept
<1>. QED  BY <1>1, <1>2, <1>3, <1>4, DiskStep

LEMMA ForgetStep ==
    ASSUME RecoveryInv, Forget
    PROVE  RecoveryInv'
<1>1. /\ At("backup", "forget") /\ state' = [state EXCEPT !["backup"] = NoState]
      /\ UNCHANGED <<db, children, stage, target, canonical, service, switches>>
      /\ Goto("mark") \/ proc' = Idle
  BY DEF Forget, Elsewhere, Outside
<1>2. ProcSound'
  BY <1>1, BackupGoesOn, StoppedSound
<1>3. DOMAIN state' = Commands /\ state'["restore"] = state["restore"]
  BY <1>1 DEF RecoveryInv
<1>. QED  BY <1>1, <1>2, <1>3, SameDirs, DiskStep

\* A state file is written for the database of the command.
LEMMA MarksState ==
    ASSUME RecoveryInv, NEW c \in Commands, NEW phase, NEW m, Marks(c, phase, m)
    PROVE  /\ DOMAIN state' = Commands /\ state'[c].id = proc.id /\ state'[c].phase = phase
           /\ \A b \in Commands : b # c => state'[b] = state[b]
  BY DEF RecoveryInv, Marks, Replaces

LEMMA MarkBuildingStep ==
    ASSUME RecoveryInv, MarkBuilding
    PROVE  RecoveryInv'
<1>1. /\ At("backup", "mark") /\ Goto("mkdir") /\ Marks("backup", "building", None)
      /\ UNCHANGED <<db, children, stage, target, canonical, service, switches>>
  BY DEF MarkBuilding, Elsewhere, Outside
<1>2. ProcSound'
  BY <1>1, BackupGoesOn
<1>3. DOMAIN state' = Commands /\ state'["restore"] = state["restore"]
  BY <1>1, CommandNames, MarksState
<1>. QED  BY <1>1, <1>2, <1>3, SameDirs, DiskStep

\* Only the stage of a command changes.
LEMMA OneStage ==
    ASSUME RecoveryInv, NEW c \in Commands, NEW dir, stage' = [stage EXCEPT ![c] = dir],
           DirSound(dir), c = "backup" => SetSound(dir), UNCHANGED target
    PROVE  /\ DOMAIN stage' = Commands /\ DOMAIN target' = Commands /\ stage'[c] = dir
           /\ \A b \in Commands : b # c => stage'[b] = stage[b]
           /\ \A b \in Commands : DirSound(stage'[b]) /\ DirSound(target'[b])
           /\ SetSound(stage'["backup"]) /\ SetKept
<1>1. /\ DOMAIN stage' = Commands /\ stage'[c] = dir
      /\ \A b \in Commands : b # c => stage'[b] = stage[b]
  BY DEF RecoveryInv
<1>. QED  BY <1>1, CommandNames DEF RecoveryInv, SetKept

\* The dump is that of the database whose ledger was looked at.
LEMMA DumpStep ==
    ASSUME RecoveryInv, Dump
    PROVE  RecoveryInv'
<1>. DEFINE dump == Dumped(service["backup"].db)
            dir == [stage["backup"] EXCEPT !.dump = dump]
<1>1. /\ At("backup", "dump") /\ Bound("backup") /\ Goto("copy")
      /\ UNCHANGED <<db, children, state, target, canonical, service, switches>>
  BY DEF Dump, Elsewhere, Outside
<1>2. /\ proc.pc = "dump" /\ BackupSound /\ proc.id \in Databases
      /\ service["backup"].db = proc.id
  BY <1>1, CommandNames, Running
<1>3. /\ stage["backup"].made /\ stage["backup"].manifest = None /\ stage["backup"].objects = {}
      /\ HasSealedLedger(proc.id)
  BY <1>2 DEF BackupSound
<1>4. DOMAIN stage["backup"] = DOMAIN EmptyDir
  BY <1>3, CommandNames, DirFields DEF RecoveryInv, DirSound
<1>5. DumpSound(dump)
  <2>1. /\ HistorySound(db[proc.id]) /\ RowsStored(db[proc.id].rows)
        /\ LedgerAuthority(db[proc.id])
    BY <1>2, <1>3 DEF RecoveryInv, HasSealedLedger
  <2>2. /\ dump.executed = db[proc.id].executed /\ dump.ledger = db[proc.id].ledger
        /\ dump.seal = db[proc.id].seal /\ dump.rows = db[proc.id].rows
        /\ DOMAIN dump = DOMAIN NoRows
    BY <1>2, <2>1, RowFields DEF Dumped, HistorySound
  <2>3. dump = [dump EXCEPT !.granted = FALSE]
    BY <1>2, <2>1, RowFields DEF Dumped, HistorySound
  <2>. HIDE DEF dump
  <2>. QED  BY <2>1, <2>2, <2>3 DEF DumpSound, HistorySound, LedgerAuthority
<1>. HIDE DEF dump
<1>6. /\ dir.made /\ dir.objects = {} /\ dir.dump = dump /\ dir.manifest = None
      /\ DOMAIN dir = DOMAIN EmptyDir
  BY <1>3, <1>4, DirFields
<1>7. stage' = [stage EXCEPT !["backup"] = dir]
  BY CommandNames DEF Dump, dump, RecoveryInv
<1>. HIDE DEF dir
<1>8. DirSound(dir) /\ SetSound(dir)
  BY <1>6 DEF DirSound, SetSound
<1>9. /\ DOMAIN stage' = Commands /\ DOMAIN target' = Commands /\ stage'["backup"] = dir
      /\ \A c \in Commands : DirSound(stage'[c]) /\ DirSound(target'[c])
      /\ SetSound(stage'["backup"]) /\ SetKept
  BY <1>1, <1>7, <1>8, CommandNames, OneStage
<1>10. DumpSound(stage["backup"].dump)'
  BY <1>1, <1>5, <1>6, <1>9 DEF DumpSound, RowsStored
<1>11. ProcSound'
  BY <1>1, <1>6, <1>9, <1>10, BackupGoesOn
<1>. QED  BY <1>1, <1>9, <1>11, DiskStep DEF RecoveryInv

\* The manifest is written when every blob has been copied.
LEMMA WriteManifestStep ==
    ASSUME RecoveryInv, WriteManifest
    PROVE  RecoveryInv'
<1>. DEFINE old == stage["backup"]
            m == Manifest(proc.id, old)
            dir == [old EXCEPT !.manifest = m]
<1>1. /\ At("backup", "manifest") /\ Goto("sync")
      /\ UNCHANGED <<db, children, state, target, canonical, service, switches>>
  BY DEF WriteManifest, Elsewhere, Outside
<1>2. proc.pc = "manifest" /\ BackupSound
  BY <1>1, CommandNames, Running
<1>3. /\ old.made /\ DumpSound(old.dump) /\ Junk \notin old.objects
      /\ old.dump.rows \subseteq old.objects
  BY <1>2 DEF BackupSound
<1>4. DOMAIN old = DOMAIN EmptyDir
  BY <1>3, CommandNames, DirFields DEF RecoveryInv, DirSound
<1>5. m.id = proc.id /\ m.dump = old.dump /\ m.objects = old.objects /\ m # None
  <2>1. DOMAIN m = {"id", "dump", "objects"} /\ DOMAIN None = {"none"}
    BY DEF Manifest, None
  <2>. QED  BY <2>1 DEF Manifest
<1>6. stage' = [stage EXCEPT !["backup"] = dir]
  BY CommandNames DEF WriteManifest, RecoveryInv
<1>. HIDE DEF m
<1>7. /\ dir.made /\ dir.objects = old.objects /\ dir.dump = old.dump /\ dir.manifest = m
      /\ DOMAIN dir = DOMAIN EmptyDir
  BY <1>3, <1>4, DirFields
<1>. HIDE DEF dir
<1>8. DirSound(dir) /\ SetSound(dir) /\ Valid(dir)
  BY <1>3, <1>5, <1>7 DEF DirSound, SetSound, Valid, SameBytes
<1>9. /\ DOMAIN stage' = Commands /\ DOMAIN target' = Commands /\ stage'["backup"] = dir
      /\ \A c \in Commands : DirSound(stage'[c]) /\ DirSound(target'[c])
      /\ SetSound(stage'["backup"]) /\ SetKept
  BY <1>1, <1>6, <1>8, CommandNames, OneStage
<1>10. ProcSound'
  BY <1>1, <1>5, <1>7, <1>8, <1>9, BackupGoesOn
<1>. QED  BY <1>1, <1>9, <1>10, DiskStep DEF RecoveryInv

LEMMA MarkPublishingStep ==
    ASSUME RecoveryInv, MarkPublishing
    PROVE  RecoveryInv'
<1>1. /\ At("backup", "synced") /\ (Goto("rename") \/ Goto("republish"))
      /\ Marks("backup", "publishing", stage["backup"].manifest)
      /\ UNCHANGED <<db, children, stage, target, canonical, service, switches>>
  BY DEF MarkPublishing, Elsewhere, Outside
<1>2. /\ DOMAIN state' = Commands /\ state'["restore"] = state["restore"]
      /\ state'["backup"].id = proc.id
  BY <1>1, CommandNames, MarksState
<1>3. Valid(stage["backup"]) /\ stage["backup"].manifest.id = proc.id
  BY <1>1, CommandNames, Running DEF BackupSound
<1>4. ProcSound'
  BY <1>1, <1>2, <1>3, BackupGoesOn
<1>. QED  BY <1>1, <1>2, <1>4, SameDirs, DiskStep

LEMMA RepublishStep ==
    ASSUME RecoveryInv, Republish
    PROVE  RecoveryInv'
<1>1. /\ At("backup", "republish") /\ Goto("rename")
      /\ UNCHANGED <<db, children, state, stage, target, canonical, service, switches>>
  BY DEF Republish, disk, Elsewhere, Outside
<1>2. /\ Valid(stage["backup"]) /\ stage["backup"].manifest.id = proc.id
      /\ state["backup"].id = proc.id
  BY <1>1, CommandNames, Running DEF BackupSound
<1>3. ProcSound'
  BY <1>1, <1>2, BackupGoesOn
<1>. QED  BY <1>1, <1>3, SameDirs, DiskStep DEF RecoveryInv

-----------------------------------------------------------------------------
(* What the commands share *)

LEMMA TwoCommands == \A c \in Commands : c = "backup" \/ c = "restore"
  BY DEF Commands

\* A directory that exists has all entries, and stays one when an entry changes.
LEMMA MadeDir ==
    ASSUME RecoveryInv, NEW c \in Commands, stage[c].made
    PROVE  DOMAIN stage[c] = {"made", "objects", "dump", "manifest", "synced"}
  BY DirFields DEF RecoveryInv, DirSound

LEMMA MkdirStep ==
    ASSUME RecoveryInv, NEW c \in Commands, Mkdir(c)
    PROVE  RecoveryInv'
<1>1. /\ At(c, "mkdir") /\ Goto(IF c = "backup" THEN "dump" ELSE "copy")
      /\ stage' = [stage EXCEPT ![c] = EmptyDir]
      /\ UNCHANGED <<db, children, state, target, canonical, service, switches>>
  BY DEF Mkdir, Elsewhere, Outside
<1>2. DirSound(EmptyDir) /\ SetSound(EmptyDir)
  BY DirFields DEF DirSound, SetSound
<1>3. /\ DOMAIN stage' = Commands /\ DOMAIN target' = Commands /\ stage'[c] = EmptyDir
      /\ \A b \in Commands : DirSound(stage'[b]) /\ DirSound(target'[b])
      /\ SetSound(stage'["backup"]) /\ SetKept
  BY <1>1, <1>2, OneStage
<1>4. ProcSound'
  <2>1. CASE c = "backup"
    BY <1>1, <1>3, <2>1, DirFields, BackupGoesOn
  <2>2. CASE c = "restore"
    <3>1. state["restore"].id = proc.id
      BY <1>1, <2>2, Running DEF RestoreSound
    <3>. QED  BY <1>1, <2>2, <3>1, RestoreGoesOn
  <2>. QED  BY <2>1, <2>2, TwoCommands
<1>. QED  BY <1>1, <1>3, <1>4, DiskStep DEF RecoveryInv

\* A blob that is not what its name says stops the command.
LEMMA CopyStep ==
    ASSUME RecoveryInv, NEW c \in Commands, Copy(c)
    PROVE  RecoveryInv'
<1>1. /\ At(c, "copy")
      /\ UNCHANGED <<db, children, state, target, canonical, service, switches>>
  BY DEF Copy, Elsewhere, Outside
<1>2. PICK b : \/ proc' = Idle /\ UNCHANGED stage
               \/ b # Junk /\ UNCHANGED proc /\ stage' = [stage EXCEPT ![c].objects = @ \cup {b}]
  BY DEF Copy
<1>3. CASE proc' = Idle /\ UNCHANGED stage
  BY <1>1, <1>3, StoppedSound, SameDirs, DiskStep DEF RecoveryInv
<1>4. CASE b # Junk /\ UNCHANGED proc /\ stage' = [stage EXCEPT ![c].objects = @ \cup {b}]
  <2>. DEFINE old == stage[c]
              dir == [old EXCEPT !.objects = @ \cup {b}]
  <2>1. stage' = [stage EXCEPT ![c] = dir]
    BY <1>4 DEF RecoveryInv
  <2>2. CASE c = "backup"
    <3>1. /\ old.made /\ old.manifest = None /\ DumpSound(old.dump) /\ Junk \notin old.objects
      BY <1>1, <2>2, Running DEF BackupSound
    <3>2. /\ dir.made /\ dir.manifest = None /\ dir.dump = old.dump
          /\ dir.objects = old.objects \cup {b} /\ DOMAIN dir = DOMAIN EmptyDir
      BY <3>1, MadeDir, DirFields
    <3>. HIDE DEF dir
    <3>3. DirSound(dir) /\ SetSound(dir)
      BY <3>2 DEF DirSound, SetSound
    <3>4. /\ DOMAIN stage' = Commands /\ DOMAIN target' = Commands /\ stage'[c] = dir
          /\ \A e \in Commands : DirSound(stage'[e]) /\ DirSound(target'[e])
          /\ SetSound(stage'["backup"]) /\ SetKept
      BY <1>1, <2>1, <3>3, OneStage
    <3>5. DumpSound(stage["backup"].dump)'
      BY <1>1, <2>2, <3>1, <3>2, <3>4 DEF DumpSound, RowsStored
    <3>6. Junk \notin dir.objects
      BY <1>4, <3>1, <3>2
    <3>7. /\ At("backup", "copy") /\ UNCHANGED <<proc, db, service, switches>>
          /\ stage'["backup"].made /\ stage'["backup"].manifest = None
          /\ Junk \notin stage'["backup"].objects
      BY <1>1, <1>4, <2>2, <3>2, <3>4, <3>6
    <3>8. ProcSound'
      BY <3>5, <3>7, BackupGoesOn
    <3>. QED  BY <1>1, <3>4, <3>8, DiskStep DEF RecoveryInv
  <2>3. CASE c = "restore"
    <3>1. DirSound(dir)
      <4>1. CASE old = NoDir
        <5>1. DOMAIN old = {"made"}
          BY <4>1 DEF NoDir
        <5>2. dir = NoDir
          BY <4>1, <5>1 DEF NoDir
        <5>. QED  BY <5>2 DEF DirSound
      <4>2. CASE old.made /\ DOMAIN old = DOMAIN EmptyDir
        BY <4>2, DirFields DEF DirSound
      <4>. QED  BY <4>1, <4>2 DEF RecoveryInv, DirSound
    <3>. HIDE DEF dir
    <3>2. /\ DOMAIN stage' = Commands /\ DOMAIN target' = Commands
          /\ \A e \in Commands : DirSound(stage'[e]) /\ DirSound(target'[e])
          /\ SetSound(stage'["backup"]) /\ SetKept
      BY <1>1, <2>1, <2>3, <3>1, OneStage
    <3>3. state["restore"].id = proc.id
      BY <1>1, <2>3, Running DEF RestoreSound
    <3>4. ProcSound'
      BY <1>1, <1>4, <2>3, <3>3, RestoreGoesOn
    <3>. QED  BY <1>1, <3>2, <3>4, DiskStep DEF RecoveryInv
  <2>. QED  BY <2>2, <2>3, TwoCommands
<1>. QED  BY <1>2, <1>3, <1>4

\* When all blobs were copied and none was bad, the root has not decayed.
LEMMA CopiedStep ==
    ASSUME RecoveryInv, NEW c \in Commands, Copied(c)
    PROVE  RecoveryInv'
<1>1. /\ At(c, "copy") /\ Originals(c) \subseteq stage[c].objects
      /\ Goto(IF c = "backup" THEN "manifest" ELSE "sync")
      /\ UNCHANGED <<db, children, state, stage, target, canonical, service, switches>>
  BY DEF Copied, disk, Elsewhere, Outside
<1>2. ProcSound'
  <2>1. CASE c = "backup"
    <3>. DEFINE dir == stage["backup"]
    <3>1. dir.made /\ dir.manifest = None /\ DumpSound(dir.dump) /\ Junk \notin dir.objects
      BY <1>1, <2>1, Running DEF BackupSound
    <3>2. canonical \subseteq dir.objects
      BY <1>1, <2>1 DEF Originals
    <3>3. dir.dump.rows \subseteq dir.objects
      BY <3>1, <3>2 DEF DumpSound, RowsStored
    <3>4. DumpSound(stage["backup"].dump)'
      BY <1>1, <3>1 DEF DumpSound, RowsStored
    <3>. QED  BY <1>1, <2>1, <3>1, <3>3, <3>4, BackupGoesOn
  <2>2. CASE c = "restore"
    <3>1. state["restore"].id = proc.id
      BY <1>1, <2>2, Running DEF RestoreSound
    <3>. QED  BY <1>1, <2>2, <3>1, RestoreGoesOn
  <2>. QED  BY <2>1, <2>2, TwoCommands
<1>. QED  BY <1>1, <1>2, SameDirs, DiskStep DEF RecoveryInv

LEMMA SyncStep ==
    ASSUME RecoveryInv, NEW c \in Commands, Sync(c)
    PROVE  RecoveryInv'
<1>. DEFINE old == stage[c]
            dir == [old EXCEPT !.synced = TRUE]
<1>1. /\ At(c, "sync") /\ Goto("synced")
      /\ stage' = [stage EXCEPT ![c] = dir]
      /\ UNCHANGED <<db, children, state, target, canonical, service, switches>>
  BY DEF Sync, Elsewhere, Outside, RecoveryInv
<1>2. CASE c = "backup"
  <2>1. Valid(old) /\ old.manifest.id = proc.id /\ SetSound(old)
    BY <1>1, <1>2, Running DEF BackupSound, RecoveryInv
  <2>2. /\ dir.made /\ dir.manifest = old.manifest /\ dir.dump = old.dump
        /\ dir.objects = old.objects /\ DOMAIN dir = DOMAIN EmptyDir
    BY <2>1, MadeDir, DirFields DEF Valid
  <2>. HIDE DEF dir
  <2>3. DirSound(dir) /\ SetSound(dir) /\ Valid(dir)
    BY <2>1, <2>2 DEF DirSound, SetSound, Valid
  <2>4. /\ DOMAIN stage' = Commands /\ DOMAIN target' = Commands /\ stage'[c] = dir
        /\ \A e \in Commands : DirSound(stage'[e]) /\ DirSound(target'[e])
        /\ SetSound(stage'["backup"]) /\ SetKept
    BY <1>1, <2>3, OneStage
  <2>5. /\ At("backup", "sync") /\ Valid(stage'["backup"])
        /\ stage'["backup"].manifest.id = proc.id
    BY <1>1, <1>2, <2>1, <2>2, <2>3, <2>4
  <2>6. ProcSound'
    BY <1>1, <2>5, BackupGoesOn
  <2>. QED  BY <1>1, <2>4, <2>6, DiskStep DEF RecoveryInv
<1>3. CASE c = "restore"
  <2>1. DirSound(dir)
    <3>1. CASE old = NoDir
      <4>1. DOMAIN old = {"made"}
        BY <3>1 DEF NoDir
      <4>2. dir = NoDir
        BY <3>1, <4>1 DEF NoDir
      <4>. QED  BY <4>2 DEF DirSound
    <3>2. CASE old.made /\ DOMAIN old = DOMAIN EmptyDir
      BY <3>2, DirFields DEF DirSound
    <3>. QED  BY <3>1, <3>2 DEF RecoveryInv, DirSound
  <2>. HIDE DEF dir
  <2>2. /\ DOMAIN stage' = Commands /\ DOMAIN target' = Commands
        /\ \A e \in Commands : DirSound(stage'[e]) /\ DirSound(target'[e])
        /\ SetSound(stage'["backup"]) /\ SetKept
    BY <1>1, <1>3, <2>1, OneStage
  <2>3. state["restore"].id = proc.id
    BY <1>1, <1>3, Running DEF RestoreSound
  <2>4. ProcSound'
    BY <1>1, <1>3, <2>3, RestoreGoesOn
  <2>. QED  BY <1>1, <2>2, <2>4, DiskStep DEF RecoveryInv
<1>. QED  BY <1>2, <1>3, TwoCommands

\* The stage becomes the target, as it is.
LEMMA RenameStep ==
    ASSUME RecoveryInv, NEW c \in Commands, Rename(c)
    PROVE  RecoveryInv'
<1>1. /\ At(c, "rename")
      /\ UNCHANGED <<db, children, state, canonical, service, switches>>
  BY DEF Rename, Elsewhere, Outside
<1>2. CASE proc' = Idle /\ UNCHANGED <<stage, target>>
  BY <1>1, <1>2, StoppedSound, SameDirs, DiskStep DEF RecoveryInv
<1>3. CASE /\ ~target[c].made /\ Goto("unlink")
           /\ target' = [target EXCEPT ![c] = stage[c]]
           /\ stage' = [stage EXCEPT ![c] = NoDir]
  <2>1. /\ DOMAIN stage' = Commands /\ stage'[c] = NoDir
        /\ DOMAIN target' = Commands /\ target'[c] = stage[c]
        /\ \A e \in Commands : e # c => stage'[e] = stage[e] /\ target'[e] = target[e]
    BY <1>3 DEF RecoveryInv
  <2>2. DirSound(NoDir) /\ SetSound(NoDir)
    BY DirFields DEF DirSound, SetSound
  <2>3. \A e \in Commands : DirSound(stage'[e]) /\ DirSound(target'[e])
    BY <2>1, <2>2 DEF RecoveryInv
  <2>4. SetSound(stage'["backup"])
    BY <2>1, <2>2, CommandNames DEF RecoveryInv
  <2>5. CASE c = "backup"
    <3>1. /\ Valid(stage["backup"]) /\ stage["backup"].manifest.id = proc.id
          /\ state["backup"].id = proc.id
      BY <1>1, <2>5, Running DEF BackupSound
    <3>2. /\ Valid(target'["backup"]) /\ target'["backup"].manifest.id = proc.id
          /\ SetSound(target'["backup"])
      BY <2>1, <2>5, <3>1 DEF RecoveryInv
    <3>3. At("backup", "rename") /\ state'["backup"].id = proc.id
      BY <1>1, <2>5, <3>1
    <3>4. ProcSound'
      BY <1>1, <1>3, <3>2, <3>3, BackupGoesOn
    <3>5. /\ ~target["backup"].made /\ target'["backup"].made
          /\ SetSound(target'["backup"]) /\ target'["backup"].manifest # None
      BY <1>3, <2>5, <3>2 DEF Valid
    <3>. QED  BY <1>1, <2>1, <2>3, <2>4, <3>4, <3>5, DiskStep DEF RecoveryInv
  <2>6. CASE c = "restore"
    <3>1. RestoreSound /\ proc.pc = "rename"
      BY <1>1, <2>6, Running
    <3>2. target'["backup"] = target["backup"]
      BY <2>1, <2>6, CommandNames
    <3>3. /\ proc'.cmd = "restore" /\ proc'.pc = "unlink" /\ proc'.id = proc.id
          /\ proc'.manifest = proc.manifest
      BY <1>1, <1>3, <2>6, GoesOn
    <3>4. RestoreSound'
      <4>1. Restoring(proc.id)' /\ HasSealedLedger(proc.id)'
        BY <1>1, <3>1, <3>2, <3>3 DEF RestoreSound, Restoring, HasSealedLedger
      <4>2. target'["restore"].objects = proc'.manifest.objects
        BY <2>1, <2>6, <3>1, <3>3 DEF RestoreSound
      <4>3. Valid(target["backup"])'
        BY <3>1, <3>2 DEF RestoreSound, Valid
      <4>. QED  BY <1>1, <3>1, <3>2, <3>3, <4>1, <4>2, <4>3 DEF RestoreSound
    <3>5. ProcSound'
      BY <1>1, <1>3, <2>6, <3>4, GoesOnSound
    <3>. QED  BY <1>1, <2>1, <2>3, <2>4, <3>2, <3>5, DiskStep DEF RecoveryInv, SetKept
  <2>. QED  BY <2>5, <2>6, TwoCommands
<1>. QED  BY <1>2, <1>3 DEF Rename

LEMMA UnlinkStep ==
    ASSUME RecoveryInv, NEW c \in Commands, Unlink(c)
    PROVE  RecoveryInv'
<1>1. /\ proc' = Idle /\ state' = [state EXCEPT ![c] = NoState]
      /\ UNCHANGED <<db, children, stage, target, canonical, service, switches>>
  BY DEF Unlink
<1>2. DOMAIN state' = Commands /\ state'["restore"] \in {NoState, state["restore"]}
  BY <1>1, CommandNames DEF RecoveryInv
<1>. QED  BY <1>1, <1>2, StoppedSound, SameDirs, DiskStep

-----------------------------------------------------------------------------
(* restore_recovery_set *)

LEMMA Resumed ==
    /\ DOMAIN Resume = {"preparing", "prepared", "database_restoring", "database_restored"}
    /\ \A phase \in DOMAIN Resume : Resume[phase] \notin {"idle", "mark", "rename", "unlink"}
  BY DEF Resume

\* A restore begins on an empty database, or goes on with the one of its state file.
LEMMA StartRestoreStep ==
    ASSUME RecoveryInv, StartRestore
    PROVE  RecoveryInv'
<1>. DEFINE id == service["restore"].db
            set == target["backup"]
            st == state["restore"]
<1>1. /\ Valid(set)
      /\ UNCHANGED <<db, children, state, stage, target, canonical, service, switches>>
  BY DEF StartRestore, disk, Outside
<1>2. id \in Databases
  BY CommandNames DEF RecoveryInv
<1>3. PICK q : /\ Starts("restore", q, set.manifest) /\ Restoring(id)
               /\ q \notin {"rename", "unlink"} /\ (q # "mark" => st.id = id)
  <2>1. CASE IsEmpty(id) /\ Starts("restore", "mark", set.manifest)
    BY <1>1, <1>2, <2>1 DEF Restoring, IsEmpty, Valid
  <2>2. CASE st # NoState /\ st.id = id /\ Starts("restore", Resume[st.phase], set.manifest)
    BY <2>2, Resumed DEF RecoveryInv
  <2>. QED  BY <2>1, <2>2 DEF StartRestore
<1>4. proc'.pc = q /\ proc'.id = id /\ proc'.manifest = set.manifest
  BY <1>3 DEF Starts
<1>5. RestoreSound'
  BY <1>1, <1>3, <1>4 DEF RestoreSound, Restoring, Valid
<1>6. ProcSound'
  BY <1>1, <1>3, <1>5, CommandNames, StartsSound
<1>. QED  BY <1>1, <1>6, SameDirs, DiskStep DEF RecoveryInv

\* A restore writes its state file and goes on.
LEMMA RestoreMarks ==
    ASSUME RecoveryInv, NEW p, p # "idle", At("restore", p),
           NEW phase \in DOMAIN Resume, Marks("restore", phase, proc.manifest),
           NEW q, q \notin {"mark", "rename", "unlink"}, Goto(q),
           UNCHANGED <<db, children, stage, target, canonical, service, switches>>
    PROVE  RecoveryInv'
<1>1. /\ DOMAIN state' = Commands /\ state'["restore"].id = proc.id
      /\ state'["restore"].phase = phase
  BY CommandNames, MarksState
<1>2. Restoring(proc.id)
  BY CommandNames, Running DEF RestoreSound
<1>3. ProcSound'
  BY <1>1, RestoreGoesOn
<1>. QED  BY <1>1, <1>2, <1>3, SameDirs, DiskStep

\* A restore goes on and leaves the files alone, or gives up.
LEMMA RestoreOnly ==
    ASSUME RecoveryInv, NEW p, p \notin {"idle", "mark"}, At("restore", p),
           NEW q, q \notin {"mark", "rename", "unlink"}, Goto(q) \/ proc' = Idle,
           children' \subseteq children,
           UNCHANGED <<db, state, stage, target, canonical, service, switches>>
    PROVE  RecoveryInv'
<1>1. state["restore"].id = proc.id
  BY CommandNames, Running DEF RestoreSound
<1>2. ProcSound'
  BY <1>1, RestoreGoesOn, StoppedSound
<1>. QED  BY <1>2, SameDirs, DiskStep DEF RecoveryInv

LEMMA MarkPreparingStep ==
    ASSUME RecoveryInv, MarkPreparing
    PROVE  RecoveryInv'
<1>1. /\ At("restore", "mark") /\ Goto("clear") /\ Marks("restore", "preparing", proc.manifest)
      /\ UNCHANGED <<db, children, stage, target, canonical, service, switches>>
  BY DEF MarkPreparing, Elsewhere, Outside
<1>2. "preparing" \in DOMAIN Resume
  BY Resumed
<1>. QED  BY <1>1, <1>2, RestoreMarks

LEMMA ClearStep ==
    ASSUME RecoveryInv, Clear
    PROVE  RecoveryInv'
<1>1. /\ At("restore", "clear")
      /\ UNCHANGED <<db, children, state, target, canonical, service, switches>>
  BY DEF Clear, Elsewhere, Outside
<1>2. CASE proc' = Idle /\ UNCHANGED stage
  BY <1>1, <1>2, StoppedSound, SameDirs, DiskStep DEF RecoveryInv
<1>3. CASE Goto("mkdir") /\ stage' = [stage EXCEPT !["restore"] = NoDir]
  <2>1. DirSound(NoDir)
    BY DEF DirSound
  <2>2. /\ DOMAIN stage' = Commands /\ DOMAIN target' = Commands
        /\ \A e \in Commands : DirSound(stage'[e]) /\ DirSound(target'[e])
        /\ SetSound(stage'["backup"]) /\ SetKept
    BY <1>1, <1>3, <2>1, CommandNames, OneStage
  <2>3. state["restore"].id = proc.id
    BY <1>1, CommandNames, Running DEF RestoreSound
  <2>4. ProcSound'
    BY <1>1, <1>3, <2>3, RestoreGoesOn
  <2>. QED  BY <1>1, <2>2, <2>4, DiskStep DEF RecoveryInv
<1>. QED  BY <1>2, <1>3 DEF Clear

LEMMA MarkPreparedStep ==
    ASSUME RecoveryInv, MarkPrepared
    PROVE  RecoveryInv'
<1>1. /\ At("restore", "synced") /\ Goto("prepared") /\ Marks("restore", "prepared", proc.manifest)
      /\ UNCHANGED <<db, children, stage, target, canonical, service, switches>>
  BY DEF MarkPrepared, Elsewhere, Outside
<1>2. "prepared" \in DOMAIN Resume
  BY Resumed
<1>. QED  BY <1>1, <1>2, RestoreMarks

LEMMA MarkRestoringStep ==
    ASSUME RecoveryInv, MarkRestoring
    PROVE  RecoveryInv'
<1>1. /\ At("restore", "prepared")
      /\ UNCHANGED <<db, children, stage, target, canonical, service, switches>>
  BY DEF MarkRestoring, Elsewhere, Outside
<1>2. CASE Marks("restore", "database_restoring", proc.manifest) /\ Goto("restoring")
  <2>1. "database_restoring" \in DOMAIN Resume
    BY Resumed
  <2>. QED  BY <1>1, <1>2, <2>1, RestoreMarks
<1>3. CASE proc' = Idle /\ UNCHANGED state
  BY <1>1, <1>3, RestoreOnly
<1>. QED  BY <1>2, <1>3 DEF MarkRestoring

\* pg_restore is given the dump of the set and the database of the command.
LEMMA RestoreDatabaseStep ==
    ASSUME RecoveryInv, RestoreDatabase
    PROVE  RecoveryInv'
<1>. DEFINE child == [db |-> service["restore"].db, dump |-> target["backup"].dump, by |-> crashes]
<1>1. /\ At("restore", "restoring")
      /\ UNCHANGED <<db, state, stage, target, canonical, service, switches>>
  BY DEF RestoreDatabase, disk, Elsewhere, Outside
<1>2. CASE Goto("confirm") /\ UNCHANGED children
  BY <1>1, <1>2, RestoreOnly
<1>3. CASE Goto("waiting") /\ children' = children \cup {child}
  <2>1. /\ child.db \in Databases /\ child.dump = target["backup"].dump
        /\ target["backup"].made
    BY <1>1, CommandNames, Running DEF RecoveryInv, RestoreSound, Valid
  <2>2. state["restore"].id = proc.id
    BY <1>1, CommandNames, Running DEF RestoreSound
  <2>3. ProcSound'
    BY <1>1, <1>3, <2>2, RestoreGoesOn
  <2>. HIDE DEF child
  <2>4. \A e \in children' : (e.db \in Databases /\ target["backup"].made
                              /\ e.dump = target["backup"].dump)'
    BY <1>1, <1>3, <2>1 DEF RecoveryInv
  <2>5. /\ \A d \in Databases : (HistorySound(db[d]) /\ RowsStored(db[d].rows))'
        /\ \A c \in Commands : (DirSound(stage[c]) /\ DirSound(target[c]))'
    BY <1>1 DEF RecoveryInv, HistorySound, RowsStored, DirSound
  <2>6. SetSound(stage["backup"])' /\ SetSound(target["backup"])'
    BY <1>1 DEF RecoveryInv, SetSound, DumpSound, RowsStored
  <2>7. state["restore"] # NoState =>
           (state["restore"].phase \in DOMAIN Resume /\ Restoring(state["restore"].id))'
    BY <1>1 DEF RecoveryInv, Restoring
  <2>. QED  BY <1>1, <2>3, <2>4, <2>5, <2>6, <2>7 DEF RecoveryInv
<1>. QED  BY <1>2, <1>3 DEF RestoreDatabase

LEMMA MarkRestoredStep ==
    ASSUME RecoveryInv, MarkRestored
    PROVE  RecoveryInv'
<1>1. /\ At("restore", "confirm")
      /\ UNCHANGED <<db, children, stage, target, canonical, service, switches>>
  BY DEF MarkRestored, Elsewhere, Outside
<1>2. CASE Marks("restore", "database_restored", proc.manifest) /\ Goto("restored")
  <2>1. "database_restored" \in DOMAIN Resume
    BY Resumed
  <2>. QED  BY <1>1, <1>2, <2>1, RestoreMarks
<1>3. CASE proc' = Idle /\ UNCHANGED state
  BY <1>1, <1>3, RestoreOnly
<1>. QED  BY <1>2, <1>3 DEF MarkRestored

\* A stage is published, and a published root reported, after another look at the
\* database and at the blobs.
LEMMA PublishCanonicalStep ==
    ASSUME RecoveryInv, PublishCanonical
    PROVE  RecoveryInv'
<1>1. /\ At("restore", "restored")
      /\ UNCHANGED <<db, children, state, stage, target, canonical, service, switches>>
  BY DEF PublishCanonical, disk, Elsewhere, Outside
<1>2. PICK q : \/ proc' = Idle
               \/ /\ HasSealedLedger(proc.id) /\ Goto(q)
                  /\ \/ q = "rename" /\ stage["restore"].objects = proc.manifest.objects
                     \/ q = "unlink" /\ target["restore"].objects = proc.manifest.objects
  BY DEF PublishCanonical, ValidCanonical
<1>3. CASE proc' = Idle
  BY <1>1, <1>3, StoppedSound, SameDirs, DiskStep DEF RecoveryInv
<1>4. CASE proc' # Idle
  <2>1. /\ proc'.pc = q /\ proc'.id = proc.id /\ proc'.manifest = proc.manifest
    BY <1>1, <1>2, <1>4, CommandNames, GoesOn
  <2>2. RestoreSound /\ proc.pc = "restored"
    BY <1>1, CommandNames, Running
  <2>3. RestoreSound'
    BY <1>1, <1>2, <1>4, <2>1, <2>2 DEF RestoreSound, Restoring, Valid, HasSealedLedger
  <2>4. ProcSound'
    BY <1>1, <1>2, <1>4, <2>3, CommandNames, GoesOnSound
  <2>. QED  BY <1>1, <2>4, SameDirs, DiskStep DEF RecoveryInv
<1>. QED  BY <1>3, <1>4

-----------------------------------------------------------------------------
(* Everything else *)

\* A step that leaves the files of the commands alone.
LEMMA WorldStep ==
    ASSUME RecoveryInv, UNCHANGED <<state, stage, target>>, children' \subseteq children,
           switches' \in Nat,
           service' \in [Commands -> [db : Databases, version : 0..switches']],
           DOMAIN db' = Databases,
           \A d \in Databases : HistorySound(db'[d]) /\ RowsStored(db[d].rows)',
           \A rows : RowsStored(rows) => RowsStored(rows)',
           \A d \in Databases :
               state["restore"] # NoState /\ d = state["restore"].id /\ Restoring(d) => Restoring(d)',
           ProcSound'
    PROVE  RecoveryInv'
<1>1. \A dump : DumpSound(dump) => DumpSound(dump)'
  BY DEF DumpSound
<1>2. SetSound(stage["backup"])' /\ SetSound(target["backup"])'
  BY <1>1 DEF RecoveryInv, SetSound
<1>3. state["restore"] # NoState =>
        state["restore"].phase \in DOMAIN Resume /\ Restoring(state["restore"].id)'
  <2>. SUFFICES ASSUME state["restore"] # NoState
                PROVE  state["restore"].phase \in DOMAIN Resume /\ Restoring(state["restore"].id)'
    OBVIOUS
  <2>1. /\ state["restore"].phase \in DOMAIN Resume /\ Restoring(state["restore"].id)
        /\ state["restore"].id \in Databases
    BY DEF RecoveryInv, Restoring
  <2>2. PICK d \in Databases : d = state["restore"].id
    BY <2>1
  <2>3. Restoring(d)'
    BY <2>1, <2>2
  <2>4. Restoring(state["restore"].id)'
    BY <2>2, <2>3 DEF Restoring
  <2>. QED  BY <2>1, <2>4
<1>4. \A d \in Databases : (HistorySound(db[d]) /\ RowsStored(db[d].rows))'
  BY DEF HistorySound
<1>5. \A child \in children' : (child.db \in Databases /\ target["backup"].made
                                /\ child.dump = target["backup"].dump)'
  BY DEF RecoveryInv
<1>. QED  BY <1>2, <1>3, <1>4, <1>5 DEF RecoveryInv, DirSound

\* A command that is running while a database that it does not rely on changes, or
\* whose pg_restore has ended.
LEMMA ProcKept ==
    ASSUME RecoveryInv,
           UNCHANGED proc \/ (proc.pc = "waiting" /\ Goto("confirm")),
           UNCHANGED <<canonical, service, switches, state, stage, target>>,
           \A d \in Databases : /\ HasSealedLedger(d) => HasSealedLedger(d)'
                                /\ Restoring(d) => Restoring(d)'
    PROVE  ProcSound'
<1>1. CASE proc = Idle /\ UNCHANGED proc
  BY <1>1, StoppedSound
<1>2. CASE proc # Idle
  <2>1. /\ DOMAIN proc = {"cmd", "pc", "id", "version", "manifest"}
        /\ proc.cmd \in Commands /\ proc.id \in Databases
        /\ proc.version \in 0..switches
        /\ Bound(proc.cmd) => service[proc.cmd].db = proc.id
    BY <1>2 DEF RecoveryInv, ProcSound
  <2>2. /\ DOMAIN proc' = {"cmd", "pc", "id", "version", "manifest"}
        /\ proc'.cmd = proc.cmd /\ proc'.id = proc.id /\ proc'.version = proc.version
        /\ proc'.manifest = proc.manifest
        /\ proc'.pc = proc.pc \/ (proc.pc = "waiting" /\ proc'.pc = "confirm")
    BY <2>1 DEF Goto
  <2>3. Bound(proc.cmd)' => service'[proc'.cmd].db = proc'.id
    BY <2>1, <2>2 DEF Bound
  <2>4. PICK d \in Databases : d = proc.id
    BY <2>1
  <2>5. /\ HasSealedLedger(proc.id) => HasSealedLedger(proc.id)'
        /\ Restoring(proc.id) => Restoring(proc.id)'
    <3>1. /\ HasSealedLedger(d) => HasSealedLedger(d)'
          /\ Restoring(d) => Restoring(d)'
      OBVIOUS
    <3>2. HasSealedLedger(d)' => HasSealedLedger(proc.id)'
      BY <2>2, <2>4 DEF HasSealedLedger
    <3>3. Restoring(d)' => Restoring(proc.id)'
      BY <2>2, <2>4 DEF Restoring
    <3>. QED  BY <2>4, <3>1, <3>2, <3>3
  <2>6. CASE proc.cmd = "backup"
    <3>1. BackupSound
      BY <1>2, <2>6 DEF RecoveryInv, ProcSound
    <3>2. BackupSound'
      BY <2>2, <2>5, <3>1 DEF BackupSound, Valid, DumpSound, RowsStored
    <3>. QED  BY <2>1, <2>2, <2>3, <2>6, <3>2 DEF ProcSound
  <2>7. CASE proc.cmd = "restore"
    <3>1. RestoreSound
      BY <1>2, <2>7 DEF RecoveryInv, ProcSound
    <3>2. RestoreSound'
      BY <2>2, <2>5, <3>1 DEF RestoreSound, Valid
    <3>. QED  BY <2>1, <2>2, <2>3, <2>7, <3>2 DEF ProcSound
  <2>. QED  BY <2>1, <2>6, <2>7, TwoCommands
<1>3. proc = Idle => UNCHANGED proc
  BY DEF Idle
<1>. QED  BY <1>1, <1>2, <1>3

\* The dump of a recovery set.
LEMMA SetDump ==
    ASSUME RecoveryInv, target["backup"].made
    PROVE  DumpSound(target["backup"].dump)
  BY DEF RecoveryInv, SetSound

\* An empty database is none that a command has verified.
LEMMA EmptyUnsealed == ~LedgerAuthority(NoRows)
  BY DEF LedgerAuthority, NoRows

\* pg_restore, whoever started it and whether or not its caller still lives,
\* leaves a database with the contents of the set or does not change it.
LEMMA ChildEndsStep ==
    ASSUME RecoveryInv, ChildEnds
    PROVE  RecoveryInv'
<1>1. PICK child \in children :
        /\ children' = children \ {child}
        /\ \/ /\ IsEmpty(child.db) /\ db' = [db EXCEPT ![child.db] = child.dump]
              /\ UNCHANGED proc \/ (proc.pc = "waiting" /\ Goto("confirm"))
           \/ UNCHANGED db /\ (UNCHANGED proc \/ proc' = Idle)
  BY DEF ChildEnds
<1>2. UNCHANGED <<state, stage, target, canonical, service, switches>>
  BY DEF ChildEnds, disk, Elsewhere, Outside
<1>3. children' \subseteq children
  BY <1>1
<1>4. CASE UNCHANGED db /\ (UNCHANGED proc \/ proc' = Idle)
  <2>1. ProcSound'
    <3>1. \A d : HasSealedLedger(d) => HasSealedLedger(d)'
      BY <1>4 DEF HasSealedLedger
    <3>2. \A d : Restoring(d) => Restoring(d)'
      BY <1>2, <1>4 DEF Restoring
    <3>. QED  BY <1>2, <1>4, <3>1, <3>2, StoppedSound, ProcKept
  <2>. QED  BY <1>2, <1>3, <1>4, <2>1, SameDirs, DiskStep DEF RecoveryInv
<1>5. CASE /\ IsEmpty(child.db) /\ db' = [db EXCEPT ![child.db] = child.dump]
           /\ UNCHANGED proc \/ (proc.pc = "waiting" /\ Goto("confirm"))
  <2>1. /\ child.db \in Databases /\ target["backup"].made /\ child.dump = target["backup"].dump
        /\ DOMAIN db = Databases
    BY DEF RecoveryInv
  <2>2. DumpSound(child.dump)
    BY <2>1, SetDump
  <2>3. /\ DOMAIN db' = Databases /\ db'[child.db] = child.dump /\ db[child.db] = NoRows
        /\ \A d \in Databases : d # child.db => db'[d] = db[d]
    BY <1>5, <2>1 DEF IsEmpty
  <2>4. \A d \in Databases : HistorySound(db'[d]) /\ RowsStored(db[d].rows)'
    BY <1>2, <2>2, <2>3 DEF RecoveryInv, DumpSound, RowsStored
  <2>5. \A d \in Databases : HasSealedLedger(d) => HasSealedLedger(d)'
    BY <2>3, EmptyUnsealed DEF HasSealedLedger, LedgerAuthority
  <2>6. \A d \in Databases : Restoring(d) => Restoring(d)'
    BY <1>2, <2>1, <2>3 DEF Restoring
  <2>7. ProcSound'
    BY <1>2, <1>5, <2>5, <2>6, ProcKept
  <2>8. \A rows : RowsStored(rows) => RowsStored(rows)'
    BY <1>2 DEF RowsStored
  <2>9. switches' \in Nat /\ service' \in [Commands -> [db : Databases, version : 0..switches']]
    BY <1>2 DEF RecoveryInv
  <2>. QED  BY <1>2, <1>3, <2>3, <2>4, <2>6, <2>7, <2>8, <2>9, WorldStep
<1>. QED  BY <1>1, <1>4, <1>5

\* A command that ends, and whatever pg_restore processes end with it.
LEMMA StopStep ==
    ASSUME RecoveryInv, Stops \/ Unbound
    PROVE  RecoveryInv'
<1>1. /\ proc' = Idle /\ children' \subseteq children
      /\ UNCHANGED <<db, state, stage, target, canonical, service, switches>>
  BY DEF Stops, Unbound, disk, Elsewhere, Outside
<1>. QED  BY <1>1, StoppedSound, SameDirs, DiskStep DEF RecoveryInv

\* Entries are lost from a stage; its manifest, if it was written, is not.
LEMMA PowerFailsStep ==
    ASSUME RecoveryInv, PowerFails
    PROVE  RecoveryInv'
<1>1. /\ proc' = Idle /\ children' = {}
      /\ UNCHANGED <<db, state, target, canonical, service, switches>>
  BY DEF PowerFails
<1>2. PICK c \in Commands :
        /\ stage[c].made
        /\ \/ stage' = [stage EXCEPT ![c] = NoDir]
           \/ \E kept : stage' = [stage EXCEPT ![c].objects = kept]
  BY DEF PowerFails
<1>3. \E dir : stage' = [stage EXCEPT ![c] = dir] /\ DirSound(dir) /\ (c = "backup" => SetSound(dir))
  <2>1. CASE stage' = [stage EXCEPT ![c] = NoDir]
    BY <2>1, DirFields DEF DirSound, SetSound
  <2>2. ASSUME NEW kept, stage' = [stage EXCEPT ![c].objects = kept]
        PROVE  \E dir : stage' = [stage EXCEPT ![c] = dir] /\ DirSound(dir)
                        /\ (c = "backup" => SetSound(dir))
    <3>. DEFINE dir == [stage[c] EXCEPT !.objects = kept]
    <3>1. stage' = [stage EXCEPT ![c] = dir]
      BY <2>2 DEF RecoveryInv
    <3>2. /\ dir.made /\ DOMAIN dir = DOMAIN EmptyDir /\ dir.dump = stage[c].dump
          /\ dir.manifest = stage[c].manifest
      BY <1>2, MadeDir, DirFields
    <3>3. DirSound(dir) /\ (c = "backup" => SetSound(dir))
      <4>. HIDE DEF dir
      <4>. QED  BY <1>2, <3>2 DEF DirSound, SetSound, RecoveryInv
    <3>. QED  BY <3>1, <3>3
  <2>. QED  BY <1>2, <2>1, <2>2
<1>4. PICK dir : /\ stage' = [stage EXCEPT ![c] = dir] /\ DirSound(dir)
                 /\ (c = "backup" => SetSound(dir))
  BY <1>3
<1>5. /\ DOMAIN stage' = Commands /\ DOMAIN target' = Commands
      /\ \A e \in Commands : DirSound(stage'[e]) /\ DirSound(target'[e])
      /\ SetSound(stage'["backup"]) /\ SetKept
  BY <1>1, <1>4, OneStage
<1>. QED  BY <1>1, <1>5, StoppedSound, DiskStep DEF RecoveryInv

\* A directory whose objects change keeps its dump and its manifest.
LEMMA HarmedDir ==
    ASSUME NEW old, DirSound(old), old.made, NEW objects
    PROVE  LET dir == [old EXCEPT !.objects = objects]
           IN  /\ dir.made /\ DirSound(dir) /\ dir.dump = old.dump /\ dir.manifest = old.manifest
               /\ SetSound(old) => SetSound(dir)
<1>. DEFINE dir == [old EXCEPT !.objects = objects]
<1>1. DOMAIN old = {"made", "objects", "dump", "manifest", "synced"}
  BY DirFields DEF DirSound
<1>2. /\ dir.made /\ DOMAIN dir = DOMAIN EmptyDir /\ dir.dump = old.dump
      /\ dir.manifest = old.manifest
  BY <1>1, DirFields
<1>. HIDE DEF dir
<1>3. DirSound(dir) /\ (SetSound(old) => SetSound(dir))
  BY <1>2 DEF DirSound, SetSound
<1>. QED  BY <1>2, <1>3 DEF dir

\* No command is running.
LEMMA IdleSound == proc = Idle /\ UNCHANGED proc => ProcSound'
  BY DEF ProcSound

LEMMA DamageStep ==
    ASSUME RecoveryInv, Damage
    PROVE  RecoveryInv'
<1>1. UNCHANGED <<service, state, proc, children, switches>> /\ ProcSound'
  BY IdleSound DEF Damage
<1>2. /\ switches' \in Nat /\ service' \in [Commands -> [db : Databases, version : 0..switches']]
      /\ children' \subseteq children /\ DOMAIN state' = Commands
  BY <1>1 DEF RecoveryInv
<1>3. CASE Tampers(Home) /\ UNCHANGED <<canonical, stage, target>>
  <2>1. DbStep(Home) /\ db'[Home].seal = "broken" /\ Home \in Databases
    BY <1>3, RecoveryAssumption, TampersSound DEF RecoveryInv
  <2>2. /\ \A d \in Databases : HistorySound(db'[d]) /\ RowsStored(db[d].rows)'
        /\ \A rows : RowsStored(rows) => RowsStored(rows)'
    BY <1>3, <2>1 DEF DbStep, RecoveryInv, RowsStored
  <2>3. \A d \in Databases : Restoring(d) => Restoring(d)'
    BY <1>3, <2>1 DEF DbStep, Restoring
  <2>. QED  BY <1>1, <1>2, <1>3, <2>1, <2>2, <2>3, WorldStep DEF DbStep
<1>4. CASE Junk \in canonical' /\ UNCHANGED <<db, stage, target>>
  <2>1. \A rows : RowsStored(rows)'
    BY <1>4 DEF RowsStored
  <2>2. DOMAIN db' = Databases /\ \A d \in Databases : HistorySound(db'[d])
    BY <1>4 DEF RecoveryInv
  <2>3. \A d \in Databases : Restoring(d) => Restoring(d)'
    BY <1>4 DEF Restoring
  <2>4. \A d \in Databases : RowsStored(db[d].rows)'
    BY <1>4 DEF RowsStored
  <2>. QED  BY <1>1, <1>2, <1>4, <2>1, <2>2, <2>3, <2>4, WorldStep
<1>5. ASSUME NEW c \in Commands, stage[c].made, NEW objects,
             stage' = [stage EXCEPT ![c] = [stage[c] EXCEPT !.objects = objects]],
             UNCHANGED <<db, canonical, target>>
      PROVE  RecoveryInv'
  <2>. DEFINE dir == [stage[c] EXCEPT !.objects = objects]
  <2>1. DirSound(dir) /\ (c = "backup" => SetSound(dir))
    BY <1>5, HarmedDir DEF RecoveryInv
  <2>. HIDE DEF dir
  <2>2. stage' = [stage EXCEPT ![c] = dir]
    BY <1>5 DEF dir
  <2>3. /\ DOMAIN stage' = Commands /\ DOMAIN target' = Commands
        /\ \A e \in Commands : DirSound(stage'[e]) /\ DirSound(target'[e])
        /\ SetSound(stage'["backup"]) /\ SetKept
    BY <1>5, <2>1, <2>2, OneStage
  <2>. QED  BY <1>1, <1>2, <1>5, <2>3, DiskStep
<1>6. ASSUME NEW c \in Commands, target[c].made, NEW objects,
             target' = [target EXCEPT ![c] = [target[c] EXCEPT !.objects = objects]],
             UNCHANGED <<db, canonical, stage>>
      PROVE  RecoveryInv'
  <2>. DEFINE dir == [target[c] EXCEPT !.objects = objects]
  <2>1. /\ DirSound(dir) /\ dir.made /\ dir.dump = target[c].dump
        /\ dir.manifest = target[c].manifest
    BY <1>6, HarmedDir DEF RecoveryInv
  <2>. HIDE DEF dir
  <2>2. target' = [target EXCEPT ![c] = dir]
    BY <1>6 DEF dir
  <2>3. /\ DOMAIN target' = Commands /\ target'[c] = dir
        /\ \A e \in Commands : e # c => target'[e] = target[e]
    BY <2>2 DEF RecoveryInv
  <2>4. SetKept
    BY <1>6, <2>1, <2>3, CommandNames DEF SetKept
  <2>5. /\ DOMAIN stage' = Commands /\ SetSound(stage'["backup"])
        /\ \A e \in Commands : DirSound(stage'[e]) /\ DirSound(target'[e])
    BY <1>6, <2>1, <2>3 DEF RecoveryInv
  <2>. QED  BY <1>1, <1>2, <1>6, <2>3, <2>4, <2>5, DiskStep
<1>. QED  BY <1>3, <1>4, <1>5, <1>6 DEF Damage

\* A command notices that its service file was replaced, at the next tool it calls.
LEMMA SwitchStep ==
    ASSUME RecoveryInv, Switch
    PROVE  RecoveryInv'
<1>1. /\ switches' = switches + 1
      /\ UNCHANGED <<db, canonical, state, stage, target, proc, children>>
  BY DEF Switch, disk
<1>2. PICK c \in Commands, d \in Databases :
        service' = [service EXCEPT ![c] = [db |-> d, version |-> switches + 1]]
  BY DEF Switch
<1>3. /\ switches \in Nat /\ switches' \in Nat
      /\ service \in [Commands -> [db : Databases, version : 0..switches]]
  BY <1>1 DEF RecoveryInv
<1>4. service' \in [Commands -> [db : Databases, version : 0..switches']]
  <2>1. \A v \in 0..switches : v \in 0..switches'
    BY <1>1, <1>3
  <2>2. switches + 1 \in 0..switches'
    BY <1>1, <1>3
  <2>3. \A e \in Commands : service[e] \in [db : Databases, version : 0..switches']
    BY <1>3, <2>1
  <2>. QED  BY <1>2, <1>3, <2>2, <2>3
<1>5. ProcSound'
  <2>1. CASE proc = Idle
    BY <1>1, <2>1, IdleSound
  <2>2. CASE proc # Idle
    <3>1. ProcSound
      BY DEF RecoveryInv
    <3>2. proc.version \in 0..switches'
      BY <1>1, <1>3, <2>2, <3>1 DEF ProcSound
    <3>3. Bound(proc.cmd)' => service'[proc.cmd].db = proc.id
      <4>1. CASE c = proc.cmd
        <5>1. service'[proc.cmd].version = switches + 1
          BY <1>2, <1>3, <4>1
        <5>2. proc.version # switches + 1
          BY <1>3, <2>2, <3>1 DEF ProcSound
        <5>. QED  BY <1>1, <5>1, <5>2 DEF Bound
      <4>2. CASE c # proc.cmd
        <5>1. service'[proc.cmd] = service[proc.cmd]
          BY <1>2, <1>3, <2>2, <3>1, <4>2 DEF ProcSound
        <5>. QED  BY <1>1, <2>2, <3>1, <5>1 DEF ProcSound, Bound
      <4>. QED  BY <4>1, <4>2
    <3>4. BackupSound => BackupSound'
      BY <1>1 DEF BackupSound, Valid, DumpSound, RowsStored, HasSealedLedger
    <3>5. RestoreSound => RestoreSound'
      BY <1>1 DEF RestoreSound, Valid, Restoring, HasSealedLedger
    <3>. QED  BY <1>1, <2>2, <3>1, <3>2, <3>3, <3>4, <3>5 DEF ProcSound
  <2>. QED  BY <2>1, <2>2
<1>6. /\ DOMAIN db' = Databases
      /\ \A d1 \in Databases : HistorySound(db'[d1]) /\ RowsStored(db[d1].rows)'
      /\ \A rows : RowsStored(rows) => RowsStored(rows)'
  BY <1>1 DEF RecoveryInv, RowsStored
<1>7. \A d1 \in Databases : Restoring(d1) => Restoring(d1)'
  BY <1>1 DEF Restoring
<1>. QED  BY <1>1, <1>3, <1>4, <1>5, <1>6, <1>7, WorldStep

\* Operators leave the database of a restore alone.
LEMMA AdministerStep ==
    ASSUME RecoveryInv, Administer
    PROVE  RecoveryInv'
<1>1. /\ UNCHANGED <<canonical, service, state, stage, target, proc, children, switches>>
      /\ proc = Idle
  BY DEF Administer, disk
<1>2. PICK d \in Databases :
        (state["restore"] # NoState => state["restore"].id # d) /\ Administers(d)
  BY DEF Administer
<1>3. DbStep(d)
  BY <1>2, AdministersSound DEF RecoveryInv
<1>4. /\ \A e \in Databases : HistorySound(db'[e]) /\ RowsStored(db[e].rows)'
      /\ \A rows : RowsStored(rows) => RowsStored(rows)'
  BY <1>1, <1>3 DEF DbStep, RecoveryInv, RowsStored
<1>5. \A e \in Databases : e # d /\ Restoring(e) => Restoring(e)'
  BY <1>1, <1>3 DEF DbStep, Restoring
<1>6. /\ switches' \in Nat /\ service' \in [Commands -> [db : Databases, version : 0..switches']]
      /\ children' \subseteq children
  BY <1>1 DEF RecoveryInv
<1>. QED  BY <1>1, <1>2, <1>3, <1>4, <1>5, <1>6, IdleSound, WorldStep DEF DbStep

\* The application writes a blob before the row that needs it; a database that was
\* just restored has no application yet.
LEMMA ServeStep ==
    ASSUME RecoveryInv, Serve
    PROVE  RecoveryInv'
<1>1. /\ UNCHANGED <<service, state, stage, target, proc, children, switches>>
      /\ proc = Idle /\ db[Home].granted
  BY DEF Serve, disk
<1>2. PICK b : /\ canonical' = canonical \cup {b}
               /\ db' = [db EXCEPT ![Home].rows = @ \cup {b}]
  BY DEF Serve
<1>3. Home \in Databases /\ DOMAIN db = Databases /\ HistorySound(db[Home])
  BY RecoveryAssumption DEF RecoveryInv
<1>4. /\ DOMAIN db' = Databases /\ \A e \in Databases : e # Home => db'[e] = db[e]
      /\ db'[Home].executed = db[Home].executed /\ db'[Home].ledger = db[Home].ledger
      /\ db'[Home].seal = db[Home].seal /\ DOMAIN db'[Home] = DOMAIN NoRows
      /\ db'[Home].rows = db[Home].rows \cup {b}
  BY <1>2, <1>3, RowFields DEF HistorySound
<1>5. HistorySound(db'[Home])
  BY <1>3, <1>4 DEF HistorySound
<1>6. \A rows : RowsStored(rows) => RowsStored(rows)' /\ RowsStored(rows \cup {b})'
  BY <1>2 DEF RowsStored
<1>7. \A e \in Databases : HistorySound(db'[e]) /\ RowsStored(db[e].rows)'
  <2>1. \A e \in Databases : HistorySound(db[e]) /\ RowsStored(db[e].rows)
    BY DEF RecoveryInv
  <2>2. \A e \in Databases : RowsStored(db[e].rows)'
    BY <1>2, <1>4, <2>1 DEF RowsStored
  <2>. QED  BY <1>4, <1>5, <2>1, <2>2
<1>8. \A e \in Databases : Restoring(e) => Restoring(e)'
  <2>1. Restoring(Home) => db[Home].seal = "broken"
    <3>1. ~NoRows.granted
      BY DEF NoRows
    <3>2. target["backup"].made => ~target["backup"].dump.granted
      BY SetDump, RowFields DEF DumpSound, HistorySound
    <3>. QED  BY <1>1, <3>1, <3>2 DEF Restoring
  <2>. QED  BY <1>1, <1>4, <2>1 DEF Restoring
<1>9. /\ switches' \in Nat /\ service' \in [Commands -> [db : Databases, version : 0..switches']]
      /\ children' \subseteq children
  BY <1>1 DEF RecoveryInv
<1>. QED  BY <1>1, <1>4, <1>6, <1>7, <1>8, <1>9, IdleSound, WorldStep

-----------------------------------------------------------------------------
(* The specification *)

LEMMA RecoveryInitially ==
    ASSUME RecoveryInit
    PROVE  RecoveryInv
<1>1. Packaged \in Releases /\ Home \in Databases /\ Spare \in Databases
  BY ReleaseAssumption, RecoveryAssumption
<1>2. Len(Packaged) \in Nat
  BY <1>1, ReleaseType
<1>3. HistorySound(NoRows) /\ NoRows.rows = {}
  <2>1. /\ NoRows.executed = <<>> /\ NoRows.ledger = <<>> /\ NoRows.seal = "none"
        /\ NoRows.rows = {}
    BY DEF NoRows
  <2>2. /\ SubSeq(Packaged, 1, 0) = <<>> /\ IsInjective(SubSeq(Packaged, 1, 0))
        /\ SubSeq(Packaged, 1, 0) \in Seq(Files) /\ 0 \in 0..Len(Packaged)
        /\ DOMAIN SubSeq(Packaged, 1, 0) = 1..0
    <3>1. 0 \in 0..Len(Packaged)
      BY <1>2
    <3>2. /\ SubSeq(Packaged, 1, 0) \in Seq(Files) /\ Len(SubSeq(Packaged, 1, 0)) = 0
          /\ DOMAIN SubSeq(Packaged, 1, 0) = 1..0 /\ IsInjective(SubSeq(Packaged, 1, 0))
      BY <1>1, <3>1, PrefixType
    <3>. QED  BY <3>1, <3>2, EmptySeq
  <2>. QED  BY <2>1, <2>2 DEF HistorySound
<1>4. ASSUME NEW n \in 1..Len(Packaged), NEW digested
      PROVE  /\ HistorySound(Legacy(SubSeq(Packaged, 1, n), digested))
             /\ Legacy(SubSeq(Packaged, 1, n), digested).rows = {}
  <2>. DEFINE files == SubSeq(Packaged, 1, n)
              rows == [i \in DOMAIN files |-> IF i \in digested THEN files[i] ELSE Null]
              r == Legacy(files, digested)
  <2>1. n \in 0..Len(Packaged)
    BY <1>2
  <2>2. files \in Seq(Files) /\ DOMAIN files = 1..n /\ IsInjective(files)
    BY <1>1, <2>1, PrefixType
  <2>3. /\ r.executed = files /\ r.ledger = rows /\ r.seal = "none" /\ r.rows = {}
        /\ DOMAIN r = DOMAIN NoRows
    <3>. HIDE DEF files
    <3>1. r = [NoRows EXCEPT !.executed = files, !.ledger = rows]
      BY DEF Legacy
    <3>. HIDE DEF rows, r
    <3>. QED  BY <3>1, RowFields DEF NoRows
  <2>4. DOMAIN r.ledger = 1..n
    BY <2>2, <2>3
  <2>. HIDE DEF r, rows
  <2>. QED  BY <2>1, <2>2, <2>3, <2>4 DEF HistorySound, r
<1>5. DOMAIN db = Databases /\ \A d \in Databases : HistorySound(db[d]) /\ db[d].rows = {}
  BY <1>3, <1>4 DEF RecoveryInit
<1>6. \A d \in Databases : RowsStored(db[d].rows)
  BY <1>5 DEF RowsStored
<1>7. service \in [Commands -> [db : Databases, version : 0..switches]] /\ switches \in Nat
  BY <1>1 DEF RecoveryInit, Commands
<1>8. /\ DOMAIN state = Commands /\ DOMAIN stage = Commands /\ DOMAIN target = Commands
      /\ \A c \in Commands : state[c] = NoState /\ stage[c] = NoDir /\ target[c] = NoDir
      /\ proc = Idle /\ children = {}
  BY DEF RecoveryInit
<1>9. /\ \A c \in Commands : DirSound(stage[c]) /\ DirSound(target[c])
      /\ SetSound(stage["backup"]) /\ SetSound(target["backup"])
      /\ target["backup"].made => target["backup"].manifest # None
  BY <1>8, CommandNames, DirFields DEF DirSound, SetSound
<1>10. ProcSound
  BY <1>8 DEF ProcSound
<1>. QED  BY <1>5, <1>6, <1>7, <1>8, <1>9, <1>10, CommandNames DEF RecoveryInv

LEMMA RecoveryStutters ==
    ASSUME RecoveryInv, UNCHANGED recoveryVars
    PROVE  RecoveryInv'
<1>1. UNCHANGED <<db, canonical, service, switches, children, state, stage, target, proc>>
  BY DEF recoveryVars
<1>2. /\ \A d : HasSealedLedger(d) => HasSealedLedger(d)'
      /\ \A d : Restoring(d) => Restoring(d)'
  BY <1>1 DEF HasSealedLedger, Restoring
<1>3. ProcSound'
  BY <1>1, <1>2, ProcKept
<1>. QED  BY <1>1, <1>3, SameDirs, DiskStep DEF RecoveryInv

LEMMA RecoveryStep ==
    ASSUME RecoveryInv, [RecoveryNext]_recoveryVars
    PROVE  RecoveryInv'
<1>1. CASE BackupStep
  BY <1>1, StartBackupStep, DiscardStep, ForgetStep, MarkBuildingStep, DumpStep,
     WriteManifestStep, MarkPublishingStep, RepublishStep DEF BackupStep
<1>2. CASE RestoreStep
  BY <1>2, StartRestoreStep, MarkPreparingStep, ClearStep, MarkPreparedStep, MarkRestoringStep,
     RestoreDatabaseStep, ChildEndsStep, MarkRestoredStep, PublishCanonicalStep DEF RestoreStep
<1>3. ASSUME NEW c \in Commands, Step(c)  PROVE RecoveryInv'
  BY <1>3, MkdirStep, CopyStep, CopiedStep, SyncStep, RenameStep, UnlinkStep DEF Step
<1>4. CASE Stops \/ Unbound \/ PowerFails \/ Damage \/ Switch \/ Administer \/ Serve
  BY <1>4, StopStep, PowerFailsStep, DamageStep, SwitchStep, AdministerStep, ServeStep
<1>5. CASE UNCHANGED recoveryVars
  BY <1>5, RecoveryStutters
<1>. QED  BY <1>1, <1>2, <1>3, <1>4, <1>5 DEF RecoveryNext

\* Whatever stops a backup or a restore, and whatever is done to the databases
\* between attempts: a manifest is that of a whole set, and the database of a
\* restore is empty, restored, or one whose seal was broken by hand.
THEOREM RecoveryInvariance == RecoverySpec => []RecoveryInv
<1>1. RecoveryInit => RecoveryInv
  BY RecoveryInitially
<1>2. RecoveryInv /\ [RecoveryNext]_recoveryVars => RecoveryInv'
  BY RecoveryStep
<1>. QED  BY <1>1, <1>2, PTL DEF RecoverySpec

\* A sealed ledger is the history of its database, and no file is executed twice,
\* for any number of releases and databases (apply_postgres_migrations,
\* adopt_legacy_postgres_migration_checksums, pg_restore).
THEOREM LedgersAreHistory == RecoverySpec => []LedgerIsHistory
<1>1. RecoveryInv => LedgerIsHistory
  BY DEF RecoveryInv, HistorySound, LedgerIsHistory, IsInjective
<1>. QED  BY <1>1, RecoveryInvariance, PTL

\* Only the last step of a command reports success.
LEMMA OnlyUnlinkFinishes ==
    ASSUME [RecoveryNext]_recoveryVars, finished' # finished
    PROVE  \E c \in Commands : Unlink(c)
  BY DEF RecoveryNext, recoveryVars, BackupStep, RestoreStep, Step, StartBackup, Discard, Forget,
     MarkBuilding, Dump, WriteManifest, MarkPublishing, Republish, StartRestore, MarkPreparing,
     Clear, MarkPrepared, MarkRestoring, RestoreDatabase, ChildEnds, MarkRestored,
     PublishCanonical, Mkdir, Copy, Copied, Sync, Rename, Stops, Unbound, PowerFails, Damage,
     Switch, Administer, Serve, Elsewhere, Outside

\* What is true when a command has removed its state file.
LEMMA UnlinkIsReal ==
    ASSUME RecoveryInv, NEW c \in Commands, Unlink(c)
    PROVE  LET set == target'["backup"]
           IN  /\ Valid(set) /\ set.dump.rows \subseteq set.objects /\ Junk \notin set.objects
               /\ set.dump.seal = "exact" /\ set.dump.ledger = Packaged
               /\ c = "backup" => set.manifest.id = state[c].id
               /\ c = "restore" => target'["restore"].objects = set.objects
                                   /\ Dumped(state[c].id) = set.dump
<1>. DEFINE set == target["backup"]
<1>1. At(c, "unlink") /\ UNCHANGED target
  BY DEF Unlink
<1>2. Valid(set) /\ SetSound(set) /\ state[c].id = proc.id
  BY <1>1, Running, TwoCommands DEF RecoveryInv, BackupSound, RestoreSound
<1>3. /\ DumpSound(set.dump) /\ set.dump.rows \subseteq set.objects /\ Junk \notin set.objects
      /\ set.dump.seal = "exact" /\ set.dump.ledger = Packaged
  BY <1>2 DEF Valid, SetSound, DumpSound, LedgerAuthority
<1>4. CASE c = "backup"
  BY <1>1, <1>2, <1>3, <1>4, Running DEF BackupSound
<1>5. CASE c = "restore"
  <2>1. /\ RestoreSound /\ proc.pc = "unlink" /\ proc.id \in Databases
    BY <1>1, <1>5, Running
  <2>2. target["restore"].objects = set.objects
    BY <2>1 DEF RestoreSound, Valid
  <2>3. db[proc.id] = set.dump
    BY <2>1, EmptyUnsealed DEF RestoreSound, Restoring, HasSealedLedger, LedgerAuthority
  <2>4. Dumped(proc.id) = set.dump
    BY <1>3, <2>3 DEF Dumped, DumpSound
  <2>. QED  BY <1>1, <1>2, <1>3, <1>5, <2>2, <2>4
<1>. QED  BY <1>4, <1>5, TwoCommands

\* A backup or a restore that reports success has done it, after any number of
\* crashes, retries, power failures, decayed files and switched service files
\* (create_recovery_set, restore_recovery_set).
THEOREM SuccessesAreReal == RecoverySpec => SuccessIsReal
<1>1. RecoveryInv /\ [RecoveryNext]_recoveryVars =>
        [\A c \in finished' \ finished :
            LET set == target'["backup"]
                root == target'["restore"].objects
                restored == Dumped(state[c].id)
            IN  /\ Valid(set) /\ set.dump.rows \subseteq set.objects /\ Junk \notin set.objects
                /\ set.dump.seal = "exact" /\ set.dump.ledger = Packaged
                /\ c = "backup" => set.manifest.id = state[c].id
                /\ c = "restore" => root = set.objects /\ restored = set.dump]_recoveryVars
  <2>. SUFFICES ASSUME RecoveryInv, [RecoveryNext]_recoveryVars, NEW c \in finished' \ finished
                PROVE  LET set == target'["backup"]
                       IN  /\ Valid(set) /\ set.dump.rows \subseteq set.objects
                           /\ Junk \notin set.objects
                           /\ set.dump.seal = "exact" /\ set.dump.ledger = Packaged
                           /\ c = "backup" => set.manifest.id = state[c].id
                           /\ c = "restore" => target'["restore"].objects = set.objects
                                               /\ Dumped(state[c].id) = set.dump
    OBVIOUS
  <2>1. PICK b \in Commands : Unlink(b)
    BY OnlyUnlinkFinishes
  <2>2. b = c
    BY <2>1 DEF Unlink
  <2>. QED  BY <2>1, <2>2, UnlinkIsReal
<1>. QED  BY <1>1, RecoveryInvariance, PTL DEF RecoverySpec, SuccessIsReal

=============================================================================
