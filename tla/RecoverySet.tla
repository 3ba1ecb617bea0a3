---------------------------- MODULE RecoverySet -----------------------------
(***************************************************************************)
(* Release recovery sets (release_recovery.py), over the databases of      *)
(* Migrations.                                                             *)
(*                                                                         *)
(* backup dumps a database and copies the canonical blobs into a stage,    *)
(* and renames it to the recovery set; restore copies the blobs of the set *)
(* into a stage, restores the database in one transaction of pg_restore    *)
(* and renames the stage to the new canonical root.  Either keeps a small  *)
(* state file beside its target, from which the same command, run again    *)
(* after a crash, goes on or starts anew.                                  *)
(*                                                                         *)
(* Every action makes at most one durable change, and the process may stop *)
(* before each.  A stopped process leaves its pg_restore running.  Power   *)
(* loss takes directory entries that were not synced.  Between attempts    *)
(* files decay and services go on writing; the service file may be pointed *)
(* at another database at any time.  The documented preconditions are      *)
(* kept: one command at a time, nobody else on the database of a restore.  *)
(***************************************************************************)
EXTENDS Migrations, FiniteSets

CONSTANTS
    Home, Spare,    \* the database of the running system; one that is to be restored into
    Blobs,          \* canonical objects, named by their digest
    CrashBound, DamageBound, SwitchBound

ASSUME RecoveryAssumption ==
    /\ {Home, Spare} \subseteq Databases /\ Home # Spare
    /\ CrashBound \in Nat /\ DamageBound \in Nat /\ SwitchBound \in Nat

VARIABLES
    canonical,  \* objects in the canonical root of the running system
    service,    \* service[c]: the database that a command reaches, and its version
    state,      \* state[c]: the operation state file
    stage,      \* stage[c]: the stage directory
    target,     \* target[c]: the recovery set; the restored canonical root
    proc,       \* the running command
    children,   \* pg_restore processes
    asked,      \* commands that an operator has run
    finished,   \* commands that reported success
    crashes, damages, switches

disk == <<state, stage, target>>
recoveryVars == <<db, canonical, service, state, stage, target, proc, children, asked,
                  finished, crashes, damages, switches>>

Commands == {"backup", "restore"}
Junk == "junk"          \* a file whose bytes are not those of its name
None == [none |-> TRUE]    \* no dump, no manifest
NoState == [phase |-> "none"]
Idle == [pc |-> "idle"]

\* A directory; a recovery set also has a dump and a manifest.
NoDir == [made |-> FALSE]
EmptyDir == [made |-> TRUE, objects |-> {}, dump |-> None, manifest |-> None, synced |-> FALSE]

\* pg_dump --no-owner --no-privileges
Dumped(d) == [db[d] EXCEPT !.granted = FALSE]

RecoveryInit ==
    /\ db \in [Databases -> {NoRows} \cup
            {Legacy(SubSeq(Packaged, 1, n), digested) :
                n \in 1..Len(Packaged), digested \in SUBSET {1}}]
    /\ \A d \in Databases \ {Home} : db[d] = NoRows
    /\ service = [c \in Commands |->
            [db |-> IF c = "backup" THEN Home ELSE Spare, version |-> 0]]
    /\ canonical = {}
    /\ state = [c \in Commands |-> NoState]
    /\ stage = [c \in Commands |-> NoDir]
    /\ target = [c \in Commands |-> NoDir]
    /\ proc = Idle /\ children = {} /\ asked = {} /\ finished = {}
    /\ crashes = 0 /\ damages = 0 /\ switches = 0

-----------------------------------------------------------------------------
(* Tools and files *)

\* _LEDGER_AUTHORITY_SQL: every packaged digest, no other, under the exact seal.
LedgerAuthority(record) == record.seal = "exact" /\ record.ledger = Packaged

\* target_database_has_sealed_migration_ledger
HasSealedLedger(d) == LedgerAuthority(db[d])

\* target_database_is_empty
IsEmpty(d) == db[d] = NoRows

\* The manifest of a set; manifest_sha256 is its identity.
Manifest(id, dir) == [id |-> id, dump |-> dir.dump, objects |-> dir.objects]

\* _hash_file: the size and the digest of a file against those of the manifest.
SameBytes(found, recorded) == found = recorded

\* _validate_recovery_set
Valid(dir) ==
    /\ dir.made /\ dir.manifest # None
    /\ SameBytes(dir.dump, dir.manifest.dump) /\ dir.objects = dir.manifest.objects

\* mutant: the staged blobs are not read again
TrustCanonical(dir, objects) == TRUE

\* _validate_canonical_root
ValidCanonical(dir, objects) == dir.objects = objects

\* _revalidate_bindings: the service file is the one that the command opened.
Bound(c) == service[c].version = proc.version

\* The command goes on: it is running, at pc, and the tools it calls are bound.
At(c, pc) == proc.pc = pc /\ proc.cmd = c
Goto(pc) == proc' = [proc EXCEPT !.pc = pc]

\* _atomic_json: a file is the old or the new one, whenever the process stops.
Replaces(c, record) == state' = [state EXCEPT ![c] = record]

\* _write_operation_state
Marks(c, phase, manifest) ==
    Replaces(c, [phase |-> phase, id |-> proc.id, manifest |-> manifest])

Starts(c, pc, manifest) ==
    /\ proc' = [cmd |-> c, pc |-> pc, id |-> service[c].db, version |-> service[c].version,
             manifest |-> manifest]
    /\ asked' = asked \cup {c}

Outside == UNCHANGED <<canonical, service, finished, crashes, damages, switches>>
Elsewhere == Outside /\ UNCHANGED asked

-----------------------------------------------------------------------------
(* create_recovery_set *)

\* mutant: a stage that was built by an earlier attempt is taken for complete
Resumable(dir) == dir.made

\* A crashed build is only resumed when its manifest was written.
Complete(dir) == dir.made /\ dir.manifest # None

\* Up to the first change: the authority of the source, then what an earlier
\* attempt left behind.
StartBackup ==
    LET id == service["backup"].db
        st == state["backup"]
        dir == stage["backup"]
        set == target["backup"]
        Theirs(d) == Valid(d) /\ d.manifest.id = id
    IN  /\ proc = Idle /\ HasSealedLedger(id)
        /\ \/ /\ st = NoState /\ ~set.made /\ ~dir.made
              /\ Starts("backup", "mark", None)
           \/ /\ st.phase = "building" /\ st.id = id
              /\ \/ ~Complete(dir) /\ Starts("backup", "discard", None)
                 \/ Complete(dir) /\ Theirs(dir) /\ Starts("backup", "sync", dir.manifest)
           \/ /\ st.phase = "publishing" /\ st.id = id
              /\ \/ /\ set.made /\ ~dir.made /\ Theirs(set) /\ set.manifest = st.manifest
                    /\ Starts("backup", "unlink", None)
                 \/ /\ dir.made /\ ~set.made /\ Theirs(dir) /\ dir.manifest = st.manifest
                    /\ Starts("backup", "republish", None)
        /\ UNCHANGED <<db, children, disk>> /\ Outside

\* An incomplete build is thrown away, then its state file, and the command
\* starts anew.
Discard ==
    /\ At("backup", "discard") /\ Goto("forget")
    /\ stage' = [stage EXCEPT !["backup"] = NoDir]
    /\ UNCHANGED <<db, children, state, target>> /\ Elsewhere

Forget ==
    /\ At("backup", "forget")
    /\ \/ ~target["backup"].made /\ Goto("mark")
       \/ target["backup"].made /\ proc' = Idle
    /\ state' = [state EXCEPT !["backup"] = NoState]
    /\ UNCHANGED <<db, children, stage, target>> /\ Elsewhere

MarkBuilding ==
    /\ At("backup", "mark") /\ Goto("mkdir")
    /\ Marks("backup", "building", None)
    /\ UNCHANGED <<db, children, stage, target>> /\ Elsewhere

Dump ==
    /\ At("backup", "dump") /\ Bound("backup") /\ Goto("copy")
    /\ stage' = [stage EXCEPT !["backup"].dump = Dumped(service["backup"].db)]
    /\ UNCHANGED <<db, children, state, target>> /\ Elsewhere

WriteManifest ==
    /\ At("backup", "manifest") /\ Goto("sync")
    /\ stage' = [stage EXCEPT !["backup"].manifest = Manifest(proc.id, stage["backup"])]
    /\ UNCHANGED <<db, children, state, target>> /\ Elsewhere

\* A new set is published at once, one of an earlier attempt after another look.
MarkPublishing ==
    /\ At("backup", "synced")
    /\ \/ proc.manifest = None /\ Bound("backup") /\ Goto("rename")
       \/ proc.manifest # None /\ Goto("republish")
    /\ Marks("backup", "publishing", stage["backup"].manifest)
    /\ UNCHANGED <<db, children, stage, target>> /\ Elsewhere

Republish ==
    /\ At("backup", "republish") /\ Bound("backup") /\ Goto("rename")
    /\ UNCHANGED <<db, children, disk>> /\ Elsewhere

-----------------------------------------------------------------------------
(* What the commands share *)

\* The objects that a command copies into its stage.
Originals(c) == IF c = "backup" THEN canonical ELSE target["backup"].objects

Mkdir(c) ==
    /\ At(c, "mkdir") /\ ~stage[c].made
    /\ Goto(IF c = "backup" THEN "dump" ELSE "copy")
    /\ stage' = [stage EXCEPT ![c] = EmptyDir]
    /\ UNCHANGED <<db, children, state, target>> /\ Elsewhere

\* _copy_stream and the comparison of what was copied with its name; a command
\* stops at a blob that does not match.
Copy(c) ==
    /\ At(c, "copy")
    /\ \E b \in Originals(c) \ stage[c].objects :
        \/ b = Junk /\ proc' = Idle /\ UNCHANGED stage
        \/ b # Junk /\ UNCHANGED proc /\ stage' = [stage EXCEPT ![c].objects = @ \cup {b}]
    /\ UNCHANGED <<db, children, state, target>> /\ Elsewhere

Copied(c) ==
    /\ At(c, "copy") /\ Originals(c) \subseteq stage[c].objects
    /\ Goto(IF c = "backup" THEN "manifest" ELSE "sync")
    /\ UNCHANGED <<db, children, disk>> /\ Elsewhere

\* _fsync_tree
Sync(c) ==
    /\ At(c, "sync") /\ Goto("synced")
    /\ stage' = [stage EXCEPT ![c].synced = TRUE]
    /\ UNCHANGED <<db, children, state, target>> /\ Elsewhere

\* _publish_directory: never over an existing target.
Rename(c) ==
    /\ At(c, "rename")
    /\ \/ /\ ~target[c].made /\ Goto("unlink")
          /\ target' = [target EXCEPT ![c] = stage[c]]
          /\ stage' = [stage EXCEPT ![c] = NoDir]
       \/ target[c].made /\ proc' = Idle /\ UNCHANGED <<stage, target>>
    /\ UNCHANGED <<db, children, state>> /\ Elsewhere

\* The state file is removed and success is reported.
Unlink(c) ==
    /\ At(c, "unlink") /\ proc' = Idle
    /\ state' = [state EXCEPT ![c] = NoState]
    /\ finished' = finished \cup {c}
    /\ UNCHANGED <<db, children, stage, target, canonical, service, asked, crashes, damages, switches>>

-----------------------------------------------------------------------------
(* restore_recovery_set *)

\* Where a phase of the state file is taken up.
Resume == [preparing |-> "clear", prepared |-> "prepared",
           database_restoring |-> "restoring", database_restored |-> "restored"]

StartRestore ==
    LET id == service["restore"].db
        set == target["backup"]
        st == state["restore"]
    IN  /\ proc = Idle /\ Valid(set)
        /\ \/ /\ st = NoState /\ ~target["restore"].made /\ ~stage["restore"].made /\ IsEmpty(id)
              /\ Starts("restore", "mark", set.manifest)
           \/ /\ st # NoState /\ st.manifest = set.manifest /\ st.id = id
              /\ Starts("restore", Resume[st.phase], set.manifest)
        /\ UNCHANGED <<db, children, disk>> /\ Outside

MarkPreparing ==
    /\ At("restore", "mark") /\ Goto("clear")
    /\ Marks("restore", "preparing", proc.manifest)
    /\ UNCHANGED <<db, children, stage, target>> /\ Elsewhere

Clear ==
    /\ At("restore", "clear") /\ Bound("restore")
    /\ \/ IsEmpty(service["restore"].db) /\ Goto("mkdir")
          /\ stage' = [stage EXCEPT !["restore"] = NoDir]
       \/ ~IsEmpty(service["restore"].db) /\ proc' = Idle /\ UNCHANGED stage
    /\ UNCHANGED <<db, children, state, target>> /\ Elsewhere

MarkPrepared ==
    /\ At("restore", "synced") /\ Goto("prepared")
    /\ Marks("restore", "prepared", proc.manifest)
    /\ UNCHANGED <<db, children, stage, target>> /\ Elsewhere

MarkRestoring ==
    /\ At("restore", "prepared") /\ Bound("restore")
    /\ \/ /\ IsEmpty(service["restore"].db)
          /\ ValidCanonical(stage["restore"], proc.manifest.objects)
          /\ Marks("restore", "database_restoring", proc.manifest) /\ Goto("restoring")
       \/ /\ \/ ~IsEmpty(service["restore"].db)
             \/ ~ValidCanonical(stage["restore"], proc.manifest.objects)
          /\ proc' = Idle /\ UNCHANGED state
    /\ UNCHANGED <<db, children, stage, target>> /\ Elsewhere

\* mutant: pg_restore is run whether or not the transaction was committed before
AlwaysRestores(d) == TRUE

\* An empty database means that the transaction did not commit.
NeedsRestore(d) == IsEmpty(d)

RestoreDatabase ==
    LET d == service["restore"].db
    IN  /\ At("restore", "restoring") /\ Bound("restore")
        /\ \/ /\ NeedsRestore(d) /\ Goto("waiting")
              /\ children' = children \cup {[db |-> d, dump |-> target["backup"].dump,
                                             by |-> crashes]}
           \/ ~NeedsRestore(d) /\ Goto("confirm") /\ UNCHANGED children
        /\ UNCHANGED <<db, disk>> /\ Elsewhere

\* pg_restore --single-transaction --exit-on-error: it commits as a whole, or
\* fails at the first relation that exists.
ChildEnds ==
    \E child \in children :
        /\ children' = children \ {child}
        /\ LET waited == proc.pc = "waiting" /\ child.by = crashes IN
           \/ /\ IsEmpty(child.db) /\ db' = [db EXCEPT ![child.db] = child.dump]
              /\ IF waited THEN Goto("confirm") ELSE UNCHANGED proc
           \/ /\ ~IsEmpty(child.db) /\ UNCHANGED db
              /\ IF waited THEN proc' = Idle ELSE UNCHANGED proc
        /\ UNCHANGED disk /\ Elsewhere

MarkRestored ==
    /\ At("restore", "confirm") /\ Bound("restore")
    /\ \/ /\ HasSealedLedger(proc.id)
          /\ Marks("restore", "database_restored", proc.manifest) /\ Goto("restored")
       \/ ~HasSealedLedger(proc.id) /\ proc' = Idle /\ UNCHANGED state
    /\ UNCHANGED <<db, children, stage, target>> /\ Elsewhere

\* The stage is to be published, or was before a crash.
PublishCanonical ==
    LET Good(dir) == dir.made /\ ValidCanonical(dir, proc.manifest.objects)
        staged == Good(stage["restore"]) /\ ~target["restore"].made
        published == Good(target["restore"]) /\ ~stage["restore"].made
    IN  /\ At("restore", "restored") /\ Bound("restore")
        /\ \/ HasSealedLedger(proc.id) /\ staged /\ Goto("rename")
           \/ HasSealedLedger(proc.id) /\ published /\ Goto("unlink")
           \/ ~(HasSealedLedger(proc.id) /\ (staged \/ published)) /\ proc' = Idle
        /\ UNCHANGED <<db, children, disk>> /\ Elsewhere

-----------------------------------------------------------------------------
(* Everything else *)

\* The process is killed or one of its tools fails; when pg_restore times out it is
\* killed too.
Stops ==
    /\ proc # Idle /\ crashes < CrashBound
    /\ proc' = Idle /\ crashes' = crashes + 1
    /\ children' \in {children} \cup
          (IF proc.pc = "waiting" THEN {{child \in children : child.by # crashes}} ELSE {})
    /\ UNCHANGED <<db, canonical, service, disk, asked, finished, damages, switches>>

\* A tool finds the service file changed.
Unbound ==
    /\ proc # Idle /\ ~Bound(proc.cmd)
    /\ proc.pc \in {"dump", "clear", "prepared", "restoring", "confirm", "restored", "republish"}
          \cup (IF proc.cmd = "backup" /\ proc.manifest = None THEN {"synced"} ELSE {})
    /\ proc' = Idle
    /\ UNCHANGED <<db, children, disk>> /\ Elsewhere

\* Power fails.  A stage whose entry is not synced with a later state file may be
\* lost, as may be the entries of a tree that was not synced; the files directly
\* in a stage that has its manifest are not.
PowerFails ==
    /\ crashes < CrashBound /\ crashes' = crashes + 1
    /\ proc' = Idle /\ children' = {}
    /\ \E c \in Commands :
        /\ stage[c].made /\ state[c].phase \in {"building", "preparing"}
        /\ \/ stage' = [stage EXCEPT ![c] = NoDir]
           \/ /\ ~stage[c].synced
              /\ \E kept \in SUBSET stage[c].objects : stage' = [stage EXCEPT ![c].objects = kept]
    /\ UNCHANGED <<db, canonical, service, state, target, asked, finished, damages, switches>>

\* An object decays, or is lost from a copy, or the ledger is changed by hand, while
\* no command is running.
Damage ==
    LET Decays(objects) == {(objects \ {b}) \cup {Junk} : b \in objects}
        Loses(objects) == {objects \ {b} : b \in objects}
        Harmed(dir) == {[dir EXCEPT !.objects = objects] :
                            objects \in Decays(dir.objects) \cup Loses(dir.objects)}
    IN  /\ proc = Idle /\ damages < DamageBound /\ damages' = damages + 1
        /\ \/ Tampers(Home) /\ UNCHANGED <<canonical, stage, target>>
           \/ canonical' \in Decays(canonical) /\ UNCHANGED <<db, stage, target>>
           \/ /\ \E c \in Commands : stage[c].made
                    /\ \E dir \in Harmed(stage[c]) : stage' = [stage EXCEPT ![c] = dir]
              /\ UNCHANGED <<db, canonical, target>>
           \/ /\ \E c \in Commands : target[c].made
                    /\ \E dir \in Harmed(target[c]) : target' = [target EXCEPT ![c] = dir]
              /\ UNCHANGED <<db, canonical, stage>>
        /\ UNCHANGED <<service, state, proc, children, asked, finished, crashes, switches>>

\* The service name of a command is pointed at another database.
Switch ==
    /\ switches < SwitchBound /\ switches' = switches + 1
    /\ \E c \in Commands, d \in Databases :
        service' = [service EXCEPT ![c] = [db |-> d, version |-> switches + 1]]
    /\ UNCHANGED <<db, canonical, disk, proc, children, asked, finished, crashes, damages>>

\* Between commands the databases that no restore owns are administered, ...
Administer ==
    /\ proc = Idle /\ children = {}
    /\ \E d \in Databases :
        /\ state["restore"] # NoState => state["restore"].id # d
        /\ Administers(d)
    /\ UNCHANGED <<canonical, service, disk, proc, children, asked, finished, crashes, damages, switches>>

\* ... and the application puts a blob and a row that needs it into the
\* database that its canonical root belongs to.
Serve ==
    /\ proc = Idle
    /\ db[Home].granted
    /\ \E b \in Blobs \ canonical :
        /\ canonical' = canonical \cup {b}
        /\ db' = [db EXCEPT ![Home].rows = @ \cup {b}]
    /\ UNCHANGED <<service, disk, proc, children, asked, finished, crashes, damages, switches>>

BackupStep ==
    \/ StartBackup \/ Discard \/ Forget \/ MarkBuilding \/ Dump \/ WriteManifest
    \/ MarkPublishing \/ Republish
RestoreStep ==
    \/ StartRestore \/ MarkPreparing \/ Clear \/ MarkPrepared \/ MarkRestoring \/ RestoreDatabase
    \/ ChildEnds \/ MarkRestored \/ PublishCanonical
Step(c) == Mkdir(c) \/ Copy(c) \/ Copied(c) \/ Sync(c) \/ Rename(c) \/ Unlink(c)

RecoveryNext ==
    \/ BackupStep \/ RestoreStep \/ \E c \in Commands : Step(c)
    \/ Stops \/ Unbound \/ PowerFails \/ Damage \/ Switch \/ Administer \/ Serve

\* A running command goes on, and an operator who has run it does so again until
\* it succeeds.
Retried(c) == proc = Idle => c \in asked \ finished
RecoveryFairness ==
    /\ WF_recoveryVars(BackupStep /\ Retried("backup"))
    /\ WF_recoveryVars(RestoreStep /\ Retried("restore"))
    /\ WF_recoveryVars(ChildEnds \/ Unbound \/ \E c \in Commands : Step(c))

RecoverySpec == RecoveryInit /\ [][RecoveryNext]_recoveryVars /\ RecoveryFairness

-----------------------------------------------------------------------------
(* Correctness *)

\* A command that reports success has done it, however often it was begun: the
\* set is the dump and the blobs of one moment, with every blob that a row needs;
\* the restored root and database are those of the set, and the ledger is that
\* of the release (create_recovery_set, restore_recovery_set).
SuccessIsReal ==
    [][\A c \in finished' \ finished :
        LET set == target'["backup"]
            root == target'["restore"].objects
            restored == Dumped(state[c].id)
        IN  /\ Valid(set) /\ set.dump.rows \subseteq set.objects /\ Junk \notin set.objects
            /\ set.dump.seal = "exact" /\ set.dump.ledger = Packaged
            /\ c = "backup" => set.manifest.id = state[c].id
            /\ c = "restore" => root = set.objects /\ restored = set.dump]_recoveryVars

\* What a retry cannot make good: files that changed, another database, a
\* release that is not the packaged one, a database that is in use; and a stage
\* that has its manifest but lost other entries when power failed, which
\* create_recovery_set refuses to resume and to discard.
Disturbed(c) ==
    \/ damages > 0 \/ switches > 0
    \/ c = "backup" /\ ~HasSealedLedger(Home)
    \/ c = "backup" /\ Complete(stage[c]) /\ ~Valid(stage[c])
    \/ c = "restore" /\ state[c] = NoState /\ ~IsEmpty(Spare)

\* Whatever a crash leaves behind, the same command run again finishes: no stage,
\* state file or half-restored database blocks it for ever.
RetriesFinish ==
    \A c \in Commands : c \in asked ~> (c \in finished \/ Disturbed(c))

-----------------------------------------------------------------------------
(* The inductive invariant of RecoverySet_proofs *)

\* The rows need nothing that the canonical root does not have, unless it decayed.
RowsStored(rows) == Junk \in canonical \/ rows \subseteq canonical

\* What pg_dump wrote: the ledger of the release under its seal.
DumpSound(dump) ==
    /\ HistorySound(dump) /\ LedgerAuthority(dump)
    /\ dump = [dump EXCEPT !.granted = FALSE]
    /\ RowsStored(dump.rows)

\* A directory that exists has its entries.
DirSound(dir) == dir = NoDir \/ (dir.made /\ DOMAIN dir = DOMAIN EmptyDir)

\* A manifest is that of a whole set.
SetSound(dir) ==
    dir.made /\ dir.manifest # None =>
        /\ DumpSound(dir.dump) /\ dir.manifest.dump = dir.dump
        /\ dir.dump.rows \subseteq dir.manifest.objects /\ Junk \notin dir.manifest.objects

\* A database that a restore has for itself: empty, restored, or spoilt by hand.
Restoring(d) ==
    /\ d \in Databases /\ target["backup"].made
    /\ db[d] = NoRows \/ db[d] = target["backup"].dump \/ db[d].seal = "broken"

BackupSound ==
    LET dir == stage["backup"]
    IN  /\ HasSealedLedger(proc.id)
        /\ proc.pc \in {"dump", "copy", "manifest"} => dir.made /\ dir.manifest = None
        /\ proc.pc = "dump" => dir.objects = {}
        /\ proc.pc \in {"copy", "manifest"} => DumpSound(dir.dump) /\ Junk \notin dir.objects
        /\ proc.pc = "manifest" => dir.dump.rows \subseteq dir.objects
        /\ proc.pc \in {"sync", "synced", "republish", "rename"} =>
              Valid(dir) /\ dir.manifest.id = proc.id
        /\ proc.pc = "unlink" =>
              Valid(target["backup"]) /\ target["backup"].manifest.id = proc.id
        /\ proc.pc \in {"republish", "rename", "unlink"} => state["backup"].id = proc.id

RestoreSound ==
    /\ Valid(target["backup"]) /\ proc.manifest = target["backup"].manifest
    /\ Restoring(proc.id)
    /\ proc.pc # "mark" => state["restore"].id = proc.id
    /\ proc.pc \in {"rename", "unlink"} => HasSealedLedger(proc.id)
    /\ proc.pc = "rename" => stage["restore"].objects = proc.manifest.objects
    /\ proc.pc = "unlink" => target["restore"].objects = proc.manifest.objects

\* The service file of a command is the one it opened, or has a later version.
ProcSound ==
    proc # Idle =>
        /\ DOMAIN proc = {"cmd", "pc", "id", "version", "manifest"}
        /\ proc.cmd \in Commands /\ proc.id \in Databases
        /\ proc.version \in 0..switches
        /\ Bound(proc.cmd) => service[proc.cmd].db = proc.id
        /\ proc.cmd = "backup" => BackupSound
        /\ proc.cmd = "restore" => RestoreSound

RecoveryInv ==
    /\ DOMAIN db = Databases /\ switches \in Nat
    /\ service \in [Commands -> [db : Databases, version : 0..switches]]
    /\ DOMAIN state = Commands /\ DOMAIN stage = Commands /\ DOMAIN target = Commands
    /\ \A d \in Databases : HistorySound(db[d]) /\ RowsStored(db[d].rows)
    /\ \A c \in Commands : DirSound(stage[c]) /\ DirSound(target[c])
    /\ SetSound(stage["backup"]) /\ SetSound(target["backup"])
    /\ target["backup"].made => target["backup"].manifest # None
    /\ \A child \in children : child.db \in Databases /\ target["backup"].made
                               /\ child.dump = target["backup"].dump
    /\ state["restore"] # NoState =>
        state["restore"].phase \in DOMAIN Resume /\ Restoring(state["restore"].id)
    /\ ProcSound

=============================================================================
