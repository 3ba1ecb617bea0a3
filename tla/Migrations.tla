----------------------------- MODULE Migrations -----------------------------
(***************************************************************************)
(* The checksum-sealed migration ledger (migrations.py, migration_admin.py *)
(* and the migration of service.py).                                       *)
(*                                                                         *)
(* A release ships an ordered sequence of SQL files; a file is what its    *)
(* bytes are, its name is its position.  Operators with different          *)
(* releases, one of them perhaps with altered files, migrate, adopt,       *)
(* verify and grant in any order.  Each command is one transaction under   *)
(* pg_advisory_xact_lock: it happens as a whole or, when it is refused,    *)
(* crashes or loses its connection, not at all.                            *)
(***************************************************************************)
EXTENDS Naturals, Sequences, SequencesExt

CONSTANTS
    Databases,
    Releases,   \* the sequences of files that operators have at hand, perhaps an empty one
    Packaged    \* the release that is in use, whose digests are the trusted ones

Files == UNION {Range(r) : r \in Releases}

\* No release ships the same file under two numbers.
ASSUME ReleaseAssumption ==
    /\ Packaged \in Releases /\ Packaged # <<>>
    /\ \A r \in Releases : r \in Seq(Files) /\ IsInjective(r)

VARIABLE db     \* db[d]

(* executed: the files whose SQL was run, a ghost of the schema; ledger: the
   digests of its rows; seal: the constraint, trigger and function of the ledger,
   "exact" as installed or "broken" by hand; granted: the runtime role; rows: the blobs that the application's rows need. *)
Null == "null"
NoRows == [executed |-> <<>>, ledger |-> <<>>, seal |-> "none", granted |-> FALSE, rows |-> {}]

\* What an earlier version left behind: a ledger of names, with a digest here
\* and there, and no seal.
Legacy(files, digested) ==
    [NoRows EXCEPT !.executed = files,
                   !.ledger = [i \in DOMAIN files |-> IF i \in digested THEN files[i] ELSE Null]]

-----------------------------------------------------------------------------
\* _validate_prefix: names are positions.
OrderedPrefix(sources, rows) == Len(rows) <= Len(sources)

\* _validate_sealed_rows
SealedRows(sources, rows) ==
    /\ OrderedPrefix(sources, rows)
    /\ \A i \in DOMAIN rows : rows[i] = sources[i]

\* _seal_objects_present: any of the objects, of whatever content.
SealObjectsPresent(d) == db[d].seal # "none"

\* _verify_ledger_seal: every object, once, exactly as it was installed.
VerifiedSeal(d) == db[d].seal = "exact"

\* _install_ledger_seal, in the same transaction as the rows.
Seals(d, rows) ==
    /\ ~SealObjectsPresent(d)
    /\ db' = [db EXCEPT ![d].ledger = rows, ![d].seal = "exact"]

\* apply_postgres_migrations: every pending file with its row; the seal is
\* verified first, or installed with the first rows.
Migrates(d, sources) ==
    /\ SealedRows(sources, db[d].ledger)
    /\ IF db[d].ledger # <<>> THEN VerifiedSeal(d) ELSE ~SealObjectsPresent(d)
    /\ LET pending == SubSeq(sources, Len(db[d].ledger) + 1, Len(sources)) IN
        db' = [db EXCEPT ![d].executed = @ \o pending, ![d].ledger = @ \o pending,
                         ![d].seal = "exact"]

\* mutant: the digests of the deployed files are taken, whatever was trusted
AdoptsDeployed(d, sources, trusted) ==
    /\ OrderedPrefix(sources, db[d].ledger) /\ db[d].ledger # <<>>
    /\ DOMAIN trusted = DOMAIN db[d].ledger
    /\ \A i \in DOMAIN trusted : db[d].ledger[i] \in {Null, sources[i]}
    /\ Seals(d, SubSeq(sources, 1, Len(trusted)))

\* adopt_legacy_postgres_migration_checksums: a digest for every row, each that of
\* the deployed file and of the row if it has one.
Adopts(d, sources, trusted) ==
    /\ OrderedPrefix(sources, db[d].ledger) /\ db[d].ledger # <<>>
    /\ DOMAIN trusted = DOMAIN db[d].ledger
    /\ \A i \in DOMAIN trusted :
        /\ trusted[i] = sources[i]
        /\ db[d].ledger[i] \in {Null, sources[i]}
    /\ Seals(d, trusted)

\* verify_postgres_migrations
Verified(d, sources) ==
    /\ SealedRows(sources, db[d].ledger) /\ Len(db[d].ledger) = Len(sources)
    /\ VerifiedSeal(d)

\* grant_postgres_runtime_role
Grants(d, sources) ==
    /\ Verified(d, sources)
    /\ db' = [db EXCEPT ![d].granted = TRUE]

\* _open_manifest: the digests that an operator has reviewed for adoption.
TrustedManifests == {SubSeq(Packaged, 1, n) : n \in 1..Len(Packaged)}

\* _migration_sources: an empty set of files is refused before the database is
\* reached; gaps and duplicates in the numbers are too, and names are positions.
MigrationSources == {r \in Releases : r # <<>>}

\* A command of an operator: main of migration_admin, and --migrate-only.
Administers(d) ==
    \E sources \in MigrationSources :
        \/ Migrates(d, sources)
        \/ \E trusted \in TrustedManifests : Adopts(d, sources, trusted)
        \/ Grants(d, sources)

\* The owner of the database disables the guard, and perhaps takes a row out.
Tampers(d) ==
    /\ SealObjectsPresent(d)
    /\ \E rows \in {db[d].ledger, Front(db[d].ledger)} :
        db' = [db EXCEPT ![d].ledger = rows, ![d].seal = "broken"]

-----------------------------------------------------------------------------
\* A sealed ledger is the history of its database: the digests of exactly the
\* files that were executed, in their order, whatever releases were used on it,
\* adopted or restored; and no file is executed twice, not even after the guard
\* was disabled and a row taken out.
LedgerIsHistory ==
    \A d \in Databases :
        /\ db[d].seal = "exact" => db[d].ledger = db[d].executed
        /\ \A i, j \in DOMAIN db[d].executed : db[d].executed[i] = db[d].executed[j] => i = j

-----------------------------------------------------------------------------
(* For the inductive invariant of RecoverySet_proofs: what the commands keep of a
   database r.  A ledger without seal is what an earlier version left behind, of
   the first files of the release; one with a broken seal is never touched again. *)
HistorySound(r) ==
    /\ DOMAIN r = DOMAIN NoRows
    /\ r.executed \in Seq(Files) /\ IsInjective(r.executed)
    /\ r.seal = "exact" => r.ledger = r.executed
    /\ r.seal \notin {"exact", "broken"} =>
        \E n \in 0..Len(Packaged) :
            r.executed = SubSeq(Packaged, 1, n) /\ DOMAIN r.ledger = 1..n

=============================================================================
