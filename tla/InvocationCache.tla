--------------------------- MODULE InvocationCache ---------------------------
(***************************************************************************)
(* The staged ControlFoley invocation and its caches.                      *)
(*                                                                         *)
(* One process holds an L0/L1 cache in memory (ControlFoleyL0L1Cache over  *)
(* ControlFoleyMemoryCacheStore) and an L2 condition cache in a directory  *)
(* (ControlFoleyConditionCache over ControlFoleyLocalConditionCacheStore)  *)
(* that outlives it, together with the fuse markers of                     *)
(* _PersistentFuseAuthority.  Several sessions of one deployment invoke    *)
(* the adapter concurrently; within a session invocations are serial       *)
(* (EmbeddedRuntime).  Meanwhile the input file may be rewritten, an       *)
(* operator invalidates the caches, file operations fail and the process   *)
(* dies and restarts.                                                      *)
(*                                                                         *)
(* A content stands for what the input file holds: an input key is its     *)
(* hash, a cached payload is named by the content it was computed from.    *)
(* A payload past its TTL, and half an entry past the cleanup grace, are   *)
(* taken away by Lapse actions of the clock: the code removes them when it *)
(* next looks, and until then no caller can tell.                          *)
(***************************************************************************)
EXTENDS Integers, Sequences, FiniteSets, SequencesExt, SequenceFilter

CONSTANTS
    Sessions,       \* ModelSession slots, all of one L2-cached deployment
    Roles,          \* condition feature roles of the request
    Contents,       \* 1..n: what the input file holds, one after the other
    MaxEntries,     \* ControlFoleyCachePolicy.max_entries (L0/L1)
    MaxRecords,     \* ControlFoleyConditionCachePolicy.max_entries (L2)
    FaultBound,     \* bound on the steps in which file operations fail
    EraBound,       \* bound on operator invalidations
    BootBound,      \* bound on restarts of the process
    CallBound       \* bound on the invocations that ever start

ASSUME CacheAssumption ==
    /\ IsFiniteSet(Contents) /\ Contents = 1..Cardinality(Contents) /\ Contents # {}
    /\ IsFiniteSet(Roles)
    /\ MaxEntries \in Nat \ {0} /\ MaxRecords \in Nat \ {0}
    /\ FaultBound \in Nat /\ EraBound \in Nat
    /\ BootBound \in Nat /\ CallBound \in Nat

VARIABLES
    input,      \* the content of the input file
    run,        \* run[s]: the session and the invocation it executes
    mem,        \* ControlFoleyMemoryCacheStore._entries, least recently used first
    off1,       \* TRUE when the deployment or the whole L0/L1 cache is disabled
    files,      \* files[c, r]: the two files of an L2 entry
    fuses,      \* fuse markers in the L2 root
    off2,       \* _disabled_deployments and _globally_disabled
    operator,   \* an invalidate_cache call between its two caches
    lost,       \* whether a fuse has no marker, and a restart forgot it
    era,        \* invalidations of the L2 cache that have returned
    boot,       \* restarts of the process
    faults,     \* steps in which file operations failed
    calls       \* started invocations

cacheVars == <<input, run, mem, off1, files, fuses, off2, operator, lost, era, boot,
               faults, calls>>

None == 0
Keys == Contents \X Roles
Fuse == {"deployment", "global"}

\* The data and the metadata file of an entry.  "era" counts the invalidations that
\* had returned when the L2 transaction that wrote it began, "apart" records that the
\* two caches of its invocation saw different inputs.
NoFile == [kind |-> "none", of |-> None, era |-> 0, apart |-> FALSE]

\* What an invocation holds: its keys, what it read from the caches under them,
\* the era of its L2 transaction, whether a generation moved since (old1, old2), the
\* content its preprocess value was computed from, and the roles it encoded and those
\* it newly stored.
Idle == [pc |-> "ready", era |-> 0,
         key1 |-> None, old1 |-> FALSE, hit1 |-> None,
         key2 |-> None, old2 |-> FALSE, hit2 |-> [r \in Roles |-> None],
         pre |-> None, staged |-> FALSE, fresh |-> {}, new |-> {}]
NoSession == [Idle EXCEPT !.pc = "none"]

\* A session without adapter tables is "none", also when it is FAILED because its
\* load or its unload failed: no invocation can enter it.
Resting == {"none", "ready", "failed"}
Executing == {"begin1", "begin2", "preprocess", "encode", "commit2", "revalidate",
              "commit1", "final", "return"}

CacheInit ==
    /\ input = 1
    /\ run = [s \in Sessions |-> NoSession]
    /\ mem = <<>> /\ off1 = FALSE
    /\ files = [k \in Keys |-> NoFile]
    /\ fuses = {} /\ off2 = {}
    /\ operator = "idle" /\ lost = "no"
    /\ era = 0 /\ boot = 0 /\ faults = 0 /\ calls = 0

-----------------------------------------------------------------------------
(* ControlFoleyMemoryCacheStore, for the preprocess payloads of L1; the L0 entry
   of a key repeats the key and no invocation uses it *)

Without(m, k) == Keep(m, {e \in Range(m) : e.key # k})

Stored(m, k) == {i \in DOMAIN m : m[i].key = k}

\* get_entry moves what it returns to the recently used end.
Touched(m, k) == Without(m, k) \o Keep(m, {e \in Range(m) : e.key = k})

Found(m, k) == IF Stored(m, k) = {} THEN None ELSE m[CHOOSE i \in Stored(m, k) : TRUE].of

EvictToLimits(m) ==
    IF Len(m) > MaxEntries THEN SubSeq(m, Len(m) - MaxEntries + 1, Len(m)) ELSE m

\* put_if_absent: the first writer wins.
Put1(m, e) ==
    IF Stored(m, e.key) # {} THEN Touched(m, e.key) ELSE EvictToLimits(Append(m, e))

\* The cache over the store: a disabled one is left alone.
SafePut1(e) == IF off1 THEN mem ELSE Put1(mem, e)
SafeDelete1(k) == IF off1 THEN mem ELSE Without(mem, k)
InvalidateDeployment1 == IF off1 THEN mem ELSE <<>>

-----------------------------------------------------------------------------
(* ControlFoleyLocalConditionCacheStore and its fuses *)

\* _is_disabled, of the process and of the directory.
Disabled(off, marks) == off # {} \/ marks # {}

\* cleanup removes the entries of a fused deployment.
Cleaned(fs, marks) ==
    IF marks = {} THEN fs
    ELSE [k \in Keys |-> IF fs[k].kind = "whole" THEN NoFile ELSE fs[k]]

\* _enforce_limits counts metadata files.  The victims are not determined by the
\* code: the access times compare a monotonic clock with the wall clock.
Records(fs) == {k \in Keys : fs[k].kind \in {"whole", "meta"}}

Limited(fs) ==
    LET over == Cardinality(Records(fs)) - MaxRecords IN
    IF over <= 0 THEN {fs}
    ELSE {[k \in Keys |-> IF k \in victims THEN NoFile ELSE fs[k]] :
              victims \in {v \in SUBSET Records(fs) : Cardinality(v) = over}}

\* The whole cleanup; one that stops may have removed any entry that had lapsed.
CleanedUp(fs, marks) == Limited(Cleaned(fs, marks))

\* The part of the state that the L2 cache operations work on.
L2 == [files |-> files, fuses |-> fuses, off |-> off2, lost |-> lost, faults |-> faults]
Becomes(state) ==
    /\ files' = state.files /\ fuses' = state.fuses
    /\ off2' = state.off /\ lost' = state.lost /\ faults' = state.faults

\* A step in which one file operation fails may fail in others as well.
MayFail == faults < FaultBound
Failed(state) == [state EXCEPT !.faults = faults + 1]

\* What the process disables, and the markers it leaves in the directory.
Marked(state, off, marks) ==
    [state EXCEPT !.off = @ \cup off, !.fuses = @ \cup marks,
                  !.lost = IF state.fuses \cup marks = {} THEN "unmarked" ELSE "no"]

\* _fuse_all: when its marker cannot be written only the process knows.
FuseAll(state) ==
    {Marked(state, {"global"}, {"global"})} \cup
    (IF MayFail THEN {Failed(Marked(state, {"global"}, {}))} ELSE {})

\* mutant: a fuse that only this process knows of
FuseInMemory(state) == {[state EXCEPT !.off = @ \cup {"deployment"}]}

\* _fuse_deployment: a marker that cannot be written, though its file may exist by
\* then, is replaced by the global one.
FuseDeployment(state) ==
    {Marked(state, {"deployment"}, {"deployment"})} \cup
    (IF MayFail
     THEN UNION {FuseAll(Failed(Marked(state, {"deployment"}, marks))) :
                     marks \in {{}, {"deployment"}}}
     ELSE {})

\* _is_disabled that cannot look up a marker disables the cache in this process.
Blind(state) == Failed([state EXCEPT !.off = @ \cup {"global"}])

\* _quarantine and _delete_digest unlink both files, the data file first.
Emptied(gone) == [k \in Keys |-> IF k \in gone THEN NoFile ELSE files[k]]
Halved(fs, gone) ==
    {fs} \cup {[fs EXCEPT ![k].kind = "meta"] : k \in {x \in gone : fs[x].kind = "whole"}}

\* Where the deletion of these entries may stop.
Deleting(fs, gone) ==
    {[k \in Keys |-> IF k \in done THEN NoFile ELSE half[k]] :
         done \in SUBSET gone, half \in Halved(fs, gone)}

\* What a put_if_absent that stops leaves under its key: it links the data file, then
\* the metadata file, syncs after each and takes the data file back when the second
\* link or its sync fails.  A new data file beside the metadata of the same payload
\* is an entry; with other metadata it cannot be read.
PutTorn(f, new) ==
    {f} \cup (IF f.kind = "none" THEN {[new EXCEPT !.kind = kd] : kd \in {"data", "meta", "whole"}}
              ELSE IF f.kind = "meta" /\ f.of = new.of THEN {new} ELSE {})

\* put_if_absent of the store: every new state with its outcome.  A key that holds
\* half an entry can be neither written nor read.  The limits are enforced last.
PutIfAbsent(state, k, new) ==
    LET f == state.files[k]
        added == [state.files EXCEPT ![k] = new]
        result(outcome, st) == [outcome |-> outcome, state |-> st]
        stopped == {[state.files EXCEPT ![k] = half] : half \in PutTorn(f, new)}
                   \cup (IF f.kind = "none" THEN Deleting(added, Records(added)) ELSE {})
    IN  (CASE f.kind = "none" ->
                {result(IF fs[k] = NoFile THEN "rejected" ELSE "stored",
                        [state EXCEPT !.files = fs]) : fs \in Limited(added)}
           [] f.kind = "whole" ->
                {result(IF f.of = new.of THEN "present" ELSE "conflict", state)}
           [] OTHER -> {result("fault", state)})
        \cup {result("error", Failed([state EXCEPT !.files = fs])) :
                  fs \in IF MayFail THEN stopped ELSE {}}

\* _safe_put: a conflict, a fault and an error fuse the deployment.
SafePut(state, k, new) ==
    LET fault(st) == [outcome |-> "fault", state |-> st] IN
    IF Disabled(state.off, state.fuses) THEN {fault(state)}
    ELSE (IF MayFail THEN {fault(Blind(state))} ELSE {}) \cup
         UNION {IF res.outcome \in {"stored", "present", "rejected"} THEN {res}
                ELSE {fault(st) : st \in FuseDeployment(res.state)} :
                    res \in PutIfAbsent(state, k, new)}

\* _safe_delete; a delete that fails fuses the deployment.
SafeDelete(state, k) ==
    IF Disabled(state.off, state.fuses) THEN {state}
    ELSE {[state EXCEPT !.files[k] = NoFile]} \cup
         (IF MayFail
          THEN {Blind(state)} \cup
               UNION {FuseDeployment(Failed([state EXCEPT !.files = fs])) :
                          fs \in Deleting(state.files, {k})}
          ELSE {})

\* The same for several roles of one parent key.
PutAll(state, c, roles, new) ==
    FoldSet(LAMBDA r, acc : UNION {
                {[state |-> res.state,
                  new |-> IF res.outcome = "stored" THEN a.new \cup {r} ELSE a.new] :
                     res \in SafePut(a.state, <<c, r>>, new)} : a \in acc},
            {[state |-> state, new |-> {}]}, roles)
DeleteAll(state, c, roles) ==
    FoldSet(LAMBDA r, acc : UNION {SafeDelete(st, <<c, r>>) : st \in acc}, {state}, roles)

-----------------------------------------------------------------------------
(* Runtime.load, ControlFoleyAdapter.load and Runtime.unload *)

\* The lock of ControlFoleyConditionCache is held while a commit persists and
\* revalidates.
L2Free == \A s \in Sessions : run[s].pc # "revalidate"

Step(s, record) == run' = [run EXCEPT ![s] = record]
At(s, pc) == run[s].pc = pc

\* ControlFoleyStagedPath.load binds the session to the operator's backend.
Bound(s) == Step(s, Idle)
Load(s) ==
    /\ At(s, "none")
    /\ Bound(s)
    /\ UNCHANGED <<input, mem, off1, files, fuses, off2, operator, lost, era, boot, faults, calls>>

\* The generation of a cache moves: every transaction begun before is old.
Older1(rs) == [s \in Sessions |-> [rs[s] EXCEPT !.old1 = rs[s].key1 # None]]
Older2(rs) == [s \in Sessions |-> [rs[s] EXCEPT !.old2 = rs[s].key2 # None]]

\* release_deployment: every new L2 state, and whether the generation moved.
Released ==
    IF "global" \in off2 THEN {[state |-> L2, moved |-> FALSE]}
    ELSE {[state |-> [L2 EXCEPT !.files = fs], moved |-> FALSE] :
              fs \in CleanedUp(files, fuses)} \cup
         (IF MayFail
          THEN UNION {{[state |-> st, moved |-> TRUE] :
                          st \in FuseDeployment(Failed([L2 EXCEPT !.files = fs]))} :
                      fs \in Deleting(files, Keys)}
          ELSE {})

\* Runtime.unload: the backend may fail, the caches are released all the same.
Unload(s) ==
    /\ run[s].pc \in {"ready", "failed"} /\ L2Free
    /\ mem' = InvalidateDeployment1
    /\ \E rel \in Released :
        /\ Becomes(rel.state)
        /\ LET rs == Older1([run EXCEPT ![s] = NoSession])
           IN  run' = IF rel.moved THEN Older2(rs) ELSE rs
    /\ UNCHANGED <<input, off1, operator, era, boot, calls>>

-----------------------------------------------------------------------------
(* ControlFoleyAdapter.invoke on the staged path *)

Invoke(s) ==
    /\ At(s, "ready") /\ calls < CallBound
    /\ calls' = calls + 1
    /\ Step(s, [Idle EXCEPT !.pc = "begin1"])
    /\ UNCHANGED <<input, mem, off1, files, fuses, off2, operator, lost, era, boot, faults>>

\* The handler around _invoke_staged_profiled: what the invocation stored in L2
\* is rolled back, and Runtime.invoke releases the session.
RolledBack(s) == DeleteAll(L2, run[s].key2, run[s].new)
InVain(s, pc) ==
    \E st \in RolledBack(s) : Becomes(st) /\ Step(s, [Idle EXCEPT !.pc = pc])

\* mutant: the input is not hashed again
NotHashed(s, key) == FALSE

\* The key of an input that was rewritten is another one.
Drifted(s, key) == key # None /\ input # key

\* assert_current: the L2 inputs are hashed a last time.
AssertCurrent(s) == ~Drifted(s, run[s].key2)

\* An invocation ends early: at a cancellation point once its token is set (which
\* can be any time), by an error of the backend, or because an input cannot be
\* hashed or no longer has the hash it had.
GiveUp(s) ==
    /\ run[s].pc \in Executing \ {"return"} /\ (L2Free \/ At(s, "revalidate"))
    /\ \/ run[s].pc \notin {"begin2", "commit1"} /\ InVain(s, "ready")
       \/ run[s].pc \in {"preprocess", "encode"} /\ InVain(s, "failed")
       \/ /\ \/ At(s, "commit2") /\ ~run[s].old2 /\ Drifted(s, run[s].key2)
             \/ At(s, "revalidate") /\ Drifted(s, run[s].key2)
             \/ At(s, "final") /\ ~AssertCurrent(s)
             \/ At(s, "commit1") /\ ~run[s].old1 /\ Drifted(s, run[s].key1)
          /\ InVain(s, "ready")
    /\ UNCHANGED <<input, mem, off1, operator, era, boot, calls>>

\* ControlFoleyL0L1Cache.begin: no key when the cache is disabled.
Begin1(s) ==
    /\ At(s, "begin1")
    /\ IF off1
       THEN /\ Step(s, [run[s] EXCEPT !.pc = "begin2"])
            /\ UNCHANGED mem
       ELSE /\ mem' = Touched(mem, input)
            /\ Step(s, [run[s] EXCEPT !.pc = "begin2", !.key1 = input,
                                      !.hit1 = Found(mem, input)])
    /\ UNCHANGED <<input, off1, files, fuses, off2, operator, lost, era, boot, faults, calls>>

\* _read_entry: both files and their checksums; entries that cannot be read are
\* quarantined by get_entry, as far as that succeeds.
ReadEntry(k) == IF files[k].kind = "whole" THEN files[k].of ELSE None
Unreadable(c) ==
    IF MayFail THEN SUBSET {r \in Roles : ReadEntry(<<c, r>>) # None} ELSE {{}}

\* _read of a transaction, for every role.
ReadRoles(c, bad) == [r \in Roles |-> IF r \in bad THEN None ELSE ReadEntry(<<c, r>>)]

\* ControlFoleyConditionCache.begin reads every role under its lock.
Begin2(s) ==
    /\ At(s, "begin2") /\ L2Free
    /\ \/ /\ Disabled(off2, fuses)
          /\ Step(s, [run[s] EXCEPT !.pc = "preprocess"])
          /\ Becomes(L2)
       \/ /\ ~Disabled(off2, fuses) /\ MayFail
          /\ Step(s, [run[s] EXCEPT !.pc = "preprocess"])
          /\ Becomes(Blind(L2))
       \/ /\ ~Disabled(off2, fuses)
          /\ \E bad \in Unreadable(input) : \E fs \in Deleting(files, {input} \X bad) :
                /\ Becomes(IF bad = {} THEN L2 ELSE Failed([L2 EXCEPT !.files = fs]))
                /\ Step(s, [run[s] EXCEPT !.pc = "preprocess", !.key2 = input, !.era = era,
                                          !.hit2 = ReadRoles(input, bad)])
    /\ UNCHANGED <<input, mem, off1, operator, era, boot, calls>>

\* decode_cached_preprocess: the value of a payload that the codec accepts.
Decoded(s) == [run[s] EXCEPT !.pc = "encode", !.pre = run[s].hit1]

\* encode_preprocess: a new value, whose payload is staged for L1 under its key.
Computed(s) == [run[s] EXCEPT !.pc = "encode", !.pre = input, !.hit1 = None,
                              !.staged = run[s].key1 # None]

\* The first stage: the cached preprocess value, or a new one of what the input
\* file holds now.  A payload that the codec refuses leaves L1.
Preprocess(s) ==
    /\ At(s, "preprocess")
    /\ \/ /\ run[s].hit1 # None
          /\ Step(s, Decoded(s))
          /\ UNCHANGED <<mem, faults>>
       \/ /\ run[s].hit1 = None \/ MayFail
          /\ faults' = IF run[s].hit1 = None THEN faults ELSE faults + 1
          /\ mem' = IF run[s].hit1 = None THEN mem ELSE SafeDelete1(run[s].key1)
          /\ Step(s, Computed(s))
    /\ UNCHANGED <<input, off1, files, fuses, off2, operator, lost, era, boot, calls>>

\* encode_condition_feature: the features whose payloads are staged for L2.
Exported(s, roles) == IF run[s].key2 = None THEN {} ELSE roles

\* _run_condition_feature_stage and the two stages after it: a role is encoded
\* from the preprocess value unless its cached feature is accepted.
Encode(s) ==
    /\ At(s, "encode") /\ L2Free
    /\ LET hits == {r \in Roles : run[s].hit2[r] # None} IN
       \E refused \in IF MayFail THEN SUBSET hits ELSE {{}} :
       \E st \in DeleteAll(IF refused = {} THEN L2 ELSE Failed(L2), run[s].key2, refused) :
            /\ Becomes(st)
            /\ Step(s, [run[s] EXCEPT !.pc = "commit2",
                    !.hit2 = [r \in Roles |-> IF r \in refused THEN None ELSE @[r]],
                    !.fresh = Exported(s, (Roles \ hits) \cup refused)])
    /\ UNCHANGED <<input, mem, off1, operator, era, boot, calls>>

\* snapshot of the store cleans up before it counts.
Snapshot2(state) ==
    {[state EXCEPT !.files = fs] : fs \in CleanedUp(state.files, state.fuses)} \cup
    (IF MayFail THEN {Failed([state EXCEPT !.files = fs]) : fs \in Deleting(state.files, Keys)}
     ELSE {})

\* _safe_snapshot leaves a cache alone that is disabled as a whole, and drops errors.
SafeSnapshot2(state) == IF "global" \in state.off THEN {state} ELSE Snapshot2(state)

\* The report of a transaction takes a snapshot.
Reported(state) == SafeSnapshot2(state)

\* ControlFoleyConditionCache.commit: a transaction of an earlier generation
\* stores nothing; one whose input hash is unchanged stores what it encoded.
Entry(s) == [kind |-> "whole", of |-> run[s].pre, era |-> run[s].era,
             apart |-> run[s].key1 \notin {None, run[s].key2}]
Commit2(s) ==
    /\ At(s, "commit2") /\ L2Free
    /\ IF run[s].key2 = None \/ run[s].old2
       THEN /\ \E st \in IF run[s].key2 = None THEN {L2} ELSE Reported(L2) : Becomes(st)
            /\ Step(s, [run[s] EXCEPT !.pc = "commit1", !.fresh = {}])
       ELSE /\ ~Drifted(s, run[s].key2)
            /\ \E res \in PutAll(L2, run[s].key2, run[s].fresh, Entry(s)) :
                /\ Becomes(res.state)
                /\ Step(s, [run[s] EXCEPT !.pc = "revalidate", !.fresh = {}, !.new = res.new])
    /\ UNCHANGED <<input, mem, off1, operator, era, boot, calls>>

\* The same commit, still under the lock, hashes the input once more.
Revalidate(s) ==
    /\ At(s, "revalidate") /\ ~Drifted(s, run[s].key2)
    /\ \E st \in Reported(L2) : Becomes(st)
    /\ Step(s, [run[s] EXCEPT !.pc = "commit1"])
    /\ UNCHANGED <<input, mem, off1, operator, era, boot, calls>>

\* The entry that a transaction stages for L1.
Entry1(s) == [key |-> run[s].key1, of |-> run[s].pre, late |-> run[s].old1]

\* ControlFoleyL0L1Cache.commit: first the generation, then the input hash.
Commit1(s) ==
    /\ At(s, "commit1")
    /\ run[s].old1 \/ ~Drifted(s, run[s].key1)
    /\ mem' = IF ~run[s].staged \/ run[s].old1 THEN mem ELSE SafePut1(Entry1(s))
    /\ Step(s, [run[s] EXCEPT !.pc = "final", !.staged = FALSE])
    /\ UNCHANGED <<input, off1, files, fuses, off2, operator, lost, era, boot, faults, calls>>

\* The last cancellation point of the adapter, and that check.
Final(s) ==
    /\ At(s, "final") /\ AssertCurrent(s)
    /\ Step(s, [run[s] EXCEPT !.pc = "return"])
    /\ UNCHANGED <<input, mem, off1, files, fuses, off2, operator, lost, era, boot, faults, calls>>

\* Runtime.invoke hands the result over, or raises when the token was cancelled
\* after all; the session is READY again.
Return(s) ==
    /\ At(s, "return")
    /\ Step(s, Idle)
    /\ UNCHANGED <<input, mem, off1, files, fuses, off2, operator, lost, era, boot, faults, calls>>

-----------------------------------------------------------------------------
(* The operator, the process, the clock and the input file *)

\* invalidate_cache: first the L0/L1 cache, whose store may fail ...
Invalidate1(scope) ==
    /\ operator = "idle" /\ era < EraBound
    /\ operator' = scope
    /\ run' = Older1(run)
    /\ \/ mem' = InvalidateDeployment1 /\ UNCHANGED <<off1, faults>>
       \/ /\ MayFail /\ ~off1
          /\ off1' = TRUE /\ faults' = faults + 1 /\ UNCHANGED mem
    /\ UNCHANGED <<input, files, fuses, off2, lost, era, boot, calls>>

\* ... then the L2 cache: entries with metadata go, then the markers, then the flags.
Cleared(scope) == IF scope = "global" THEN Fuse ELSE {scope}
Invalidated(scope) ==
    [L2 EXCEPT !.files = Emptied(Records(files)), !.fuses = @ \ Cleared(scope),
               !.off = @ \ Cleared(scope), !.lost = "no"]

\* When the store or the removal of a marker fails, the deployment, or all, is fused.
HalfInvalidated(scope) ==
    {Failed([L2 EXCEPT !.files = fs]) : fs \in Deleting(files, Records(files))} \cup
    {Failed([L2 EXCEPT !.files = Emptied(Records(files)), !.fuses = @ \ marks]) :
         marks \in SUBSET Cleared(scope)}
FuseScope(scope, state) == IF scope = "global" THEN FuseAll(state) ELSE FuseDeployment(state)

Invalidate2 ==
    /\ operator # "idle" /\ L2Free
    /\ operator' = "idle" /\ era' = era + 1
    /\ run' = Older2(run)
    /\ \/ Becomes(Invalidated(operator))
       \/ /\ MayFail
          /\ \E half \in HalfInvalidated(operator) :
             \E fused \in FuseScope(operator, half) : Becomes(fused)
    /\ UNCHANGED <<input, mem, off1, boot, calls>>

\* The operator's call, for a deployment or for all.
InvalidateCache == Invalidate2 \/ \E scope \in Fuse : Invalidate1(scope)

\* ControlFoleyConditionCache.__init__: a marker of a deployment is looked up when
\* it is needed.
DisabledAtBirth(marks) == marks \cap {"global"}

\* A new process opens the directory, cleans up and honours the global marker; what
\* only the process before it had disabled is forgotten.
Reborn(state) ==
    /\ boot < BootBound /\ boot' = boot + 1
    /\ files' \in CleanedUp(state.files, state.fuses) /\ fuses' = state.fuses
    /\ off2' = DisabledAtBirth(state.fuses)
    /\ lost' = IF state.lost # "no" /\ state.fuses = {} THEN "forgotten" ELSE "no"
    /\ faults' = state.faults
    /\ mem' = <<>> /\ off1' = FALSE
    /\ run' = [s \in Sessions |-> NoSession]
    /\ operator' = "idle"

\* The process dies, perhaps between the two files of an entry that it deletes
\* or of the first entry that a commit stores.
Torn ==
    Halved(files, Keys)
    \cup UNION {UNION {{[files EXCEPT ![k] = f] : f \in PutTorn(files[k], Entry(s))} :
                    k \in {run[s].key2} \X run[s].fresh} :
                s \in {x \in Sessions : At(x, "commit2") /\ ~Disabled(off2, fuses)
                                       /\ ~run[x].old2 /\ ~Drifted(x, run[x].key2)}}
Crash ==
    /\ \E s \in Sessions : run[s].pc # "none"
    /\ \E fs \in Torn : Reborn([L2 EXCEPT !.files = fs])
    /\ UNCHANGED <<input, era, calls>>

\* close_cache at the end of a process; a store that cannot close is fused.
Close ==
    /\ \A s \in Sessions : At(s, "none")
    /\ \/ Reborn(L2)
       \/ /\ MayFail
          /\ \E fs \in Deleting(files, Keys) :
             \E st \in FuseAll(Failed([L2 EXCEPT !.files = fs])) : Reborn(st)
    /\ UNCHANGED <<input, era, calls>>

\* The TTL of an L0/L1 entry, or of an L2 entry, or the cleanup grace passes.
Lapse ==
    /\ \/ \E i \in DOMAIN mem :
            /\ mem' = Without(mem, mem[i].key)
            /\ UNCHANGED files
       \/ /\ L2Free
          /\ \E k \in {x \in Keys : files[x].kind # "none"} : files' = Emptied({k})
          /\ UNCHANGED mem
    /\ UNCHANGED <<input, run, off1, fuses, off2, operator, lost, era, boot, faults, calls>>

\* Somebody rewrites the input file; contents do not come back.
Rewrite ==
    /\ input + 1 \in Contents /\ input' = input + 1
    /\ UNCHANGED <<run, mem, off1, files, fuses, off2, operator, lost, era, boot, faults, calls>>

CacheNext ==
    \/ \E s \in Sessions :
        \/ Load(s) \/ Unload(s) \/ Invoke(s) \/ GiveUp(s)
        \/ Begin1(s) \/ Begin2(s) \/ Preprocess(s) \/ Encode(s) \/ Commit2(s)
        \/ Revalidate(s) \/ Commit1(s) \/ Final(s) \/ Return(s)
    \/ InvalidateCache \/ Crash \/ Close \/ Lapse \/ Rewrite

CacheSpec == CacheInit /\ [][CacheNext]_cacheVars

-----------------------------------------------------------------------------
(* Correctness *)

Readable(k) == ~Disabled(off2, fuses) /\ files[k].kind = "whole"

\* Nothing is served that an operator invalidated: an L2 entry that can be read was
\* stored by an L2 transaction begun after the last invalidation returned, also when
\* that invalidation failed half way, when an older transaction commits late and when
\* the process was restarted in between, and an L1 entry by one that no invalidation
\* had made old (generation fencing, _PersistentFuseAuthority).  There are two limits.
\* A restart may forget a fuse whose markers could not be written, neither that of the
\* deployment nor the global one; until that restart the claim holds.  And it is about
\* the transactions of the two caches, which are fenced apart: an invocation that read
\* L1 before an invalidation and began its L2 transaction after it stores features of
\* that old L1 payload.
InvalidatedIsGone ==
    /\ \A k \in Keys : Readable(k) => files[k].era = era \/ lost = "forgotten"
    /\ ~off1 => \A i \in DOMAIN mem : ~mem[i].late

\* What a cache holds under a key was computed from the content of that key,
\* though the input is hashed at other moments than it is read.  The L2 cache
\* keeps to this for an invocation whose two caches hashed the same content.
CachedIsOfItsKey ==
    /\ \A i \in DOMAIN mem : mem[i].of = mem[i].key
    /\ \A k \in Keys : Readable(k) /\ files[k].of # k[1] => files[k].apart

\* An invocation whose input changed under it leaves nothing in the caches: when
\* all have ended, what can be read is of its key.
DriftCommitsNothing ==
    (\A s \in Sessions : run[s].pc \in Resting) =>
        \A k \in Keys : Readable(k) => files[k].of = k[1]

-----------------------------------------------------------------------------
(* The inductive invariant of InvocationCache_proofs *)

MaybeContents == Contents \cup {None}
MemoryEntries == [key : Contents, of : Contents, late : BOOLEAN]
FileRecords == [kind : {"none", "data", "meta", "whole"}, of : MaybeContents, era : Nat,
                apart : BOOLEAN]
L2States == [files : [Keys -> FileRecords], fuses : SUBSET Fuse, off : SUBSET Fuse,
             lost : {"no", "unmarked", "forgotten"}, faults : Nat]
Invocations ==
    [pc : Resting \cup Executing, era : Nat, key1 : MaybeContents, old1 : BOOLEAN,
     hit1 : MaybeContents, key2 : MaybeContents, old2 : BOOLEAN, hit2 : [Roles -> MaybeContents],
     pre : MaybeContents, staged : BOOLEAN, fresh : SUBSET Roles, new : SUBSET Roles]

\* L1 holds what was computed from the content of its key, by transactions that
\* were not old when they committed.
SoundEntries == {e \in MemoryEntries : e.of = e.key /\ ~e.late}
MemorySound == mem \in Seq(SoundEntries)

\* An entry of the L2 directory was computed from the content of its key, or its
\* caches saw different ones.
OfItsKey(k, f) == f.kind = "whole" /\ f.of # k[1] => f.apart

\* Entries older than the last invalidation are there only under a fuse: one that has
\* a marker, one that this process knows of, or one that a restart forgot.
L2Sound(state) ==
    /\ state \in L2States
    /\ \A k \in Keys : OfItsKey(k, state.files[k])
    /\ state.fuses = {} /\ state.lost = "no" =>
          \A k \in Keys : state.files[k].kind = "whole" => state.files[k].era = era
    /\ state.lost = "unmarked" => state.off # {}

\* The preprocess value of an invocation is that of its L1 key, or newer than what
\* either cache hashed.
ValueSound(i) ==
    /\ i.pre # None /\ i.pre <= input
    /\ (i.key1 # None /\ i.pre = i.key1) \/ (i.key1 <= i.pre /\ i.key2 <= i.pre)

\* An invocation hashed its input before now, and a transaction that no
\* invalidation made old was begun after the last.
InvocationSound(i) ==
    /\ i.key1 <= input /\ i.key2 <= input /\ i.hit1 \in {None, i.key1}
    /\ i.key2 # None /\ ~i.old2 => i.era = era
    /\ i.staged => i.key1 # None
    /\ i.pc \in {"encode", "commit2", "revalidate", "commit1"} => ValueSound(i)

CacheInv ==
    /\ input \in Contents /\ era \in Nat /\ off1 \in BOOLEAN
    /\ operator \in Fuse \cup {"idle"}
    /\ run \in [Sessions -> Invocations]
    /\ MemorySound /\ L2Sound(L2)
    /\ \A s \in Sessions : InvocationSound(run[s])

=============================================================================
