------------------------ MODULE InvocationCache_proofs ------------------------
(***************************************************************************)
(* Why the caches of the staged invocation serve nothing that was          *)
(* invalidated, and nothing under the key of another content.  The         *)
(* inductive invariant is CacheInv of InvocationCache.                     *)
(***************************************************************************)
EXTENDS InvocationCache, SequenceFilter_proofs

-----------------------------------------------------------------------------
(* A fold over a finite set, by the smallest set for which it fails *)

\* The values of a fold stay in a set that every step stays in.
LEMMA FoldStays ==
    ASSUME NEW R, IsFiniteSet(R), NEW B, NEW f, f[{}] \in B,
           \A s \in SUBSET R : s # {} /\ f[s \ {CHOOSE x \in s : TRUE}] \in B => f[s] \in B
    PROVE  f[R] \in B
<1>. DEFINE size == {n \in Nat : \E s \in SUBSET R : Cardinality(s) = n /\ f[s] \notin B}
<1>1. \A s \in SUBSET R : IsFiniteSet(s) /\ Cardinality(s) \in Nat
  BY FS_Subset, FS_CardinalityType
<1>2. size = {}
  <2>. SUFFICES ASSUME size # {}  PROVE FALSE
    OBVIOUS
  <2>1. PICK m \in size : \A k \in size : m <= k
    BY LeastNatural
  <2>2. PICK s \in SUBSET R : Cardinality(s) = m /\ f[s] \notin B
    BY <2>1
  <2>. DEFINE x == CHOOSE y \in s : TRUE
              t == s \ {x}
  <2>3. s # {}
    BY <2>2
  <2>4. x \in s
    BY <2>3
  <2>. HIDE DEF x
  <2>5. t \in SUBSET R /\ Cardinality(t) = m - 1
    BY <1>1, <2>2, <2>4, FS_RemoveElement
  <2>6. f[t] \notin B
    BY <2>2, <2>3 DEF x
  <2>7. m - 1 \in Nat
    BY <1>1, <2>5
  <2>8. m - 1 \in size
    BY <2>5, <2>6, <2>7
  <2>. QED  BY <2>1, <2>7, <2>8
<1>. QED  BY <1>1, <1>2

\* f folds the members of R into base, each by its own function and in the order
\* in which they are picked.
Picks(pick, R) == \A s \in SUBSET R : s # {} => pick[s] \in s
IsFold(f, R, base, G, pick) ==
    \A s \in SUBSET R : f[s] = IF s = {} THEN base ELSE G[pick[s]][f[s \ {pick[s]}]]

\* There is such a fold.
LEMMA FoldExists ==
    ASSUME NEW R, IsFiniteSet(R), NEW B, NEW base \in B, NEW G \in [R -> [B -> B]],
           NEW pick, Picks(pick, R)
    PROVE  \E f \in [SUBSET R -> B] : IsFold(f, R, base, G, pick)
<1>. DEFINE upTo(m) == {s \in SUBSET R : Cardinality(s) <= m}
            value(f, s) == IF s = {} THEN base ELSE G[pick[s]][f[s \ {pick[s]}]]
            good(m) == {f \in [upTo(m) -> B] : \A s \in upTo(m) : f[s] = value(f, s)}
            fails == {m \in Nat : good(m) = {}}
<1>1. \A s \in SUBSET R : IsFiniteSet(s) /\ Cardinality(s) \in Nat
  BY FS_Subset, FS_CardinalityType
<1>2. \A s \in SUBSET R : s # {} => pick[s] \in s /\ pick[s] \in R
  BY DEF Picks
<1>3. \A s \in SUBSET R : s # {} =>
        /\ s \ {pick[s]} \in SUBSET R
        /\ Cardinality(s \ {pick[s]}) = Cardinality(s) - 1
  BY <1>1, <1>2, FS_RemoveElement
<1>4. \A s \in SUBSET R : Cardinality(s) = 0 <=> s = {}
  BY <1>1, FS_EmptySet
<1>5. fails = {}
  <2>. SUFFICES ASSUME fails # {}  PROVE FALSE
    OBVIOUS
  <2>1. PICK m \in fails : \A k \in fails : m <= k
    BY LeastNatural
  <2>2. CASE m = 0
    <3>1. \A s \in upTo(0) : s = {}
      BY <1>1, <1>4
    <3>. DEFINE f == [s \in upTo(0) |-> base]
    <3>2. f \in good(0)
      BY <3>1
    <3>. QED  BY <2>1, <2>2, <3>2
  <2>3. CASE m # 0
    <3>1. m \in Nat /\ m - 1 \in Nat
      BY <2>1, <2>3
    <3>2. PICK f \in good(m - 1) : TRUE
      <4>1. m - 1 \notin fails
        <5>. HIDE DEF fails
        <5>. QED  BY <2>1, <3>1
      <4>. HIDE DEF good
      <4>. QED  BY <3>1, <4>1
    <3>3. f \in [upTo(m - 1) -> B] /\ \A s \in upTo(m - 1) : f[s] = value(f, s)
      BY <3>2
    <3>. DEFINE g == [s \in upTo(m) |-> value(f, s)]
    <3>4. \A s \in upTo(m) : s # {} => s \ {pick[s]} \in upTo(m - 1)
      BY <1>1, <1>3, <3>1
    <3>5. \A s \in upTo(m) : value(f, s) \in B
      BY <1>2, <3>3, <3>4
    <3>6. \A s \in upTo(m - 1) : s \in upTo(m) /\ g[s] = f[s]
      <4>1. \A s \in upTo(m - 1) : s \in upTo(m)
        BY <1>1, <3>1
      <4>. HIDE DEF upTo, value
      <4>. QED  BY <3>3, <4>1
    <3>7. ASSUME NEW s \in upTo(m)  PROVE g[s] = value(g, s)
      <4>1. s # {} => g[s \ {pick[s]}] = f[s \ {pick[s]}]
        BY <3>4, <3>6
      <4>. QED  BY <4>1
    <3>8. g \in good(m)
      BY <3>5, <3>7
    <3>. QED  BY <2>1, <3>8
  <2>. QED  BY <2>2, <2>3
<1>6. Cardinality(R) \in Nat /\ upTo(Cardinality(R)) = SUBSET R
  <2>1. \A s \in SUBSET R : Cardinality(s) <= Cardinality(R)
    BY FS_Subset
  <2>. QED  BY <1>1, <2>1
<1>7. PICK f \in good(Cardinality(R)) : TRUE
  <2>1. Cardinality(R) \notin fails
    BY <1>5
  <2>. HIDE DEF good
  <2>. QED  BY <1>6, <2>1
<1>8. f \in [SUBSET R -> B] /\ \A s \in SUBSET R : f[s] = value(f, s)
  BY <1>6, <1>7
<1>. QED  BY <1>8 DEF IsFold

-----------------------------------------------------------------------------
(* The L2 store *)

LEMMA ContentsType ==
    /\ Contents \subseteq Nat /\ 0 \notin Contents /\ 1 \in Contents
    /\ MaybeContents \subseteq Nat
<1>1. Cardinality(Contents) \in Nat /\ Contents = 1..Cardinality(Contents) /\ Contents # {}
  BY CacheAssumption, FS_CardinalityType
<1>. QED  BY <1>1 DEF MaybeContents, None

LEMMA NoFileType == NoFile \in FileRecords /\ NoFile.kind = "none"
  BY DEF NoFile, FileRecords, MaybeContents

\* A state with other files.
FilesSound(state, fs) ==
    /\ fs \in [Keys -> FileRecords]
    /\ \A k \in Keys : OfItsKey(k, fs[k])
    /\ state.fuses = {} /\ state.lost = "no" =>
          \A k \in Keys : fs[k].kind = "whole" => fs[k].era = era

LEMMA FilesReplaced ==
    ASSUME NEW state, L2Sound(state), NEW fs, FilesSound(state, fs), NEW n \in Nat
    PROVE  /\ L2Sound([state EXCEPT !.files = fs, !.faults = n])
           /\ L2Sound([state EXCEPT !.files = fs])
           /\ L2Sound([state EXCEPT !.faults = n])
<1>1. state \in L2States
  BY DEF L2Sound
<1>2. ASSUME NEW st \in L2States, st.fuses = state.fuses, st.lost = state.lost,
             st.off = state.off, st.files \in {fs, state.files}
      PROVE  L2Sound(st)
  BY <1>2 DEF L2Sound, FilesSound
<1>3. /\ [state EXCEPT !.files = fs, !.faults = n] \in L2States
      /\ [state EXCEPT !.files = fs] \in L2States
      /\ [state EXCEPT !.faults = n] \in L2States
  BY <1>1 DEF L2States, FilesSound
<1>4. /\ [state EXCEPT !.files = fs, !.faults = n].files = fs
      /\ [state EXCEPT !.files = fs].files = fs
      /\ [state EXCEPT !.faults = n].files = state.files
      /\ \A st \in {[state EXCEPT !.files = fs, !.faults = n], [state EXCEPT !.files = fs],
                    [state EXCEPT !.faults = n]} :
            st.fuses = state.fuses /\ st.lost = state.lost /\ st.off = state.off
  BY <1>1 DEF L2States
<1>. QED  BY <1>2, <1>3, <1>4

LEMMA OwnFilesSound == \A state : L2Sound(state) => FilesSound(state, state.files)
  BY DEF L2Sound, L2States, FilesSound

\* A step in which a file operation fails.
LEMMA FailedSound ==
    ASSUME faults \in Nat, NEW state, L2Sound(state), NEW fs, FilesSound(state, fs)
    PROVE  /\ L2Sound(Failed(state))
           /\ L2Sound(Failed([state EXCEPT !.files = fs]))
<1>1. faults + 1 \in Nat /\ state \in L2States
  BY DEF L2Sound
<1>2. Failed(state) = [state EXCEPT !.faults = faults + 1]
  BY DEF Failed
<1>3. Failed([state EXCEPT !.files = fs]) = [state EXCEPT !.files = fs, !.faults = faults + 1]
  BY <1>1 DEF Failed, L2States
<1>4. L2Sound([state EXCEPT !.files = fs, !.faults = faults + 1])
  BY <1>1, FilesReplaced
<1>5. L2Sound([state EXCEPT !.faults = faults + 1])
  BY <1>1, FilesReplaced
<1>. QED  BY <1>2, <1>3, <1>4, <1>5

LEMMA FailedType ==
    ASSUME faults \in Nat, NEW state \in L2States
    PROVE  /\ Failed(state) \in L2States
           /\ Failed(state).files = state.files /\ Failed(state).fuses = state.fuses
           /\ Failed(state).off = state.off /\ Failed(state).lost = state.lost
  BY DEF Failed, L2States

\* One entry changes.
LEMMA FileReplaced ==
    ASSUME NEW state, L2Sound(state), NEW k, NEW f \in FileRecords,
           k \in Keys => /\ OfItsKey(k, f)
                         /\ state.fuses = {} /\ state.lost = "no" /\ f.kind = "whole" => f.era = era
    PROVE  FilesSound(state, [state.files EXCEPT ![k] = f])
<1>. DEFINE fs == [state.files EXCEPT ![k] = f]
<1>1. state.files \in [Keys -> FileRecords] /\ FilesSound(state, state.files)
  BY OwnFilesSound DEF L2Sound, L2States
<1>2. fs \in [Keys -> FileRecords]
  BY <1>1
<1>3. \A j \in Keys : fs[j] = IF j = k THEN f ELSE state.files[j]
  BY <1>1
<1>. HIDE DEF fs
<1>4. FilesSound(state, fs)
  BY <1>1, <1>2, <1>3 DEF FilesSound
<1>. QED  BY <1>4 DEF fs

\* A fuse is known to the process, and remembered by the directory or known not to be.
LEMMA MarkedSound ==
    ASSUME NEW state \in L2States, \A k \in Keys : OfItsKey(k, state.files[k]),
           NEW off \in SUBSET Fuse, off # {}, NEW marks \in SUBSET Fuse
    PROVE  LET st == Marked(state, off, marks)
           IN  /\ st \in L2States /\ L2Sound(st) /\ st.files = state.files
               /\ st.fuses # {} \/ st.lost = "unmarked"
<1>. DEFINE st == Marked(state, off, marks)
<1>1. /\ st.files = state.files /\ st.fuses = state.fuses \cup marks
      /\ st.off = state.off \cup off /\ st.off # {}
      /\ st.lost = IF state.fuses \cup marks = {} THEN "unmarked" ELSE "no"
  BY DEF Marked, L2States
<1>2. st \in L2States
  <2>1. (IF state.fuses \cup marks = {} THEN "unmarked" ELSE "no") \in {"no", "unmarked", "forgotten"}
    OBVIOUS
  <2>. QED  BY <2>1 DEF Marked, L2States
<1>. HIDE DEF st
<1>3. L2Sound(st)
  BY <1>1, <1>2 DEF L2Sound
<1>. QED  BY <1>1, <1>2, <1>3 DEF st

LEMMA FusedSound ==
    ASSUME faults \in Nat, NEW state \in L2States, \A k \in Keys : OfItsKey(k, state.files[k])
    PROVE  \A st \in FuseAll(state) \cup FuseDeployment(state) :
              st \in L2States /\ L2Sound(st) /\ (st.fuses # {} \/ st.lost = "unmarked")
<1>. DEFINE Good(st) == /\ st \in L2States /\ L2Sound(st)
                        /\ st.fuses # {} \/ st.lost = "unmarked"
<1>1. {"global"} \in SUBSET Fuse /\ {"deployment"} \in SUBSET Fuse /\ {} \in SUBSET Fuse
  BY DEF Fuse
<1>2. ASSUME NEW x \in L2States, \A k \in Keys : OfItsKey(k, x.files[k]),
             NEW off \in SUBSET Fuse, off # {}, NEW marks \in SUBSET Fuse
      PROVE  /\ Good(Marked(x, off, marks)) /\ Good(Failed(Marked(x, off, marks)))
             /\ \A k \in Keys : OfItsKey(k, Failed(Marked(x, off, marks)).files[k])
  <2>1. Good(Marked(x, off, marks)) /\ Marked(x, off, marks).files = x.files
    BY <1>2, MarkedSound
  <2>2. Good(Failed(Marked(x, off, marks))) /\ Failed(Marked(x, off, marks)).files = x.files
    BY <2>1, FailedType, FailedSound, OwnFilesSound
  <2>. QED  BY <1>2, <2>1, <2>2
<1>. HIDE DEF Good
<1>3. ASSUME NEW x \in L2States, \A k \in Keys : OfItsKey(k, x.files[k])
      PROVE  \A st \in FuseAll(x) : Good(st)
  BY <1>1, <1>2, <1>3 DEF FuseAll
<1>4. ASSUME NEW st \in FuseDeployment(state)  PROVE Good(st)
  <2>1. Good(Marked(state, {"deployment"}, {"deployment"}))
    BY <1>1, <1>2
  <2>2. ASSUME NEW marks \in {{}, {"deployment"}}
        PROVE  \A x \in FuseAll(Failed(Marked(state, {"deployment"}, marks))) : Good(x)
    <3>. DEFINE x == Failed(Marked(state, {"deployment"}, marks))
    <3>1. Good(x) /\ \A k \in Keys : OfItsKey(k, x.files[k])
      BY <1>1, <1>2
    <3>2. x \in L2States
      BY <3>1 DEF Good
    <3>. HIDE DEF x
    <3>3. \A y \in FuseAll(x) : Good(y)
      BY <1>3, <3>1, <3>2
    <3>. QED  BY <3>3 DEF x
  <2>. QED  BY <2>1, <2>2 DEF FuseDeployment
<1>. QED  BY <1>3, <1>4 DEF Good

\* A fuse that is set in a sound state.
LEMMA FuseSound ==
    ASSUME faults \in Nat, NEW state, L2Sound(state)
    PROVE  \A st \in FuseAll(state) \cup FuseDeployment(state) : L2Sound(st)
  BY FusedSound DEF L2Sound

LEMMA BlindSound ==
    ASSUME faults \in Nat, NEW state, L2Sound(state)
    PROVE  L2Sound(Blind(state))
<1>. DEFINE st == Blind(state)
<1>1. state \in L2States /\ faults + 1 \in Nat
  BY DEF L2Sound
<1>2. /\ st \in L2States /\ st.files = state.files /\ st.fuses = state.fuses
      /\ st.lost = state.lost /\ "global" \in st.off
  BY <1>1 DEF Blind, Failed, L2States, Fuse
<1>. HIDE DEF st
<1>3. L2Sound(st)
  BY <1>2 DEF L2Sound
<1>. QED  BY <1>3 DEF st

\* Some entries are removed, whole or in part.
Fewer(fs, gs) ==
    /\ gs \in [Keys -> FileRecords]
    /\ \A k \in Keys : gs[k] = fs[k] \/ gs[k].kind # "whole"

LEMMA FewerSound ==
    ASSUME NEW state, NEW fs, FilesSound(state, fs), NEW gs, Fewer(fs, gs)
    PROVE  FilesSound(state, gs)
  BY DEF FilesSound, Fewer, OfItsKey

LEMMA FewerTwice ==
    ASSUME NEW fs, NEW gs, NEW hs, Fewer(fs, gs), Fewer(gs, hs)
    PROVE  Fewer(fs, hs)
  BY DEF Fewer

LEMMA DeletingFewer ==
    ASSUME NEW fs \in [Keys -> FileRecords], NEW gone
    PROVE  /\ \A gs \in Halved(fs, gone) : Fewer(fs, gs)
           /\ \A gs \in Deleting(fs, gone) : Fewer(fs, gs)
<1>1. ASSUME NEW gs \in Halved(fs, gone)  PROVE Fewer(fs, gs)
  <2>1. CASE gs = fs
    BY <2>1 DEF Fewer
  <2>2. ASSUME NEW k \in gone, gs = [fs EXCEPT ![k].kind = "meta"]  PROVE Fewer(fs, gs)
    <3>. DEFINE f == [fs[k] EXCEPT !.kind = "meta"]
    <3>1. gs = [fs EXCEPT ![k] = f]
      BY <2>2
    <3>2. k \in Keys => f \in FileRecords /\ f.kind = "meta"
      BY DEF FileRecords
    <3>. HIDE DEF f
    <3>. QED  BY <3>1, <3>2 DEF Fewer
  <2>3. gs = fs \/ \E k \in gone : gs = [fs EXCEPT ![k].kind = "meta"]
    BY DEF Halved
  <2>. QED  BY <2>1, <2>2, <2>3
<1>2. ASSUME NEW gs \in Deleting(fs, gone)  PROVE Fewer(fs, gs)
  <2>1. PICK done \in SUBSET gone, half \in Halved(fs, gone) :
          gs = [k \in Keys |-> IF k \in done THEN NoFile ELSE half[k]]
    BY DEF Deleting
  <2>2. Fewer(fs, half)
    BY <1>1
  <2>. QED  BY <2>1, <2>2, NoFileType DEF Fewer
<1>. QED  BY <1>1, <1>2

LEMMA LimitedFewer ==
    ASSUME NEW fs \in [Keys -> FileRecords]
    PROVE  \A gs \in Limited(fs) : Fewer(fs, gs)
<1>1. Fewer(fs, fs)
  BY DEF Fewer
<1>2. \A v : Fewer(fs, [k \in Keys |-> IF k \in v THEN NoFile ELSE fs[k]])
  BY NoFileType DEF Fewer
<1>. QED  BY <1>1, <1>2 DEF Limited

LEMMA CleanedUpFewer ==
    ASSUME NEW fs \in [Keys -> FileRecords], NEW marks
    PROVE  \A gs \in CleanedUp(fs, marks) : Fewer(fs, gs)
<1>1. Fewer(fs, Cleaned(fs, marks))
  BY NoFileType DEF Fewer, Cleaned
<1>2. ASSUME NEW gs \in CleanedUp(fs, marks)  PROVE Fewer(fs, gs)
  <2>1. Fewer(Cleaned(fs, marks), gs)
    BY <1>1, <1>2, LimitedFewer DEF CleanedUp, Fewer
  <2>. QED  BY <1>1, <2>1, FewerTwice
<1>. QED  BY <1>2

\* An entry is removed or stays half; when that fails a fuse is set.
LEMMA SafeDeleteSound ==
    ASSUME faults \in Nat, NEW state, L2Sound(state), NEW k
    PROVE  \A st \in SafeDelete(state, k) : L2Sound(st)
<1>1. FilesSound(state, state.files) /\ state.files \in [Keys -> FileRecords]
  BY OwnFilesSound DEF L2Sound, L2States
<1>2. L2Sound([state EXCEPT !.files[k] = NoFile])
  <2>. DEFINE fs == [state.files EXCEPT ![k] = NoFile]
  <2>1. FilesSound(state, fs)
    BY NoFileType, FileReplaced DEF OfItsKey
  <2>2. [state EXCEPT !.files[k] = NoFile] = [state EXCEPT !.files = fs]
    BY DEF L2Sound, L2States
  <2>. HIDE DEF fs
  <2>3. L2Sound([state EXCEPT !.files = fs])
    BY <2>1, FilesReplaced
  <2>. QED  BY <2>2, <2>3
<1>3. ASSUME NEW fs \in Deleting(state.files, {k})
      PROVE  \A st \in FuseDeployment(Failed([state EXCEPT !.files = fs])) : L2Sound(st)
  <2>. DEFINE x == Failed([state EXCEPT !.files = fs])
  <2>1. FilesSound(state, fs)
    BY <1>1, <1>3, DeletingFewer, FewerSound
  <2>2. L2Sound(x)
    BY <2>1, FailedSound
  <2>. HIDE DEF x
  <2>3. \A st \in FuseDeployment(x) : L2Sound(st)
    BY <2>2, FuseSound
  <2>. QED  BY <2>3 DEF x
<1>. QED  BY <1>2, <1>3, BlindSound DEF SafeDelete

\* An entry that may be stored under a key.
EntrySound(k, new) ==
    new \in FileRecords /\ new.kind = "whole" /\ new.era = era /\ OfItsKey(k, new)

\* What put_if_absent writes is the entry it was given, or half of it.
LEMMA PutIfAbsentSound ==
    ASSUME faults \in Nat, NEW state, L2Sound(state), NEW k \in Keys, NEW new, EntrySound(k, new)
    PROVE  \A res \in PutIfAbsent(state, k, new) : L2Sound(res.state)
<1>. DEFINE f == state.files[k]
            added == [state.files EXCEPT ![k] = new]
            stopped == {[state.files EXCEPT ![k] = half] : half \in PutTorn(f, new)}
                       \cup (IF f.kind = "none" THEN Deleting(added, Records(added)) ELSE {})
<1>1. /\ FilesSound(state, state.files) /\ state.files \in [Keys -> FileRecords]
      /\ f \in FileRecords
  BY OwnFilesSound DEF L2Sound, L2States
<1>2. ASSUME NEW half \in PutTorn(f, new)
      PROVE  FilesSound(state, [state.files EXCEPT ![k] = half])
  <2>1. half = f \/ half = new \/ \E kd \in {"data", "meta", "whole"} : half = [new EXCEPT !.kind = kd]
    BY <1>2 DEF PutTorn
  <2>2. CASE half = f
    <3>1. [state.files EXCEPT ![k] = half] = state.files
      BY <1>1, <2>2
    <3>. QED  BY <1>1, <3>1
  <2>3. ASSUME NEW g \in FileRecords, g.era = era, OfItsKey(k, g), half = g
        PROVE  FilesSound(state, [state.files EXCEPT ![k] = half])
    BY <2>3, FileReplaced
  <2>4. ASSUME NEW kd \in {"data", "meta", "whole"}
        PROVE  LET g == [new EXCEPT !.kind = kd]
               IN  g \in FileRecords /\ g.era = era /\ OfItsKey(k, g)
    BY DEF EntrySound, FileRecords, OfItsKey
  <2>5. new \in FileRecords /\ new.era = era /\ OfItsKey(k, new)
    BY DEF EntrySound
  <2>. QED  BY <2>1, <2>2, <2>3, <2>4, <2>5
<1>3. FilesSound(state, added) /\ added \in [Keys -> FileRecords]
  <2>1. FilesSound(state, added)
    BY FileReplaced DEF EntrySound
  <2>. QED  BY <2>1 DEF FilesSound
<1>. HIDE DEF added, f
<1>4. \A fs \in Limited(added) \cup Deleting(added, Records(added)) : FilesSound(state, fs)
  BY <1>3, LimitedFewer, DeletingFewer, FewerSound
<1>5. \A fs \in stopped : FilesSound(state, fs)
  BY <1>2, <1>4
<1>6. \A fs : FilesSound(state, fs) => /\ L2Sound([state EXCEPT !.files = fs])
                                      /\ L2Sound(Failed([state EXCEPT !.files = fs]))
  BY FilesReplaced, FailedSound
<1>. HIDE DEF stopped
<1>. DEFINE put == {[outcome |-> IF fs[k] = NoFile THEN "rejected" ELSE "stored",
                     state |-> [state EXCEPT !.files = fs]] : fs \in Limited(added)}
            torn == {[outcome |-> "error", state |-> Failed([state EXCEPT !.files = fs])] :
                        fs \in IF MayFail THEN stopped ELSE {}}
            same == {[outcome |-> o, state |-> state] : o \in {"present", "conflict", "fault"}}
<1>7. PutIfAbsent(state, k, new) \subseteq put \cup torn \cup same
  <2>1. PutIfAbsent(state, k, new) =
          (CASE f.kind = "none" -> put
             [] f.kind = "whole" ->
                  {[outcome |-> IF f.of = new.of THEN "present" ELSE "conflict", state |-> state]}
             [] OTHER -> {[outcome |-> "fault", state |-> state]}) \cup torn
    BY DEF PutIfAbsent, f, added, stopped
  <2>. HIDE DEF put, torn
  <2>2. CASE f.kind = "none"
    BY <2>1, <2>2
  <2>3. CASE f.kind = "whole"
    BY <2>1, <2>3
  <2>4. CASE f.kind # "none" /\ f.kind # "whole"
    BY <2>1, <2>4
  <2>. QED  BY <2>2, <2>3, <2>4
<1>8. \A res \in put : L2Sound(res.state)
  BY <1>4, <1>6
<1>9. ASSUME NEW res \in torn  PROVE L2Sound(res.state)
  <2>1. PICK fs \in stopped : res = [outcome |-> "error", state |-> Failed([state EXCEPT !.files = fs])]
    OBVIOUS
  <2>2. res.state = Failed([state EXCEPT !.files = fs])
    BY <2>1
  <2>. QED  BY <1>5, <1>6, <2>2
<1>10. \A res \in same : L2Sound(res.state)
  OBVIOUS
<1>. HIDE DEF put, torn, same
<1>. QED  BY <1>7, <1>8, <1>9, <1>10

LEMMA SafePutSound ==
    ASSUME faults \in Nat, NEW state, L2Sound(state), NEW k \in Keys, NEW new, EntrySound(k, new)
    PROVE  \A res \in SafePut(state, k, new) : L2Sound(res.state)
<1>1. \A res \in PutIfAbsent(state, k, new) :
         L2Sound(res.state) /\ \A st \in FuseDeployment(res.state) : L2Sound(st)
  BY PutIfAbsentSound, FuseSound
<1>2. ASSUME NEW res \in SafePut(state, k, new)
      PROVE  \/ res.state \in {state, Blind(state)}
             \/ \E put \in PutIfAbsent(state, k, new) :
                  res = put \/ res.state \in FuseDeployment(put.state)
  BY <1>2 DEF SafePut
<1>. QED  BY <1>1, <1>2, BlindSound

\* A delete for every role, whatever each of them does.
LEMMA DeleteAllSound ==
    ASSUME faults \in Nat, NEW state, L2Sound(state), NEW c, NEW roles, IsFiniteSet(roles)
    PROVE  \A st \in DeleteAll(state, c, roles) : L2Sound(st)
<1>. DEFINE good == {st \in L2States : L2Sound(st)}
            B == SUBSET good
            next(r, acc) == UNION {SafeDelete(st, <<c, r>>) : st \in acc}
            pick(s) == CHOOSE x \in s : TRUE
            first == [s \in SUBSET roles |-> pick(s)]
            G == [r \in roles |-> [acc \in B |-> next(r, acc)]]
            eq(f) == f = [s \in SUBSET roles |->
                            IF s = {} THEN {state} ELSE next(pick(s), f[s \ {pick(s)}])]
            iter == CHOOSE f : eq(f)
<1>1. \A acc \in B : \A r : next(r, acc) \in B
  BY SafeDeleteSound DEF L2Sound
<1>2. {state} \in B
  BY DEF L2Sound
<1>3. DeleteAll(state, c, roles) = iter[roles]
  BY DEF DeleteAll, FoldSet, MapThenFoldSet
<1>. HIDE DEF B, next
<1>4. G \in [roles -> [B -> B]]
  BY <1>1
<1>5. \E f : eq(f)
  <2>1. PICK f \in [SUBSET roles -> B] : IsFold(f, roles, {state}, G, first)
    <3>1. Picks(first, roles)
      BY DEF Picks
    <3>. HIDE DEF G, first
    <3>. QED  BY <1>2, <1>4, <3>1, FoldExists
  <2>2. ASSUME NEW s \in SUBSET roles
        PROVE  f[s] = IF s = {} THEN {state} ELSE next(pick(s), f[s \ {pick(s)}])
    <3>1. /\ first[s] = pick(s)
          /\ s # {} => pick(s) \in roles /\ s \ {pick(s)} \in SUBSET roles
      OBVIOUS
    <3>. HIDE DEF pick, first
    <3>. QED  BY <2>1, <3>1 DEF IsFold
  <2>3. eq(f)
    <3>. HIDE DEF pick
    <3>. QED  BY <2>1, <2>2
  <2>. QED  BY <2>3
<1>6. eq(iter)
  BY <1>5
<1>. HIDE DEF iter
<1>7. iter[{}] \in B
  BY <1>2, <1>6
<1>8. \A s \in SUBSET roles : s # {} /\ iter[s \ {CHOOSE x \in s : TRUE}] \in B => iter[s] \in B
  BY <1>1, <1>6
<1>9. iter[roles] \in B
  BY <1>7, <1>8, FoldStays
<1>. QED  BY <1>3, <1>9 DEF B

\* A put for every role, with the roles that were newly stored.
LEMMA PutAllSound ==
    ASSUME faults \in Nat, NEW state, L2Sound(state), NEW c \in Contents,
           NEW roles \in SUBSET Roles, NEW new,
           \A r \in roles : EntrySound(<<c, r>>, new)
    PROVE  \A res \in PutAll(state, c, roles, new) : L2Sound(res.state) /\ res.new \in SUBSET Roles
<1>. DEFINE good == {a \in [state : L2States, new : SUBSET Roles] : L2Sound(a.state)}
            B == SUBSET good
            one(a, r) == {[state |-> res.state,
                           new |-> IF res.outcome = "stored" THEN a.new \cup {r} ELSE a.new] :
                             res \in SafePut(a.state, <<c, r>>, new)}
            next(r, acc) == UNION {one(a, r) : a \in acc}
            base == {[state |-> state, new |-> {}]}
            pick(s) == CHOOSE x \in s : TRUE
            first == [s \in SUBSET roles |-> pick(s)]
            G == [r \in roles |-> [acc \in B |-> next(r, acc)]]
            eq(f) == f = [s \in SUBSET roles |->
                            IF s = {} THEN base ELSE next(pick(s), f[s \ {pick(s)}])]
            iter == CHOOSE f : eq(f)
<1>0. IsFiniteSet(roles)
  BY CacheAssumption, FS_Subset
<1>1. ASSUME NEW acc \in B, NEW r \in roles  PROVE next(r, acc) \in B
  <2>1. ASSUME NEW a \in acc, NEW x \in one(a, r)  PROVE x \in good
    <3>1. L2Sound(a.state) /\ a.new \in SUBSET Roles /\ r \in Roles
      OBVIOUS
    <3>2. PICK res \in SafePut(a.state, <<c, r>>, new) :
            x = [state |-> res.state,
                 new |-> IF res.outcome = "stored" THEN a.new \cup {r} ELSE a.new]
      BY <2>1
    <3>3. <<c, r>> \in Keys /\ EntrySound(<<c, r>>, new)
      BY <3>1 DEF Keys
    <3>4. L2Sound(res.state)
      BY <3>1, <3>3, SafePutSound
    <3>. QED  BY <3>1, <3>2, <3>4 DEF L2Sound
  <2>. HIDE DEF one, good
  <2>. QED  BY <2>1
<1>2. base \in B
  BY DEF L2Sound
<1>3. PutAll(state, c, roles, new) = iter[roles]
  BY DEF PutAll, FoldSet, MapThenFoldSet
<1>. HIDE DEF B, next, base
<1>4. G \in [roles -> [B -> B]]
  BY <1>1
<1>5. \E f : eq(f)
  <2>1. PICK f \in [SUBSET roles -> B] : IsFold(f, roles, base, G, first)
    <3>1. Picks(first, roles)
      BY DEF Picks
    <3>. HIDE DEF G, first
    <3>. QED  BY <1>0, <1>2, <1>4, <3>1, FoldExists
  <2>2. ASSUME NEW s \in SUBSET roles
        PROVE  f[s] = IF s = {} THEN base ELSE next(pick(s), f[s \ {pick(s)}])
    <3>1. /\ first[s] = pick(s)
          /\ s # {} => pick(s) \in roles /\ s \ {pick(s)} \in SUBSET roles
      OBVIOUS
    <3>. HIDE DEF pick, first
    <3>. QED  BY <2>1, <3>1 DEF IsFold
  <2>3. eq(f)
    <3>. HIDE DEF pick
    <3>. QED  BY <2>1, <2>2
  <2>. QED  BY <2>3
<1>6. eq(iter)
  BY <1>5
<1>. HIDE DEF iter
<1>7. iter[{}] \in B
  BY <1>2, <1>6
<1>8. \A s \in SUBSET roles : s # {} /\ iter[s \ {CHOOSE x \in s : TRUE}] \in B => iter[s] \in B
  BY <1>1, <1>6
<1>9. iter[roles] \in B
  BY <1>0, <1>7, <1>8, FoldStays
<1>. QED  BY <1>3, <1>9 DEF B

-----------------------------------------------------------------------------
(* The L0/L1 store *)

LEMMA KeepsType ==
    ASSUME NEW A, NEW m \in Seq(A), NEW S
    PROVE  Keep(m, S) \in Seq(A)
<1>1. Keep(m, S) \in Seq(A \cap S)
  BY KeepType
<1>2. A \cap S \subseteq A
  OBVIOUS
<1>. QED  BY <1>1, <1>2, SeqMonotonic

LEMMA WithoutType ==
    ASSUME NEW A, NEW m \in Seq(A), NEW k
    PROVE  Without(m, k) \in Seq(A) /\ Touched(m, k) \in Seq(A)
<1>1. Without(m, k) \in Seq(A)
  BY KeepsType DEF Without
<1>2. Keep(m, {e \in Range(m) : e.key = k}) \in Seq(A)
  BY KeepsType
<1>3. Touched(m, k) \in Seq(A)
  BY <1>1, <1>2, ConcatProperties DEF Touched
<1>. QED  BY <1>1, <1>3

LEMMA Put1Type ==
    ASSUME NEW A, NEW m \in Seq(A), NEW e \in A
    PROVE  Put1(m, e) \in Seq(A)
<1>1. Append(m, e) \in Seq(A)
  BY AppendProperties
<1>2. ASSUME NEW t \in Seq(A)  PROVE EvictToLimits(t) \in Seq(A)
  <2>1. Len(t) \in Nat /\ MaxEntries \in Nat /\ \A j \in 1..Len(t) : t[j] \in A
    BY CacheAssumption, LenProperties, ElementOfSeq
  <2>2. CASE Len(t) > MaxEntries
    <3>1. \A j \in (Len(t) - MaxEntries + 1)..Len(t) : t[j] \in A
      BY <2>1, <2>2
    <3>2. SubSeq(t, Len(t) - MaxEntries + 1, Len(t)) \in Seq(A)
      BY <2>1, <3>1, SubSeqProperties
    <3>. QED  BY <2>2, <3>2 DEF EvictToLimits
  <2>3. CASE ~(Len(t) > MaxEntries)
    BY <2>3 DEF EvictToLimits
  <2>. QED  BY <2>2, <2>3
<1>. QED  BY <1>1, <1>2, WithoutType DEF Put1

\* What L1 returns for a key is of that key.
LEMMA FoundSound ==
    ASSUME NEW m \in Seq(SoundEntries), NEW k
    PROVE  Found(m, k) \in {None, k} /\ Found(m, k) \in MaybeContents
<1>1. CASE Stored(m, k) = {}
  BY <1>1 DEF Found, MaybeContents
<1>2. CASE Stored(m, k) # {}
  <2>1. PICK i \in Stored(m, k) : Found(m, k) = m[i].of
    BY <1>2 DEF Found
  <2>2. i \in DOMAIN m /\ m[i].key = k
    BY DEF Stored
  <2>3. m[i] \in SoundEntries
    BY <2>2, LenProperties, ElementOfSeq
  <2>. QED  BY <2>1, <2>2, <2>3 DEF SoundEntries, MemoryEntries, MaybeContents
<1>. QED  BY <1>1, <1>2

\* Operations of the cache over the store.
LEMMA MemorySafe ==
    ASSUME CacheInv
    PROVE  /\ \A e \in SoundEntries : SafePut1(e) \in Seq(SoundEntries)
           /\ \A k : SafeDelete1(k) \in Seq(SoundEntries)
           /\ \A k : Touched(mem, k) \in Seq(SoundEntries) /\ Without(mem, k) \in Seq(SoundEntries)
           /\ InvalidateDeployment1 \in Seq(SoundEntries)
           /\ mem \in Seq(SoundEntries) /\ <<>> \in Seq(SoundEntries)
<1>1. mem \in Seq(SoundEntries) /\ <<>> \in Seq(SoundEntries)
  BY EmptySeq DEF CacheInv, MemorySound
<1>. QED
  BY <1>1, Put1Type, WithoutType DEF SafePut1, SafeDelete1, InvalidateDeployment1

-----------------------------------------------------------------------------
(* CacheInv, by the variables that a step changes *)

\* The L2 cache becomes a state that an operation leaves.
LEMMA BecomesSound ==
    ASSUME NEW state, L2Sound(state), Becomes(state), UNCHANGED era
    PROVE  L2Sound(L2)'
<1>1. state = [files |-> state.files, fuses |-> state.fuses, off |-> state.off,
               lost |-> state.lost, faults |-> state.faults]
  BY DEF L2Sound, L2States
<1>2. L2' = state
  BY <1>1 DEF Becomes, L2
<1>3. L2Sound(state)'
  BY DEF L2Sound, OfItsKey
<1>. QED  BY <1>2, <1>3 DEF L2Sound, OfItsKey

LEMMA SameL2 ==
    ASSUME CacheInv, UNCHANGED <<files, fuses, off2, lost, faults, era>>
    PROVE  L2Sound(L2)'
  BY BecomesSound DEF CacheInv, Becomes, L2

LEMMA L2Fields ==
    /\ L2.files = files /\ L2.fuses = fuses /\ L2.off = off2 /\ L2.lost = lost /\ L2.faults = faults
    /\ CacheInv => /\ L2Sound(L2) /\ L2 \in L2States /\ FilesSound(L2, files) /\ files \in [Keys -> FileRecords] /\ faults \in Nat
                   /\ fuses \in SUBSET Fuse /\ off2 \in SUBSET Fuse
  BY OwnFilesSound DEF L2, CacheInv, L2Sound, L2States

\* Only the invocation of one session changes.
LEMMA OneRun ==
    ASSUME CacheInv, NEW s \in Sessions, NEW i \in Invocations, InvocationSound(i), Step(s, i),
           UNCHANGED <<input, era>>
    PROVE  run' \in [Sessions -> Invocations] /\ \A t \in Sessions : InvocationSound(run[t])'
<1>1. \A j : InvocationSound(j) => InvocationSound(j)'
  BY DEF InvocationSound, ValueSound
<1>2. run' \in [Sessions -> Invocations] /\ \A t \in Sessions : run'[t] = IF t = s THEN i ELSE run[t]
  BY DEF CacheInv, Step
<1>3. \A t \in Sessions : InvocationSound(run'[t])
  BY <1>2 DEF CacheInv
<1>4. \A t \in Sessions : InvocationSound(run[t])'
  BY <1>3 DEF InvocationSound, ValueSound
<1>. QED  BY <1>2, <1>4

LEMMA SameRun ==
    ASSUME CacheInv, UNCHANGED <<run, era>>, input' \in Contents, input <= input'
    PROVE  run' \in [Sessions -> Invocations] /\ \A t \in Sessions : InvocationSound(run[t])'
<1>1. input \in Nat /\ input' \in Nat
  BY ContentsType DEF CacheInv
<1>2. \A i \in Invocations : i.key1 \in Nat /\ i.key2 \in Nat /\ i.pre \in Nat
  BY ContentsType DEF Invocations
<1>3. \A i \in Invocations : InvocationSound(i) => InvocationSound(i)'
  BY <1>1, <1>2 DEF InvocationSound, ValueSound
<1>4. run' \in [Sessions -> Invocations] /\ \A t \in Sessions : InvocationSound(run[t]) /\ run[t] \in Invocations
  BY DEF CacheInv
<1>5. ASSUME NEW t \in Sessions  PROVE InvocationSound(run[t])'
  <2>1. PICK i \in Invocations : i = run[t]
    BY <1>4
  <2>2. InvocationSound(i)'
    BY <1>3, <1>4, <2>1
  <2>. QED  BY <2>1, <2>2
<1>. QED  BY <1>4, <1>5

LEMMA InvFromParts ==
    ASSUME CacheInv, input' \in Contents, era' \in Nat, off1' \in BOOLEAN,
           operator' \in Fuse \cup {"idle"},
           run' \in [Sessions -> Invocations], \A t \in Sessions : InvocationSound(run[t])',
           mem' \in Seq(SoundEntries), L2Sound(L2)'
    PROVE  CacheInv'
  BY DEF CacheInv, MemorySound

-----------------------------------------------------------------------------
(* Runtime.load, ControlFoleyAdapter.load and Runtime.unload *)

\* A session without an invocation, and one that begins.
LEMMA FreshSound ==
    ASSUME input \in Contents, NEW pc \in {"none", "ready", "failed", "begin1"}
    PROVE  /\ [Idle EXCEPT !.pc = pc] \in Invocations /\ InvocationSound([Idle EXCEPT !.pc = pc])
           /\ Idle \in Invocations /\ InvocationSound(Idle)
<1>. DEFINE j == [Idle EXCEPT !.pc = pc]
<1>1. input \in Nat /\ 0 <= input /\ 0 \in MaybeContents
  BY ContentsType DEF MaybeContents, None
<1>2. [r \in Roles |-> None] \in [Roles -> MaybeContents]
  BY <1>1 DEF None
<1>3. Idle \in Invocations
  BY <1>1, <1>2 DEF Idle, Invocations, None, Resting
<1>4. j \in Invocations
  BY <1>3 DEF Invocations, Resting, Executing
<1>5. /\ Idle.key1 = 0 /\ Idle.key2 = 0 /\ Idle.hit1 = 0 /\ Idle.staged = FALSE /\ Idle.pc = "ready"
  BY DEF Idle, None
<1>6. /\ j.key1 = 0 /\ j.key2 = 0 /\ j.hit1 = 0 /\ j.staged = FALSE /\ j.pc = pc
  BY <1>3, <1>5 DEF Invocations
<1>7. InvocationSound(Idle)
  BY <1>1, <1>5 DEF InvocationSound, None
<1>. HIDE DEF j
<1>8. InvocationSound(j)
  BY <1>1, <1>6 DEF InvocationSound, None
<1>. QED  BY <1>3, <1>4, <1>7, <1>8 DEF j

LEMMA FreshRun ==
    ASSUME CacheInv, NEW pc \in {"none", "ready", "failed", "begin1"}
    PROVE  /\ [Idle EXCEPT !.pc = pc] \in Invocations /\ InvocationSound([Idle EXCEPT !.pc = pc])
           /\ Idle \in Invocations /\ InvocationSound(Idle)
  BY FreshSound DEF CacheInv

\* A transaction becomes old when a generation moves.
LEMMA OlderSound ==
    ASSUME NEW rs \in [Sessions -> Invocations], \A t \in Sessions : InvocationSound(rs[t])
    PROVE  /\ Older1(rs) \in [Sessions -> Invocations]
           /\ \A t \in Sessions : InvocationSound(Older1(rs)[t])
           /\ Older2(rs) \in [Sessions -> Invocations]
           /\ \A t \in Sessions : InvocationSound(Older2(rs)[t])
<1>1. ASSUME NEW t \in Sessions
      PROVE  /\ Older1(rs)[t] \in Invocations /\ InvocationSound(Older1(rs)[t])
             /\ Older2(rs)[t] \in Invocations /\ InvocationSound(Older2(rs)[t])
  <2>. DEFINE i == rs[t]
              b1 == i.key1 # None
              b2 == i.key2 # None
              i1 == [i EXCEPT !.old1 = b1]
              i2 == [i EXCEPT !.old2 = b2]
  <2>1. Older1(rs)[t] = i1 /\ Older2(rs)[t] = i2
    BY DEF Older1, Older2
  <2>2. i \in Invocations /\ InvocationSound(i)
    OBVIOUS
  <2>3. b1 \in BOOLEAN /\ b2 \in BOOLEAN
    OBVIOUS
  <2>4. i2.key2 # None => i2.old2
    BY <2>2 DEF Invocations
  <2>. HIDE DEF i, b1, b2
  <2>5. /\ i1 \in Invocations /\ i2 \in Invocations
        /\ i1.pc = i.pc /\ i1.key1 = i.key1 /\ i1.key2 = i.key2 /\ i1.hit1 = i.hit1
        /\ i1.pre = i.pre /\ i1.staged = i.staged /\ i1.old2 = i.old2 /\ i1.era = i.era
        /\ i2.pc = i.pc /\ i2.key1 = i.key1 /\ i2.key2 = i.key2 /\ i2.hit1 = i.hit1
        /\ i2.pre = i.pre /\ i2.staged = i.staged
    BY <2>2, <2>3 DEF Invocations
  <2>. HIDE DEF i1, i2
  <2>6. InvocationSound(i1) /\ InvocationSound(i2)
    BY <2>2, <2>4, <2>5 DEF InvocationSound, ValueSound
  <2>. QED  BY <2>1, <2>5, <2>6
<1>2. DOMAIN Older1(rs) = Sessions /\ DOMAIN Older2(rs) = Sessions
  BY DEF Older1, Older2
<1>3. Older1(rs) \in [Sessions -> Invocations] /\ Older2(rs) \in [Sessions -> Invocations]
  <2>1. Older1(rs) = [t \in Sessions |-> Older1(rs)[t]] /\ Older2(rs) = [t \in Sessions |-> Older2(rs)[t]]
    BY DEF Older1, Older2
  <2>. QED  BY <1>1, <2>1
<1>. QED  BY <1>1, <1>3

LEMMA LoadStep ==
    ASSUME CacheInv, NEW s \in Sessions, Load(s)
    PROVE  CacheInv'
<1>1. Idle \in Invocations /\ InvocationSound(Idle)
  BY FreshRun
<1>2. /\ Step(s, Idle) /\ UNCHANGED <<input, era, mem, off1, operator, files, fuses, off2, lost, faults>>
  BY DEF Load, Bound
<1>3. run' \in [Sessions -> Invocations] /\ \A t \in Sessions : InvocationSound(run[t])'
  BY <1>1, <1>2, OneRun
<1>. QED  BY <1>2, <1>3, SameL2, MemorySafe, InvFromParts DEF CacheInv

LEMMA ReturnStep ==
    ASSUME CacheInv, NEW s \in Sessions, Return(s)
    PROVE  CacheInv'
<1>1. Idle \in Invocations /\ InvocationSound(Idle)
  BY FreshRun
<1>2. /\ Step(s, Idle) /\ UNCHANGED <<input, era, mem, off1, operator, files, fuses, off2, lost, faults>>
  BY DEF Return
<1>3. run' \in [Sessions -> Invocations] /\ \A t \in Sessions : InvocationSound(run[t])'
  BY <1>1, <1>2, OneRun
<1>. QED  BY <1>2, <1>3, SameL2, MemorySafe, InvFromParts DEF CacheInv

LEMMA InvokeStep ==
    ASSUME CacheInv, NEW s \in Sessions, Invoke(s)
    PROVE  CacheInv'
<1>. DEFINE i == [Idle EXCEPT !.pc = "begin1"]
<1>1. i \in Invocations /\ InvocationSound(i)
  BY FreshRun DEF CacheInv
<1>2. /\ Step(s, i) /\ UNCHANGED <<input, era, mem, off1, operator, files, fuses, off2, lost, faults>>
  BY DEF Invoke
<1>3. run' \in [Sessions -> Invocations] /\ \A t \in Sessions : InvocationSound(run[t])'
  <2>. HIDE DEF i
  <2>. QED  BY <1>1, <1>2, OneRun
<1>. QED  BY <1>2, <1>3, SameL2, MemorySafe, InvFromParts DEF CacheInv

\* release_deployment keeps the entries within their limits, or sets a fuse.
LEMMA ReleasedSound ==
    ASSUME CacheInv
    PROVE  \A rel \in Released : L2Sound(rel.state)
<1>1. /\ L2Sound(L2) /\ files \in [Keys -> FileRecords] /\ faults \in Nat /\ FilesSound(L2, files)
  BY L2Fields
<1>2. \A fs \in CleanedUp(files, fuses) \cup Deleting(files, Keys) : FilesSound(L2, fs)
  BY <1>1, CleanedUpFewer, DeletingFewer, FewerSound
<1>3. ASSUME NEW fs \in Deleting(files, Keys)
      PROVE  \A st \in FuseDeployment(Failed([L2 EXCEPT !.files = fs])) : L2Sound(st)
  <2>. DEFINE x == Failed([L2 EXCEPT !.files = fs])
  <2>1. L2Sound(x)
    BY <1>1, <1>2, FailedSound
  <2>. HIDE DEF x
  <2>2. \A st \in FuseDeployment(x) : L2Sound(st)
    BY <1>1, <2>1, FuseSound
  <2>. QED  BY <2>2 DEF x
<1>4. \A fs \in CleanedUp(files, fuses) : L2Sound([L2 EXCEPT !.files = fs])
  BY <1>1, <1>2, FilesReplaced
<1>5. ASSUME NEW rel \in Released  PROVE L2Sound(rel.state)
  <2>1. \/ rel.state = L2
        \/ \E fs \in CleanedUp(files, fuses) : rel.state = [L2 EXCEPT !.files = fs]
        \/ \E fs \in Deleting(files, Keys) :
             rel.state \in FuseDeployment(Failed([L2 EXCEPT !.files = fs]))
    BY DEF Released
  <2>. QED  BY <1>1, <1>3, <1>4, <2>1
<1>. QED  BY <1>5

LEMMA UnloadStep ==
    ASSUME CacheInv, NEW s \in Sessions, Unload(s)
    PROVE  CacheInv'
<1>. DEFINE rs == [run EXCEPT ![s] = NoSession]
<1>1. PICK rel \in Released :
        Becomes(rel.state) /\ run' = IF rel.moved THEN Older2(Older1(rs)) ELSE Older1(rs)
  BY DEF Unload
<1>2. mem' = InvalidateDeployment1 /\ UNCHANGED <<input, off1, operator, era>>
  BY DEF Unload
<1>3. rs \in [Sessions -> Invocations] /\ \A t \in Sessions : InvocationSound(rs[t])
  <2>1. NoSession \in Invocations /\ InvocationSound(NoSession)
    BY FreshRun DEF CacheInv, NoSession
  <2>. QED  BY <2>1 DEF CacheInv
<1>4. /\ Older1(rs) \in [Sessions -> Invocations]
      /\ \A t \in Sessions : InvocationSound(Older1(rs)[t])
  <2>. HIDE DEF rs
  <2>. QED  BY <1>3, OlderSound
<1>. HIDE DEF rs
<1>5. run' \in [Sessions -> Invocations] /\ \A t \in Sessions : InvocationSound(run'[t])
  BY <1>1, <1>4, OlderSound
<1>6. \A t \in Sessions : InvocationSound(run[t])'
  BY <1>2, <1>5 DEF InvocationSound, ValueSound
<1>7. L2Sound(L2)'
  BY <1>1, <1>2, ReleasedSound, BecomesSound
<1>. QED  BY <1>2, <1>5, <1>6, <1>7, MemorySafe, InvFromParts DEF CacheInv

-----------------------------------------------------------------------------
(* ControlFoleyAdapter.invoke on the staged path *)

LEMMA RunSound ==
    ASSUME CacheInv, NEW s \in Sessions
    PROVE  /\ run[s] \in Invocations /\ InvocationSound(run[s])
           /\ run[s].key1 \in Nat /\ run[s].key2 \in Nat /\ run[s].pre \in Nat
           /\ input \in Nat /\ input # 0 /\ input \in MaybeContents
<1>1. run[s] \in Invocations /\ InvocationSound(run[s])
  BY DEF CacheInv
<1>. QED  BY <1>1, ContentsType DEF CacheInv, Invocations, MaybeContents

\* What an invocation that fails has stored is taken back.
LEMMA GiveUpStep ==
    ASSUME CacheInv, NEW s \in Sessions, GiveUp(s)
    PROVE  CacheInv'
<1>1. PICK pc \in {"ready", "failed"} : InVain(s, pc)
  BY DEF GiveUp
<1>2. UNCHANGED <<input, mem, off1, operator, era>>
  BY DEF GiveUp
<1>3. PICK st \in RolledBack(s) : Becomes(st) /\ Step(s, [Idle EXCEPT !.pc = pc])
  BY <1>1 DEF InVain
<1>4. IsFiniteSet(run[s].new)
  BY RunSound, CacheAssumption, FS_Subset DEF Invocations
<1>5. L2Sound(st)
  BY <1>3, <1>4, L2Fields, DeleteAllSound DEF RolledBack
<1>6. L2Sound(L2)'
  BY <1>2, <1>3, <1>5, BecomesSound
<1>7. [Idle EXCEPT !.pc = pc] \in Invocations /\ InvocationSound([Idle EXCEPT !.pc = pc])
  BY FreshRun DEF CacheInv
<1>8. run' \in [Sessions -> Invocations] /\ \A t \in Sessions : InvocationSound(run[t])'
  BY <1>2, <1>3, <1>7, OneRun
<1>. QED  BY <1>2, <1>6, <1>8, MemorySafe, InvFromParts DEF CacheInv

LEMMA Begin1Step ==
    ASSUME CacheInv, NEW s \in Sessions, Begin1(s)
    PROVE  CacheInv'
<1>. DEFINE i == run[s]
            off == [i EXCEPT !.pc = "begin2"]
            on == [i EXCEPT !.pc = "begin2", !.key1 = input, !.hit1 = Found(mem, input)]
<1>1. /\ i \in Invocations /\ InvocationSound(i) /\ input \in Nat /\ input \in MaybeContents
      /\ input # 0
  BY RunSound
<1>2. UNCHANGED <<input, off1, files, fuses, off2, operator, lost, era, faults>> /\ i.pc = "begin1"
  BY DEF Begin1, At
<1>3. Found(mem, input) \in {None, input} /\ Found(mem, input) \in MaybeContents
  BY MemorySafe, FoundSound
<1>4. off \in Invocations /\ InvocationSound(off)
  <2>1. off \in Invocations
    BY <1>1 DEF Invocations, Executing
  <2>2. /\ off.pc = "begin2" /\ off.key1 = i.key1 /\ off.key2 = i.key2 /\ off.hit1 = i.hit1
        /\ off.staged = i.staged /\ off.old2 = i.old2 /\ off.era = i.era
    BY <1>1 DEF Invocations
  <2>. HIDE DEF off
  <2>. QED  BY <1>1, <2>1, <2>2 DEF InvocationSound
<1>5. on \in Invocations /\ InvocationSound(on)
  <2>1. on \in Invocations
    BY <1>1, <1>3 DEF Invocations, Executing
  <2>2. /\ on.pc = "begin2" /\ on.key1 = input /\ on.key2 = i.key2 /\ on.hit1 = Found(mem, input)
        /\ on.staged = i.staged /\ on.old2 = i.old2 /\ on.era = i.era
    BY <1>1 DEF Invocations
  <2>. HIDE DEF on
  <2>. QED  BY <1>1, <1>3, <2>1, <2>2 DEF InvocationSound, None
<1>6. (Step(s, off) /\ UNCHANGED mem) \/ (Step(s, on) /\ mem' = Touched(mem, input))
  BY DEF Begin1
<1>. HIDE DEF off, on
<1>7. run' \in [Sessions -> Invocations] /\ \A t \in Sessions : InvocationSound(run[t])'
  BY <1>2, <1>4, <1>5, <1>6, OneRun
<1>8. mem' \in Seq(SoundEntries)
  BY <1>6, MemorySafe
<1>. QED  BY <1>2, <1>7, <1>8, SameL2, InvFromParts DEF CacheInv

\* Entries that are quarantined, invalidated or lapsed.
LEMMA EmptiedFewer ==
    ASSUME CacheInv, NEW gone
    PROVE  Fewer(files, Emptied(gone))
  BY L2Fields, NoFileType DEF Fewer, Emptied

LEMMA Begin2Step ==
    ASSUME CacheInv, NEW s \in Sessions, Begin2(s)
    PROVE  CacheInv'
<1>. DEFINE i == run[s]
            off == [i EXCEPT !.pc = "preprocess"]
<1>1. /\ i \in Invocations /\ InvocationSound(i) /\ input \in Nat /\ input \in MaybeContents
      /\ input # 0
  BY RunSound
<1>2. UNCHANGED <<input, mem, off1, operator, era>>
  BY DEF Begin2
<1>3. ASSUME NEW st, L2Sound(st), Becomes(st), Step(s, off)  PROVE CacheInv'
  <2>1. off \in Invocations
    BY <1>1 DEF Invocations, Executing
  <2>2. /\ off.pc = "preprocess" /\ off.key1 = i.key1 /\ off.key2 = i.key2 /\ off.hit1 = i.hit1
        /\ off.staged = i.staged /\ off.old2 = i.old2 /\ off.era = i.era
    BY <1>1 DEF Invocations
  <2>. HIDE DEF off
  <2>3. InvocationSound(off)
    BY <1>1, <2>1, <2>2 DEF InvocationSound
  <2>4. run' \in [Sessions -> Invocations] /\ \A t \in Sessions : InvocationSound(run[t])'
    BY <1>2, <1>3, <2>1, <2>3, OneRun
  <2>5. L2Sound(L2)'
    BY <1>2, <1>3, BecomesSound
  <2>. QED  BY <1>2, <2>4, <2>5, MemorySafe, InvFromParts DEF CacheInv
<1>4. ASSUME NEW bad \in Unreadable(input), NEW fs \in Deleting(files, {input} \X bad),
             Becomes(IF bad = {} THEN L2 ELSE Failed([L2 EXCEPT !.files = fs])),
             Step(s, [i EXCEPT !.pc = "preprocess", !.key2 = input, !.era = era,
                               !.hit2 = ReadRoles(input, bad)])
      PROVE  CacheInv'
  <2>. DEFINE hits == ReadRoles(input, bad)
              on == [i EXCEPT !.pc = "preprocess", !.key2 = input, !.era = era, !.hit2 = hits]
  <2>2. L2Sound(L2)'
    <3>1. FilesSound(L2, fs)
      BY L2Fields, DeletingFewer, FewerSound
    <3>2. L2Sound(L2) /\ L2Sound(Failed([L2 EXCEPT !.files = fs]))
      BY <3>1, L2Fields, FailedSound
    <3>3. PICK st : L2Sound(st) /\ Becomes(st)
      BY <1>4, <3>2
    <3>. QED  BY <1>2, <3>3, BecomesSound
  <2>3. hits \in [Roles -> MaybeContents]
    <3>1. ASSUME NEW r \in Roles  PROVE ReadEntry(<<input, r>>) \in MaybeContents
      <4>1. <<input, r>> \in Keys
        BY DEF CacheInv, Keys
      <4>2. files[<<input, r>>] \in FileRecords
        BY <4>1, L2Fields
      <4>. QED  BY <4>2 DEF FileRecords, ReadEntry, MaybeContents
    <3>. QED  BY <3>1 DEF ReadRoles, MaybeContents
  <2>. HIDE DEF hits
  <2>4. on \in Invocations
    BY <1>1, <2>3 DEF Invocations, Executing, CacheInv
  <2>5. /\ on.pc = "preprocess" /\ on.key1 = i.key1 /\ on.key2 = input /\ on.hit1 = i.hit1
        /\ on.staged = i.staged /\ on.era = era
    BY <1>1 DEF Invocations
  <2>6. Step(s, on)
    BY <1>4 DEF hits
  <2>. HIDE DEF on
  <2>7. InvocationSound(on)
    BY <1>1, <2>5 DEF InvocationSound
  <2>8. run' \in [Sessions -> Invocations] /\ \A t \in Sessions : InvocationSound(run[t])'
    BY <1>2, <2>4, <2>6, <2>7, OneRun
  <2>. QED  BY <1>2, <2>2, <2>8, MemorySafe, InvFromParts DEF CacheInv
<1>5. L2Sound(L2) /\ L2Sound(Blind(L2))
  BY L2Fields, BlindSound
<1>6. \/ Step(s, off) /\ \E st \in {L2, Blind(L2)} : Becomes(st)
      \/ \E bad \in Unreadable(input) : \E fs \in Deleting(files, {input} \X bad) :
            /\ Becomes(IF bad = {} THEN L2 ELSE Failed([L2 EXCEPT !.files = fs]))
            /\ Step(s, [i EXCEPT !.pc = "preprocess", !.key2 = input, !.era = era,
                              !.hit2 = ReadRoles(input, bad)])
  BY DEF Begin2
<1>. QED  BY <1>3, <1>4, <1>5, <1>6

\* The preprocess value is that of the L1 key, or of what the input holds now.
LEMMA PreprocessStep ==
    ASSUME CacheInv, NEW s \in Sessions, Preprocess(s)
    PROVE  CacheInv'
<1>. DEFINE i == run[s]
            b == i.key1 # None
            old == [i EXCEPT !.pc = "encode", !.pre = i.hit1]
            new == [i EXCEPT !.pc = "encode", !.pre = input, !.hit1 = None, !.staged = b]
<1>1. /\ i \in Invocations /\ InvocationSound(i) /\ input \in Nat /\ input \in MaybeContents
      /\ input # 0 /\ i.key1 \in Nat /\ i.key2 \in Nat
  BY RunSound
<1>2. UNCHANGED <<input, off1, files, fuses, off2, operator, lost, era>>
  BY DEF Preprocess
<1>3. b \in BOOLEAN /\ None \in MaybeContents
  BY DEF MaybeContents
<1>4. i.hit1 # None => old \in Invocations /\ InvocationSound(old)
  <2>. HAVE i.hit1 # None
  <2>1. old \in Invocations
    BY <1>1 DEF Invocations, Executing
  <2>2. /\ old.pc = "encode" /\ old.key1 = i.key1 /\ old.key2 = i.key2 /\ old.hit1 = i.hit1
        /\ old.staged = i.staged /\ old.old2 = i.old2 /\ old.era = i.era /\ old.pre = i.hit1
    BY <1>1 DEF Invocations
  <2>. HIDE DEF old
  <2>. QED  BY <1>1, <2>1, <2>2 DEF InvocationSound, ValueSound
<1>5. new \in Invocations /\ InvocationSound(new)
  <2>. HIDE DEF b
  <2>1. new \in Invocations
    BY <1>1, <1>3 DEF Invocations, Executing
  <2>2. /\ new.pc = "encode" /\ new.key1 = i.key1 /\ new.key2 = i.key2 /\ new.hit1 = None
        /\ new.staged = b /\ new.old2 = i.old2 /\ new.era = i.era /\ new.pre = input
    BY <1>1 DEF Invocations
  <2>. HIDE DEF new
  <2>3. new.staged => i.key1 # None
    BY <2>2 DEF b
  <2>4. ValueSound(new)
    BY <1>1, <2>2 DEF ValueSound, InvocationSound, None
  <2>5. InvocationSound(new)
    BY <1>1, <2>2, <2>3, <2>4 DEF InvocationSound
  <2>. QED  BY <2>1, <2>5
<1>6. \/ i.hit1 # None /\ Step(s, old) /\ UNCHANGED <<mem, faults>>
      \/ /\ Step(s, new) /\ faults' \in {faults, faults + 1}
         /\ mem' = mem \/ mem' = SafeDelete1(i.key1)
  BY DEF Preprocess, Decoded, Computed
<1>. HIDE DEF old, new
<1>7. run' \in [Sessions -> Invocations] /\ \A t \in Sessions : InvocationSound(run[t])'
  BY <1>2, <1>4, <1>5, <1>6, OneRun
<1>8. mem' \in Seq(SoundEntries)
  BY <1>6, MemorySafe
<1>9. L2Sound(L2)'
  <2>. DEFINE st == [L2 EXCEPT !.faults = faults']
  <2>1. faults' \in Nat
    BY <1>6, L2Fields
  <2>3. L2Sound(st)
    BY <2>1, L2Fields, FilesReplaced
  <2>4. Becomes(st)
    BY <1>2 DEF Becomes, L2
  <2>. HIDE DEF st
  <2>. QED  BY <1>2, <2>3, <2>4, BecomesSound
<1>. QED  BY <1>2, <1>7, <1>8, <1>9, InvFromParts DEF CacheInv

\* A cached feature that is refused leaves L2, and is encoded anew.
LEMMA EncodeStep ==
    ASSUME CacheInv, NEW s \in Sessions, Encode(s)
    PROVE  CacheInv'
<1>. DEFINE i == run[s]
            hits == {r \in Roles : i.hit2[r] # None}
<1>1. /\ i \in Invocations /\ InvocationSound(i)
  BY RunSound
<1>2. UNCHANGED <<input, mem, off1, operator, era>> /\ i.pc = "encode"
  BY DEF Encode, At
<1>3. PICK refused \in SUBSET hits :
        \E st \in DeleteAll(IF refused = {} THEN L2 ELSE Failed(L2), i.key2, refused) :
            /\ Becomes(st)
            /\ Step(s, [i EXCEPT !.pc = "commit2",
                    !.hit2 = [r \in Roles |-> IF r \in refused THEN None ELSE @[r]],
                    !.fresh = Exported(s, (Roles \ hits) \cup refused)])
  BY DEF Encode
<1>4. IsFiniteSet(refused) /\ refused \subseteq Roles
  BY CacheAssumption, FS_Subset
<1>. DEFINE mid == IF refused = {} THEN L2 ELSE Failed(L2)
            seen == [r \in Roles |-> IF r \in refused THEN None ELSE i.hit2[r]]
            fresh == Exported(s, (Roles \ hits) \cup refused)
            next == [i EXCEPT !.pc = "commit2", !.hit2 = seen, !.fresh = fresh]
<1>5. L2Sound(mid)
  BY L2Fields, FailedSound
<1>6. PICK st \in DeleteAll(mid, i.key2, refused) : Becomes(st) /\ Step(s, next)
  BY <1>3
<1>. HIDE DEF mid
<1>7. L2Sound(L2)'
  <2>1. L2Sound(st)
    BY <1>4, <1>5, <1>6, L2Fields, DeleteAllSound
  <2>. QED  BY <1>2, <1>6, <2>1, BecomesSound
<1>8. seen \in [Roles -> MaybeContents] /\ fresh \in SUBSET Roles
  <2>1. i.hit2 \in [Roles -> MaybeContents]
    BY <1>1 DEF Invocations
  <2>. QED  BY <1>4, <2>1 DEF Exported, MaybeContents
<1>. HIDE DEF seen, fresh
<1>9. next \in Invocations
  BY <1>1, <1>8 DEF Invocations, Executing
<1>10. /\ next.pc = "commit2" /\ next.key1 = i.key1 /\ next.key2 = i.key2 /\ next.hit1 = i.hit1
       /\ next.staged = i.staged /\ next.old2 = i.old2 /\ next.era = i.era /\ next.pre = i.pre
  BY <1>1 DEF Invocations
<1>. HIDE DEF next
<1>11. InvocationSound(next)
  BY <1>1, <1>2, <1>10 DEF InvocationSound, ValueSound
<1>12. run' \in [Sessions -> Invocations] /\ \A t \in Sessions : InvocationSound(run[t])'
  BY <1>2, <1>6, <1>9, <1>11, OneRun
<1>. QED  BY <1>2, <1>7, <1>12, MemorySafe, InvFromParts DEF CacheInv

LEMMA ReportedSound ==
    ASSUME faults \in Nat, NEW state, L2Sound(state)
    PROVE  \A st \in Reported(state) : L2Sound(st)
<1>1. state.files \in [Keys -> FileRecords] /\ FilesSound(state, state.files)
  BY OwnFilesSound DEF L2Sound, L2States
<1>2. \A fs \in CleanedUp(state.files, state.fuses) \cup Deleting(state.files, Keys) :
        FilesSound(state, fs)
  BY <1>1, CleanedUpFewer, DeletingFewer, FewerSound
<1>3. \A fs : FilesSound(state, fs) => /\ L2Sound([state EXCEPT !.files = fs])
                                      /\ L2Sound(Failed([state EXCEPT !.files = fs]))
  BY FilesReplaced, FailedSound
<1>. QED  BY <1>2, <1>3 DEF Reported, SafeSnapshot2, Snapshot2

\* The invocation goes on behind a step that leaves its keys and its value alone.
LEMMA GoesOn ==
    ASSUME CacheInv, NEW s \in Sessions,
           NEW p \in {"commit2", "revalidate"}, At(s, p), NEW q \in {"revalidate", "commit1"},
           NEW fresh \in SUBSET Roles, NEW new \in SUBSET Roles
    PROVE  LET next == [run[s] EXCEPT !.pc = q, !.fresh = fresh, !.new = new]
           IN  next \in Invocations /\ InvocationSound(next)
<1>. DEFINE i == run[s]
            next == [i EXCEPT !.pc = q, !.fresh = fresh, !.new = new]
<1>1. i \in Invocations /\ InvocationSound(i) /\ i.pc = p
  BY RunSound DEF At
<1>2. next \in Invocations
  BY <1>1 DEF Invocations, Executing
<1>3. /\ next.pc = q /\ next.key1 = i.key1 /\ next.key2 = i.key2 /\ next.hit1 = i.hit1
      /\ next.staged = i.staged /\ next.old2 = i.old2 /\ next.era = i.era /\ next.pre = i.pre
  BY <1>1 DEF Invocations
<1>. HIDE DEF next
<1>4. InvocationSound(next)
  BY <1>1, <1>3 DEF InvocationSound, ValueSound
<1>. QED  BY <1>2, <1>4 DEF next

\* A commit whose input hash is unchanged stores what was computed from the content
\* of its key, or marks that its caches saw different inputs.
LEMMA CommittedEntry ==
    ASSUME CacheInv, NEW s \in Sessions, At(s, "commit2"), run[s].key2 # None, ~run[s].old2,
           ~Drifted(s, run[s].key2), NEW r \in Roles
    PROVE  EntrySound(<<run[s].key2, r>>, Entry(s))
<1>. DEFINE i == run[s]
<1>1. /\ i \in Invocations /\ InvocationSound(i) /\ i.key1 \in Nat /\ i.key2 \in Nat
      /\ i.pre \in Nat /\ input \in Nat /\ i.pc = "commit2"
  BY RunSound DEF At
<1>2. /\ Entry(s).kind = "whole" /\ Entry(s).of = i.pre /\ Entry(s).era = i.era
      /\ Entry(s).apart = (i.key1 \notin {None, i.key2})
  BY DEF Entry
<1>3. Entry(s) \in FileRecords
  BY <1>1 DEF Entry, FileRecords, Invocations
<1>4. i.era = era
  BY <1>1 DEF InvocationSound
<1>5. i.pre # i.key2 => i.key1 \notin {None, i.key2}
  <2>1. ValueSound(i) /\ input = i.key2
    BY <1>1 DEF InvocationSound, Drifted
  <2>. QED  BY <1>1, <2>1 DEF ValueSound, None
<1>6. <<i.key2, r>>[1] = i.key2
  OBVIOUS
<1>. QED  BY <1>2, <1>3, <1>4, <1>5, <1>6 DEF EntrySound, OfItsKey

LEMMA Commit2Step ==
    ASSUME CacheInv, NEW s \in Sessions, Commit2(s)
    PROVE  CacheInv'
<1>. DEFINE i == run[s]
<1>1. UNCHANGED <<input, mem, off1, operator, era>> /\ At(s, "commit2")
  BY DEF Commit2
<1>2. i \in Invocations /\ i.new \in SUBSET Roles /\ i.fresh \in SUBSET Roles
  BY RunSound DEF Invocations
<1>3. CASE i.key2 = None \/ i.old2
  <2>. DEFINE next == [i EXCEPT !.pc = "commit1", !.fresh = {}]
  <2>1. Step(s, next) /\ \E st \in {L2} \cup Reported(L2) : Becomes(st)
    BY <1>3 DEF Commit2
  <2>2. next = [i EXCEPT !.pc = "commit1", !.fresh = {}, !.new = i.new]
    BY <1>2 DEF Invocations
  <2>3. next \in Invocations /\ InvocationSound(next)
    BY <1>1, <1>2, <2>2, GoesOn
  <2>4. L2Sound(L2)'
    BY <1>1, <2>1, L2Fields, ReportedSound, BecomesSound
  <2>. HIDE DEF next
  <2>5. run' \in [Sessions -> Invocations] /\ \A t \in Sessions : InvocationSound(run[t])'
    BY <1>1, <2>1, <2>3, OneRun
  <2>. QED  BY <1>1, <2>4, <2>5, MemorySafe, InvFromParts DEF CacheInv
<1>4. CASE ~(i.key2 = None \/ i.old2)
  <2>1. ~Drifted(s, i.key2)
    BY <1>4 DEF Commit2
  <2>2. PICK res \in PutAll(L2, i.key2, i.fresh, Entry(s)) :
            /\ Becomes(res.state)
            /\ Step(s, [i EXCEPT !.pc = "revalidate", !.fresh = {}, !.new = res.new])
    BY <1>4 DEF Commit2
  <2>3. i.key2 \in Contents
    BY <1>2, <1>4 DEF Invocations, MaybeContents
  <2>4. \A r \in i.fresh : EntrySound(<<i.key2, r>>, Entry(s))
    BY <1>1, <1>2, <1>4, <2>1, CommittedEntry
  <2>5. L2Sound(res.state) /\ res.new \in SUBSET Roles
    BY <1>2, <2>2, <2>3, <2>4, L2Fields, PutAllSound
  <2>6. L2Sound(L2)'
    BY <1>1, <2>2, <2>5, BecomesSound
  <2>. DEFINE next == [i EXCEPT !.pc = "revalidate", !.fresh = {}, !.new = res.new]
  <2>7. next \in Invocations /\ InvocationSound(next) /\ Step(s, next)
    BY <1>1, <2>2, <2>5, GoesOn
  <2>. HIDE DEF next
  <2>8. run' \in [Sessions -> Invocations] /\ \A t \in Sessions : InvocationSound(run[t])'
    BY <1>1, <2>7, OneRun
  <2>. QED  BY <1>1, <2>6, <2>8, MemorySafe, InvFromParts DEF CacheInv
<1>. QED  BY <1>3, <1>4

LEMMA RevalidateStep ==
    ASSUME CacheInv, NEW s \in Sessions, Revalidate(s)
    PROVE  CacheInv'
<1>. DEFINE i == run[s]
            next == [i EXCEPT !.pc = "commit1"]
<1>1. /\ UNCHANGED <<input, mem, off1, operator, era>> /\ At(s, "revalidate")
      /\ Step(s, next) /\ \E st \in Reported(L2) : Becomes(st)
  BY DEF Revalidate
<1>2. i \in Invocations /\ i.new \in SUBSET Roles /\ i.fresh \in SUBSET Roles
  BY RunSound DEF Invocations
<1>3. next = [i EXCEPT !.pc = "commit1", !.fresh = i.fresh, !.new = i.new]
  BY <1>2 DEF Invocations
<1>4. next \in Invocations /\ InvocationSound(next)
  BY <1>1, <1>2, <1>3, GoesOn
<1>5. L2Sound(L2)'
  BY <1>1, L2Fields, ReportedSound, BecomesSound
<1>. HIDE DEF next
<1>6. run' \in [Sessions -> Invocations] /\ \A t \in Sessions : InvocationSound(run[t])'
  BY <1>1, <1>4, OneRun
<1>. QED  BY <1>1, <1>5, <1>6, MemorySafe, InvFromParts DEF CacheInv

\* What is put into L1 under a key was computed from the content of that key: the
\* input had it before and has it still.
LEMMA Commit1Step ==
    ASSUME CacheInv, NEW s \in Sessions, Commit1(s)
    PROVE  CacheInv'
<1>. DEFINE i == run[s]
            next == [i EXCEPT !.pc = "final", !.staged = FALSE]
<1>1. /\ UNCHANGED <<input, off1, files, fuses, off2, operator, lost, era, faults>>
      /\ i.pc = "commit1" /\ Step(s, next)
      /\ i.old1 \/ ~Drifted(s, i.key1)
      /\ mem' = IF ~i.staged \/ i.old1 THEN mem ELSE SafePut1(Entry1(s))
  BY DEF Commit1, At
<1>2. /\ i \in Invocations /\ InvocationSound(i) /\ i.key1 \in Nat /\ i.key2 \in Nat
      /\ i.pre \in Nat /\ input \in Nat
  BY RunSound
<1>3. ~(~i.staged \/ i.old1) => Entry1(s) \in SoundEntries
  <2>. HAVE ~(~i.staged \/ i.old1)
  <2>1. i.key1 # None /\ input = i.key1 /\ ValueSound(i)
    BY <1>1, <1>2 DEF InvocationSound, Drifted
  <2>2. i.pre = i.key1
    BY <1>2, <2>1 DEF ValueSound
  <2>3. i.key1 \in Contents /\ i.old1 \in BOOLEAN /\ ~i.old1
    BY <1>2, <2>1 DEF Invocations, MaybeContents
  <2>. QED  BY <2>2, <2>3 DEF Entry1, SoundEntries, MemoryEntries
<1>4. mem' \in Seq(SoundEntries)
  BY <1>1, <1>3, MemorySafe
<1>5. next \in Invocations
  BY <1>2 DEF Invocations, Executing
<1>6. /\ next.pc = "final" /\ next.key1 = i.key1 /\ next.key2 = i.key2 /\ next.hit1 = i.hit1
      /\ next.staged = FALSE /\ next.old2 = i.old2 /\ next.era = i.era
  BY <1>2 DEF Invocations
<1>. HIDE DEF next
<1>7. InvocationSound(next)
  BY <1>2, <1>6 DEF InvocationSound
<1>8. run' \in [Sessions -> Invocations] /\ \A t \in Sessions : InvocationSound(run[t])'
  BY <1>1, <1>5, <1>7, OneRun
<1>. QED  BY <1>1, <1>4, <1>8, SameL2, InvFromParts DEF CacheInv

LEMMA FinalStep ==
    ASSUME CacheInv, NEW s \in Sessions, Final(s)
    PROVE  CacheInv'
<1>. DEFINE i == run[s]
            next == [i EXCEPT !.pc = "return"]
<1>1. /\ UNCHANGED <<input, mem, off1, files, fuses, off2, operator, lost, era, faults>>
      /\ Step(s, next)
  BY DEF Final
<1>2. i \in Invocations /\ InvocationSound(i)
  BY RunSound
<1>3. next \in Invocations
  BY <1>2 DEF Invocations, Executing
<1>4. /\ next.pc = "return" /\ next.key1 = i.key1 /\ next.key2 = i.key2 /\ next.hit1 = i.hit1
      /\ next.staged = i.staged /\ next.old2 = i.old2 /\ next.era = i.era
  BY <1>2 DEF Invocations
<1>. HIDE DEF next
<1>5. InvocationSound(next)
  BY <1>2, <1>4 DEF InvocationSound
<1>6. run' \in [Sessions -> Invocations] /\ \A t \in Sessions : InvocationSound(run[t])'
  BY <1>1, <1>3, <1>5, OneRun
<1>. QED  BY <1>1, <1>6, MemorySafe, SameL2, InvFromParts DEF CacheInv

-----------------------------------------------------------------------------
(* The operator, the process, the clock and the input file *)

LEMMA Invalidate1Step ==
    ASSUME CacheInv, NEW scope \in Fuse, Invalidate1(scope)
    PROVE  CacheInv'
<1>1. /\ UNCHANGED <<input, files, fuses, off2, lost, era>> /\ operator' = scope /\ run' = Older1(run)
      /\ mem' \in {mem, InvalidateDeployment1} /\ off1' \in BOOLEAN
      /\ faults' \in {faults, faults + 1}
  BY DEF Invalidate1, CacheInv
<1>2. run' \in [Sessions -> Invocations] /\ \A t \in Sessions : InvocationSound(run'[t])
  BY <1>1, OlderSound DEF CacheInv
<1>3. \A t \in Sessions : InvocationSound(run[t])'
  BY <1>1, <1>2 DEF InvocationSound, ValueSound
<1>4. L2Sound(L2)'
  <2>. DEFINE st == [L2 EXCEPT !.faults = faults']
  <2>1. faults' \in Nat
    BY <1>1, L2Fields
  <2>2. L2Sound(st)
    BY <2>1, L2Fields, FilesReplaced
  <2>3. Becomes(st)
    BY <1>1 DEF Becomes, L2
  <2>. HIDE DEF st
  <2>. QED  BY <1>1, <2>2, <2>3, BecomesSound
<1>5. mem' \in Seq(SoundEntries)
  BY <1>1, MemorySafe
<1>. QED  BY <1>1, <1>2, <1>3, <1>4, <1>5, InvFromParts DEF CacheInv

\* An invalidation leaves nothing that can be read, or a fuse.
LEMMA NothingLeft ==
    ASSUME NEW state \in L2States, Becomes(state), \A k \in Keys : OfItsKey(k, state.files[k]),
           \/ state.fuses # {}
           \/ state.lost = "unmarked"
           \/ \A k \in Keys : state.files[k].kind # "whole",
           state.lost = "unmarked" => state.off # {}
    PROVE  L2Sound(L2)'
<1>1. state = [files |-> state.files, fuses |-> state.fuses, off |-> state.off,
               lost |-> state.lost, faults |-> state.faults]
  BY DEF L2States
<1>2. L2' = state
  BY <1>1 DEF Becomes, L2
<1>3. L2Sound(state)'
  BY DEF L2Sound, OfItsKey
<1>. QED  BY <1>2, <1>3 DEF L2Sound, OfItsKey

\* Every transaction that was begun before an invalidation is old afterwards.
LEMMA AllOld ==
    ASSUME CacheInv, run' = Older2(run), UNCHANGED input
    PROVE  run' \in [Sessions -> Invocations] /\ \A t \in Sessions : InvocationSound(run[t])'
<1>1. /\ run' \in [Sessions -> Invocations] /\ \A t \in Sessions : InvocationSound(run'[t])
  BY OlderSound DEF CacheInv
<1>2. \A t \in Sessions : run'[t].key2 # None => run'[t].old2
  <2>. TAKE t \in Sessions
  <2>. DEFINE i == run[t]
              b == i.key2 # None
  <2>1. i \in Invocations /\ run'[t] = [i EXCEPT !.old2 = b]
    BY DEF CacheInv, Older2
  <2>2. run'[t].key2 = i.key2 /\ run'[t].old2 = b
    <3>. HIDE DEF b
    <3>. QED  BY <2>1 DEF Invocations
  <2>. QED  BY <2>2
<1>3. \A t \in Sessions : InvocationSound(run[t])'
  BY <1>1, <1>2 DEF InvocationSound, ValueSound
<1>. QED  BY <1>1, <1>3

LEMMA Invalidate2Step ==
    ASSUME CacheInv, Invalidate2
    PROVE  CacheInv'
<1>1. /\ UNCHANGED <<input, mem, off1>> /\ operator' = "idle" /\ era' = era + 1 /\ run' = Older2(run)
      /\ operator \in Fuse
  BY DEF Invalidate2, CacheInv
<1>2. /\ L2Sound(L2) /\ L2 \in L2States /\ L2.files = files /\ L2.fuses = fuses
      /\ L2.off = off2 /\ faults \in Nat /\ files \in [Keys -> FileRecords]
      /\ FilesSound(L2, files) /\ fuses \in SUBSET Fuse /\ off2 \in SUBSET Fuse
  BY L2Fields
<1>. DEFINE gone == Emptied(Records(files))
<1>3. /\ Fewer(files, gone) /\ gone \in [Keys -> FileRecords] /\ FilesSound(L2, gone)
      /\ \A k \in Keys : gone[k].kind # "whole"
  <2>1. Fewer(files, gone)
    BY EmptiedFewer
  <2>2. \A k \in Keys : gone[k].kind # "whole"
    BY NoFileType DEF Emptied, Records
  <2>. QED  BY <1>2, <2>1, <2>2, FewerSound DEF Fewer
<1>4. CASE Becomes(Invalidated(operator))
  <2>. DEFINE st == Invalidated(operator)
  <2>1. st \in L2States /\ st.files = gone /\ st.lost = "no"
    <3>. HIDE DEF gone
    <3>1. st = [L2 EXCEPT !.files = gone, !.fuses = @ \ Cleared(operator),
                          !.off = @ \ Cleared(operator), !.lost = "no"]
      BY DEF Invalidated, gone
    <3>. QED  BY <1>2, <1>3, <3>1 DEF L2States
  <2>2. \A k \in Keys : OfItsKey(k, st.files[k])
    BY <1>3, <2>1 DEF OfItsKey
  <2>3. Becomes(st)
    BY <1>4
  <2>. HIDE DEF st, gone
  <2>4. L2Sound(L2)'
    BY <1>3, <2>1, <2>2, <2>3, NothingLeft
  <2>. QED  BY <1>1, <2>4, AllOld, MemorySafe, InvFromParts DEF CacheInv
<1>5. ASSUME NEW half \in HalfInvalidated(operator)
      PROVE  half \in L2States /\ \A k \in Keys : OfItsKey(k, half.files[k])
  <2>1. ASSUME NEW fs \in Deleting(files, Records(files)), half = Failed([L2 EXCEPT !.files = fs])
        PROVE  half \in L2States /\ \A k \in Keys : OfItsKey(k, half.files[k])
    <3>1. FilesSound(L2, fs)
      BY <1>2, DeletingFewer, FewerSound
    <3>2. L2Sound(Failed([L2 EXCEPT !.files = fs]))
      BY <1>2, <3>1, FailedSound
    <3>. QED  BY <2>1, <3>2 DEF L2Sound
  <2>2. ASSUME NEW marks, half = Failed([L2 EXCEPT !.files = gone, !.fuses = @ \ marks])
        PROVE  half \in L2States /\ \A k \in Keys : OfItsKey(k, half.files[k])
    <3>. DEFINE x == [L2 EXCEPT !.files = gone, !.fuses = @ \ marks]
    <3>1. x \in L2States /\ x.files = gone
      <4>. HIDE DEF gone
      <4>. QED  BY <1>2, <1>3 DEF L2States
    <3>. HIDE DEF x
    <3>2. Failed(x) \in L2States /\ Failed(x).files = gone
      BY <1>2, <3>1, FailedType
    <3>3. half = Failed(x)
      BY <2>2 DEF x
    <3>. HIDE DEF gone
    <3>. QED  BY <1>3, <3>2, <3>3 DEF OfItsKey
  <2>. QED  BY <2>1, <2>2 DEF HalfInvalidated
<1>6. ASSUME NEW half \in HalfInvalidated(operator), NEW fused \in FuseScope(operator, half),
             Becomes(fused)
      PROVE  CacheInv'
  <2>1. half \in L2States /\ \A k \in Keys : OfItsKey(k, half.files[k])
    BY <1>5
  <2>2. fused \in L2States /\ L2Sound(fused) /\ (fused.fuses # {} \/ fused.lost = "unmarked")
    BY <1>2, <2>1, FusedSound DEF FuseScope
  <2>3. L2Sound(L2)'
    BY <1>6, <2>2, NothingLeft DEF L2Sound
  <2>. QED  BY <1>1, <2>3, AllOld, MemorySafe, InvFromParts DEF CacheInv
<1>. QED  BY <1>4, <1>6 DEF Invalidate2

\* A new process knows of the fuses what the directory remembers.
LEMMA RebornSound ==
    ASSUME CacheInv, NEW state, L2Sound(state), Reborn(state), UNCHANGED <<input, era>>
    PROVE  CacheInv'
<1>. DEFINE forgotten == IF state.lost # "no" /\ state.fuses = {} THEN "forgotten" ELSE "no"
            st == [files |-> files', fuses |-> state.fuses, off |-> DisabledAtBirth(state.fuses),
                   lost |-> forgotten, faults |-> state.faults]
<1>1. /\ state \in L2States /\ state.files \in [Keys -> FileRecords]
      /\ FilesSound(state, state.files)
  BY OwnFilesSound DEF L2Sound, L2States
<1>2. FilesSound(state, files')
  BY <1>1, CleanedUpFewer, FewerSound DEF Reborn
<1>3. st \in L2States
  BY <1>1, <1>2 DEF L2States, FilesSound, DisabledAtBirth
<1>4. L2Sound(st)
  BY <1>2, <1>3 DEF L2Sound, FilesSound
<1>5. Becomes(st)
  BY DEF Reborn, Becomes
<1>. HIDE DEF st
<1>6. L2Sound(L2)'
  BY <1>4, <1>5, BecomesSound
<1>7. run' \in [Sessions -> Invocations] /\ \A t \in Sessions : InvocationSound(run[t])'
  <2>1. NoSession \in Invocations /\ InvocationSound(NoSession)
    BY FreshRun DEF CacheInv, NoSession
  <2>2. run' \in [Sessions -> Invocations] /\ \A t \in Sessions : InvocationSound(run'[t])
    BY <2>1 DEF Reborn
  <2>3. \A t \in Sessions : InvocationSound(run[t])'
    BY <2>2 DEF InvocationSound, ValueSound
  <2>. QED  BY <2>2, <2>3
<1>. QED  BY <1>6, <1>7, MemorySafe, InvFromParts DEF CacheInv, Reborn

\* Half an entry is never read, and a whole one that a dying commit left is its own.
LEMMA TornSound ==
    ASSUME CacheInv, NEW fs \in Torn
    PROVE  FilesSound(L2, fs)
<1>1. /\ files \in [Keys -> FileRecords] /\ FilesSound(L2, files) /\ L2Sound(L2) /\ L2.files = files
  BY L2Fields
<1>2. CASE fs \in Halved(files, Keys)
  BY <1>1, <1>2, DeletingFewer, FewerSound
<1>3. ASSUME NEW s \in Sessions, At(s, "commit2"), ~Disabled(off2, fuses), ~run[s].old2,
             ~Drifted(s, run[s].key2), NEW k \in {run[s].key2} \X run[s].fresh,
             NEW f \in PutTorn(files[k], Entry(s)), fs = [files EXCEPT ![k] = f]
      PROVE  FilesSound(L2, fs)
  <2>1. CASE k \notin Keys
    BY <1>1, <1>3, <2>1
  <2>2. CASE k \in Keys
    <3>1. run[s] \in Invocations /\ k[1] = run[s].key2 /\ k[2] \in Roles /\ k = <<k[1], k[2]>>
      BY <1>3, <2>2, RunSound DEF Keys
    <3>2. run[s].key2 # None
      BY <2>2, <3>1, ContentsType DEF Keys, None
    <3>3. EntrySound(k, Entry(s))
      BY <1>3, <3>1, <3>2, CommittedEntry
    <3>4. f = files[k] \/ f = Entry(s) \/ \E kd \in {"data", "meta", "whole"} :
                                              f = [Entry(s) EXCEPT !.kind = kd]
      BY <1>3 DEF PutTorn
    <3>5. CASE f = files[k]
      <4>1. fs = files
        BY <1>1, <1>3, <2>2, <3>5
      <4>. QED  BY <1>1, <4>1
    <3>6. ASSUME NEW g \in FileRecords, g.era = era, OfItsKey(k, g), fs = [files EXCEPT ![k] = g]
          PROVE  FilesSound(L2, fs)
      BY <1>1, <3>6, FileReplaced
    <3>7. ASSUME NEW kd \in {"data", "meta", "whole"}
          PROVE  LET g == [Entry(s) EXCEPT !.kind = kd]
                 IN  g \in FileRecords /\ g.era = era /\ OfItsKey(k, g)
      <4>1. \A e : EntrySound(k, e) => LET g == [e EXCEPT !.kind = kd]
                                      IN  g \in FileRecords /\ g.era = era /\ OfItsKey(k, g)
        BY DEF EntrySound, FileRecords, OfItsKey
      <4>. QED  BY <3>3, <4>1
    <3>8. Entry(s) \in FileRecords /\ Entry(s).era = era /\ OfItsKey(k, Entry(s))
      BY <3>3 DEF EntrySound
    <3>. QED  BY <1>3, <3>4, <3>5, <3>6, <3>7, <3>8
  <2>. QED  BY <2>1, <2>2
<1>. QED  BY <1>2, <1>3 DEF Torn

LEMMA CrashStep ==
    ASSUME CacheInv, Crash
    PROVE  CacheInv'
<1>1. PICK fs \in Torn : Reborn([L2 EXCEPT !.files = fs])
  BY DEF Crash
<1>2. UNCHANGED <<input, era>>
  BY DEF Crash
<1>. DEFINE st == [L2 EXCEPT !.files = fs]
<1>3. L2Sound(st)
  BY TornSound, L2Fields, FilesReplaced
<1>4. Reborn(st)
  BY <1>1
<1>. HIDE DEF st
<1>. QED  BY <1>2, <1>3, <1>4, RebornSound

LEMMA CloseStep ==
    ASSUME CacheInv, Close
    PROVE  CacheInv'
<1>1. UNCHANGED <<input, era>>
  BY DEF Close
<1>2. ASSUME NEW fs \in Deleting(files, Keys)
      PROVE  \A st \in FuseAll(Failed([L2 EXCEPT !.files = fs])) : L2Sound(st)
  <2>. DEFINE x == Failed([L2 EXCEPT !.files = fs])
  <2>1. L2Sound(x)
    BY L2Fields, DeletingFewer, FewerSound, FailedSound
  <2>. HIDE DEF x
  <2>2. \A st \in FuseAll(x) : L2Sound(st)
    BY <2>1, L2Fields, FuseSound
  <2>. QED  BY <2>2 DEF x
<1>3. PICK st : L2Sound(st) /\ Reborn(st)
  BY <1>2, L2Fields DEF Close
<1>. QED  BY <1>1, <1>3, RebornSound

LEMMA LapseStep ==
    ASSUME CacheInv, Lapse
    PROVE  CacheInv'
<1>1. UNCHANGED <<input, run, off1, fuses, off2, lost, operator, era, faults>>
  BY DEF Lapse
<1>2. run' \in [Sessions -> Invocations] /\ \A t \in Sessions : InvocationSound(run[t])'
  BY <1>1, SameRun, ContentsType DEF CacheInv
<1>3. CASE (\E k : mem' = Without(mem, k)) /\ UNCHANGED files
  BY <1>1, <1>2, <1>3, MemorySafe, SameL2, InvFromParts DEF CacheInv
<1>4. ASSUME NEW gone, files' = Emptied(gone), UNCHANGED mem  PROVE CacheInv'
  <2>. DEFINE st == [L2 EXCEPT !.files = Emptied(gone)]
  <2>1. L2Sound(st)
    BY EmptiedFewer, L2Fields, FewerSound, FilesReplaced
  <2>2. Becomes(st)
    BY <1>1, <1>4 DEF Becomes, L2
  <2>. HIDE DEF st
  <2>3. L2Sound(L2)'
    BY <1>1, <2>1, <2>2, BecomesSound
  <2>. QED  BY <1>1, <1>2, <1>4, <2>3, MemorySafe, InvFromParts DEF CacheInv
<1>. QED  BY <1>3, <1>4 DEF Lapse

\* Contents do not come back: what was computed from an earlier one stays older.
LEMMA RewriteStep ==
    ASSUME CacheInv, Rewrite
    PROVE  CacheInv'
<1>1. /\ input' = input + 1 /\ input' \in Contents
      /\ UNCHANGED <<run, mem, off1, files, fuses, off2, operator, lost, era, faults>>
  BY DEF Rewrite
<1>2. input <= input'
  BY <1>1, ContentsType DEF CacheInv
<1>3. run' \in [Sessions -> Invocations] /\ \A t \in Sessions : InvocationSound(run[t])'
  BY <1>1, <1>2, SameRun
<1>. QED  BY <1>1, <1>3, MemorySafe, SameL2, InvFromParts DEF CacheInv

-----------------------------------------------------------------------------
(* The invariant *)

LEMMA CacheInitially == CacheInit => CacheInv
<1>. SUFFICES ASSUME CacheInit PROVE CacheInv
  OBVIOUS
<1>1. input \in Contents /\ era \in Nat /\ off1 \in BOOLEAN /\ operator \in Fuse \cup {"idle"}
  BY ContentsType DEF CacheInit
<1>2. run \in [Sessions -> Invocations] /\ \A s \in Sessions : InvocationSound(run[s])
  <2>1. NoSession \in Invocations /\ InvocationSound(NoSession)
    BY <1>1, FreshSound DEF NoSession
  <2>. QED  BY <2>1 DEF CacheInit
<1>3. MemorySound
  BY DEF CacheInit, MemorySound
<1>4. L2Sound(L2)
  <2>1. files \in [Keys -> FileRecords] /\ \A k \in Keys : files[k].kind = "none"
    BY NoFileType DEF CacheInit
  <2>2. L2 \in L2States /\ L2.lost = "no" /\ L2.files = files
    BY <2>1 DEF CacheInit, L2, L2States
  <2>. QED  BY <2>1, <2>2 DEF L2Sound, OfItsKey
<1>. QED  BY <1>1, <1>2, <1>3, <1>4 DEF CacheInv

LEMMA NothingHappens ==
    ASSUME CacheInv, UNCHANGED cacheVars
    PROVE  CacheInv'
<1>1. UNCHANGED <<input, run, mem, off1, files, fuses, off2, operator, lost, era, faults>>
  BY DEF cacheVars
<1>2. input' \in Contents /\ input <= input'
  BY <1>1, ContentsType DEF CacheInv
<1>. QED  BY <1>1, <1>2, SameRun, SameL2, InvFromParts DEF CacheInv, MemorySound

LEMMA CacheStep ==
    ASSUME CacheInv, [CacheNext]_cacheVars
    PROVE  CacheInv'
<1>1. ASSUME NEW s \in Sessions,
             \/ Load(s) \/ Unload(s) \/ Invoke(s) \/ GiveUp(s)
             \/ Begin1(s) \/ Begin2(s) \/ Preprocess(s) \/ Encode(s) \/ Commit2(s)
             \/ Revalidate(s) \/ Commit1(s) \/ Final(s) \/ Return(s)
      PROVE  CacheInv'
  BY <1>1, LoadStep, UnloadStep, InvokeStep, GiveUpStep, Begin1Step, Begin2Step, PreprocessStep,
     EncodeStep, Commit2Step, RevalidateStep, Commit1Step, FinalStep, ReturnStep
<1>2. CASE InvalidateCache
  BY <1>2, Invalidate1Step, Invalidate2Step DEF InvalidateCache
<1>3. CASE UNCHANGED cacheVars
  BY <1>3, NothingHappens
<1>. QED  BY <1>1, <1>2, <1>3, CrashStep, CloseStep, LapseStep, RewriteStep DEF CacheNext

\* The caches of a process, the L2 directory and its fuses, and every invocation in
\* flight are consistent with each other, in every interleaving of the sessions with
\* the operator, failing file operations, restarts and rewritten inputs.
THEOREM CacheInvariance == CacheSpec => []CacheInv
<1>. QED  BY CacheInitially, CacheStep, PTL DEF CacheSpec

\* Nothing is served that an operator invalidated: an L2 entry that can be read was
\* stored by an L2 transaction begun after the last invalidation, unless a restart
\* forgot a fuse whose markers could not be written (invalidate_cache of both caches,
\* commit's generation check, _PersistentFuseAuthority).
THEOREM InvalidatedAreGone == CacheSpec => []InvalidatedIsGone
<1>1. CacheInv => InvalidatedIsGone
  <2>. SUFFICES ASSUME CacheInv PROVE InvalidatedIsGone
    OBVIOUS
  <2>1. ASSUME NEW k \in Keys, Readable(k)  PROVE files[k].era = era \/ lost = "forgotten"
    <3>1. fuses = {} /\ off2 = {} /\ files[k].kind = "whole"
      BY <2>1 DEF Readable, Disabled
    <3>2. lost \in {"no", "forgotten"}
      BY <3>1, L2Fields DEF L2Sound, L2States
    <3>. QED  BY <3>1, <3>2, L2Fields DEF FilesSound
  <2>2. ASSUME NEW i \in DOMAIN mem  PROVE ~mem[i].late
    BY DEF CacheInv, MemorySound, SoundEntries
  <2>. QED  BY <2>1, <2>2 DEF InvalidatedIsGone
<1>. QED  BY <1>1, CacheInvariance, PTL

\* What a cache holds under a key was computed from the content of that key; an L2
\* entry that was not records that its two caches hashed different contents
\* (Transaction.commit of both caches).
THEOREM CachedUnderTheirKeys == CacheSpec => []CachedIsOfItsKey
<1>1. CacheInv => CachedIsOfItsKey
  <2>. SUFFICES ASSUME CacheInv PROVE CachedIsOfItsKey
    OBVIOUS
  <2>1. ASSUME NEW k \in Keys, Readable(k), files[k].of # k[1]  PROVE files[k].apart
    BY <2>1, L2Fields DEF FilesSound, Readable, OfItsKey
  <2>2. ASSUME NEW i \in DOMAIN mem  PROVE mem[i].of = mem[i].key
    BY DEF CacheInv, MemorySound, SoundEntries
  <2>. QED  BY <2>1, <2>2 DEF CachedIsOfItsKey
<1>. QED  BY <1>1, CacheInvariance, PTL

=============================================================================
