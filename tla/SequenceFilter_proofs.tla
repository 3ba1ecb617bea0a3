------------------------ MODULE SequenceFilter_proofs ------------------------
(***************************************************************************)
(* What Keep returns, for sequences of every length.  The induction is by  *)
(* the smallest counterexample, because every set of naturals has one.     *)
(***************************************************************************)
EXTENDS SequenceFilter, SequencesExt, TLAPS, SequenceTheorems,
    FiniteSetTheorems, WellFoundedInduction

\* A set of naturals that is not empty has a least member.
LEMMA LeastNatural ==
    ASSUME NEW T \in SUBSET Nat, T # {}
    PROVE  \E m \in T : \A k \in T : m <= k
<1>. DEFINE R == OpToRel(<, Nat)
<1>1. IsWellFoundedOn(R, Nat)
  BY NatLessThanWellFounded
<1>2. \A x, y \in Nat : x < y => <<x, y>> \in R
  BY DEF OpToRel
<1>. HIDE DEF R
<1>3. PICK m \in T : \A k \in T : ~(<<k, m>> \in R)
  BY <1>1, WFMin
<1>4. ASSUME NEW k \in T  PROVE m <= k
  <2>1. m \in Nat /\ k \in Nat /\ ~(<<k, m>> \in R)
    BY <1>3
  <2>2. ~(k < m)
    BY <1>2, <2>1
  <2>. QED  BY <2>1, <2>2
<1>. QED  BY <1>4

\* Every member of what Keep returns is a member of the sequence and of the set.
THEOREM KeepType ==
    ASSUME NEW A, NEW s \in Seq(A), NEW S
    PROVE  Keep(s, S) \in Seq(A \cap S)
<1>. DEFINE N == Len(s)
            B == Seq(A \cap S)
            step(f, n) == IF n = 0 THEN <<>>
                          ELSE IF s[n] \in S THEN Append(f[n - 1], s[n]) ELSE f[n - 1]
            good(m) == {f \in [0..m -> B] : \A n \in 0..m : f[n] = step(f, n)}
            fails == {m \in Nat : m <= N /\ good(m) = {}}
<1>1. N \in Nat /\ \A n \in 1..N : s[n] \in A
  BY LenProperties, ElementOfSeq
<1>2. <<>> \in B /\ \A t \in B, n \in 1..N : s[n] \in S => Append(t, s[n]) \in B
  BY <1>1, EmptySeq, AppendProperties
<1>. HIDE DEF N, B
<1>3. fails = {}
  <2>1. SUFFICES ASSUME fails # {}  PROVE FALSE
    OBVIOUS
  <2>2. PICK m \in fails : \A k \in fails : m <= k
    BY <2>1, LeastNatural
  <2>3. CASE m = 0
    <3>. DEFINE f == [n \in 0..0 |-> <<>>]
    <3>1. f \in good(0)
      BY <1>2
    <3>. QED  BY <2>2, <2>3, <3>1
  <2>4. CASE m # 0
    <3>1. m - 1 \in Nat /\ m - 1 <= N /\ m \in 1..N /\ m \in Nat
      BY <1>1, <2>2, <2>4
    <3>2. PICK f \in good(m - 1) : TRUE
      <4>1. m - 1 \notin fails
        BY <2>2, <3>1
      <4>. QED  BY <3>1, <4>1
    <3>. DEFINE g == [n \in 0..m |-> IF n = m THEN step(f, m) ELSE f[n]]
    <3>3. f \in [0..(m - 1) -> B] /\ \A n \in 0..(m - 1) : f[n] = step(f, n)
      BY <3>2
    <3>4. step(f, m) \in B
      BY <1>2, <3>1, <3>3
    <3>5. g \in [0..m -> B]
      BY <3>1, <3>3, <3>4
    <3>6. ASSUME NEW n \in 0..m  PROVE g[n] = step(g, n)
      <4>1. n # 0 => g[n - 1] = f[n - 1]
        BY <3>1
      <4>2. CASE n = m
        BY <4>1, <4>2
      <4>3. CASE n # m
        <5>1. n \in 0..(m - 1) /\ g[n] = f[n]
          BY <3>1, <4>3
        <5>. QED  BY <3>3, <4>1, <5>1
      <4>. QED  BY <4>2, <4>3
    <3>7. g \in good(m)
      BY <3>5, <3>6
    <3>. QED  BY <2>2, <3>7
  <2>. QED  BY <2>3, <2>4
<1>4. PICK f \in good(N) : TRUE
  <2>1. N \notin fails
    BY <1>3
  <2>. QED  BY <1>1, <2>1
<1>5. f = [n \in 0..N |-> step(f, n)]
  BY <1>4
<1>. DEFINE kept == CHOOSE g : g = [n \in 0..N |-> step(g, n)]
<1>6. kept = [n \in 0..N |-> step(kept, n)]
  BY <1>5
<1>7. Keep(s, S) = kept[N]
  BY DEF Keep, N
<1>. HIDE DEF kept
<1>8. \A n \in 0..N : kept[n] \in B
  <2>. DEFINE bad == {n \in Nat : n <= N /\ kept[n] \notin B}
  <2>1. SUFFICES ASSUME bad # {}  PROVE FALSE
    BY <1>1
  <2>2. PICK m \in bad : \A k \in bad : m <= k
    BY <2>1, LeastNatural
  <2>3. kept[m] = step(kept, m)
    <3>1. m \in 0..N
      BY <1>1, <2>2
    <3>. QED  BY <1>6, <3>1
  <2>4. CASE m = 0
    BY <1>2, <2>2, <2>3, <2>4
  <2>5. CASE m # 0
    <3>1. m - 1 \in Nat /\ m - 1 \notin bad /\ m \in 1..N
      BY <1>1, <2>2, <2>5
    <3>2. kept[m - 1] \in B
      BY <1>1, <3>1
    <3>. QED  BY <1>2, <2>2, <2>3, <2>5, <3>1, <3>2
  <2>. QED  BY <2>4, <2>5
<1>. QED  BY <1>1, <1>7, <1>8 DEF B

\* SetToSeq lists the members of a finite set.
LEMMA SetToSeqType ==
    ASSUME NEW S, IsFiniteSet(S)
    PROVE  SetToSeq(S) \in Seq(S)
<1>1. Cardinality(S) \in Nat /\ ExistsBijection(1..Cardinality(S), S)
  BY FS_CardinalityType
<1>2. \E f \in [1..Cardinality(S) -> S] : IsInjective(f)
  BY <1>1 DEF ExistsBijection, Bijection, Injection
<1>3. SetToSeq(S) \in [1..Cardinality(S) -> S]
  BY <1>2 DEF SetToSeq
<1>. QED  BY <1>1, <1>3, SeqDef

=============================================================================
