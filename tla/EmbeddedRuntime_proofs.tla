------------------------ MODULE EmbeddedRuntime_proofs ------------------------
(***************************************************************************)
(* Proofs about EmbeddedRuntime: however the threads of a host interleave, *)
(* nobody unloads a session under a lease, a child process belongs to one  *)
(* invocation, and two owners never hold a model at the same time.  The    *)
(* inductive invariant is EmbeddedInv of EmbeddedRuntime.                  *)
(***************************************************************************)
EXTENDS EmbeddedRuntime, TLAPS, FiniteSetTheorems

\* What EmbeddedInv says of thread t and its owner.
LEMMA CallFacts ==
    ASSUME EmbeddedInv, NEW t \in Threads
    PROVE  /\ call[t] \in CallRecord /\ child[t] \in {"none"} \cup Alive
           /\ child[t] # "none" => call[t].pc \in {"child", "terminate", "kill"}
           /\ call[t].pc # "idle" =>
                /\ call[t].owner \in 1..made /\ call[t].owner \in Owners
                /\ Owner(t) \in OwnerRecord /\ OwnerSound(Owner(t))
                /\ PlaceSound(call[t].pc, Owner(t))
<1>1. /\ made \in 0..OwnerBound /\ OwnerBound \in Nat
      /\ own \in [Owners -> OwnerRecord] /\ call \in [Threads -> CallRecord]
      /\ child \in [Threads -> {"none"} \cup Alive]
  BY EmbeddedAssumption DEF EmbeddedInv, EmbeddedTypeOK
<1>2. call[t].pc # "idle" => call[t].owner \in 1..made /\ PlaceSound(call[t].pc, Owner(t))
  BY DEF EmbeddedInv
<1>3. child[t] # "none" => call[t].pc \in {"child", "terminate", "kill"}
  BY DEF EmbeddedInv
<1>4. \A o \in Owners : OwnerSound(own[o])
  BY DEF EmbeddedInv
<1>5. \A o \in 1..made : o \in Owners
  BY <1>1 DEF Owners
<1>. QED  BY <1>1, <1>2, <1>3, <1>4, <1>5 DEF Owner

\* The holders of leases are finitely many, and none when the count is zero.
LEMMA Holders ==
    ASSUME NEW o
    PROVE  /\ IsFiniteSet(LeaseHolders(o)) /\ Cardinality(LeaseHolders(o)) \in Nat
           /\ Cardinality(LeaseHolders(o)) = 0 <=> LeaseHolders(o) = {}
<1>1. LeaseHolders(o) \subseteq Threads /\ IsFiniteSet(Threads)
  BY EmbeddedAssumption DEF LeaseHolders
<1>2. IsFiniteSet(LeaseHolders(o))
  BY <1>1, FS_Subset
<1>. QED  BY <1>2, FS_CardinalityType, FS_EmptySet

\* Nobody is within a lease of an owner that counts none.
LEMMA NoLease ==
    ASSUME EmbeddedInv, NEW u \in Threads, call[u].pc \in Leased, call[u].owner \in Owners
    PROVE  own[call[u].owner].active # 0
<1>1. u \in LeaseHolders(call[u].owner)
  BY DEF LeaseHolders
<1>. QED  BY <1>1, Holders DEF EmbeddedInv

\* The owner may come to be r and the thread t to pc: what the others rely on
\* stays, and the count of leases is kept.
Allowed(t, pc, r) ==
    LET o == call[t].owner
    IN  /\ OwnerSound(r) /\ PlaceSound(pc, r)
        /\ own[o].closed => r.closed
        /\ \A u \in Threads \ {t} : call[u].owner = o /\ call[u].pc # "idle" =>
            PlaceSound(call[u].pc, r) /\ ~Exclude(pc, call[u].pc)
        /\ \/ (pc \in Leased <=> call[t].pc \in Leased) /\ r.active = own[o].active
           \/ pc \in Leased /\ call[t].pc \notin Leased /\ r.active = own[o].active + 1
           \/ pc \notin Leased /\ call[t].pc \in Leased /\ r.active = own[o].active - 1

\* Thread t comes to pc, within its call; the others stay where they are.
Moves(t, pc) ==
    /\ call' \in [Threads -> CallRecord]
    /\ call'[t].pc = pc /\ call'[t].owner = call[t].owner
    /\ \A u \in Threads \ {t} : call'[u].pc = call[u].pc /\ call'[u].owner = call[u].owner

\* The counter of leases follows the threads that come and go.
LEMMA CountKept ==
    ASSUME EmbeddedInv, NEW t \in Threads, NEW pc, NEW r \in OwnerRecord,
           call[t].owner \in Owners, Moves(t, pc), Allowed(t, pc, r),
           own' = [own EXCEPT ![call[t].owner] = r],
           NEW o \in Owners
    PROVE  own'[o].active = Cardinality(LeaseHolders(o)')
<1>1. own \in [Owners -> OwnerRecord] /\ own[o].active = Cardinality(LeaseHolders(o))
  BY DEF EmbeddedInv, EmbeddedTypeOK
<1>2. LeaseHolders(o)' = {u \in Threads : call'[u].pc \in Leased /\ call'[u].owner = o}
  BY DEF LeaseHolders
<1>3. CASE o # call[t].owner
  <2>1. LeaseHolders(o)' = LeaseHolders(o)
    BY <1>2, <1>3 DEF LeaseHolders, Moves
  <2>. QED  BY <1>1, <1>3, <2>1
<1>4. CASE o = call[t].owner
  <2>1. own'[o] = r
    BY <1>1, <1>4
  <2>2. CASE (pc \in Leased <=> call[t].pc \in Leased) /\ r.active = own[o].active
    <3>1. LeaseHolders(o)' = LeaseHolders(o)
      BY <1>2, <2>2 DEF LeaseHolders, Moves
    <3>. QED  BY <1>1, <2>1, <2>2, <3>1
  <2>3. CASE pc \in Leased /\ call[t].pc \notin Leased /\ r.active = own[o].active + 1
    <3>1. LeaseHolders(o)' = LeaseHolders(o) \cup {t} /\ t \notin LeaseHolders(o)
      BY <1>2, <1>4, <2>3 DEF LeaseHolders, Moves
    <3>. QED  BY <1>1, <2>1, <2>3, <3>1, Holders, FS_AddElement
  <2>4. CASE pc \notin Leased /\ call[t].pc \in Leased /\ r.active = own[o].active - 1
    <3>1. LeaseHolders(o)' = LeaseHolders(o) \ {t} /\ t \in LeaseHolders(o)
      BY <1>2, <1>4, <2>4 DEF LeaseHolders, Moves
    <3>. QED  BY <1>1, <2>1, <2>4, <3>1, Holders, FS_RemoveElement
  <2>. QED  BY <1>4, <2>2, <2>3, <2>4 DEF Allowed
<1>. QED  BY <1>3, <1>4

\* A step of thread t on its owner keeps the invariant when it is allowed.
LEMMA OwnerStepInv ==
    ASSUME EmbeddedInv, NEW t \in Threads, NEW pc \in Place \ {"idle"}, NEW r \in OwnerRecord,
           call[t].pc # "idle", Moves(t, pc), Allowed(t, pc, r),
           own' = [own EXCEPT ![call[t].owner] = r],
           UNCHANGED <<slot, made>>,
           child' \in [Threads -> {"none"} \cup Alive],
           \A u \in Threads \ {t} : child'[u] = child[u],
           child'[t] # "none" => pc \in {"child", "terminate", "kill"}
    PROVE  EmbeddedInv'
<1>. DEFINE k == call[t].owner
<1>1. /\ own \in [Owners -> OwnerRecord] /\ k \in 1..made /\ k \in Owners
  BY CallFacts DEF EmbeddedInv, EmbeddedTypeOK
<1>2. /\ own' \in [Owners -> OwnerRecord]
      /\ \A o \in Owners : own'[o] = IF o = k THEN r ELSE own[o]
  BY <1>1
<1>3. EmbeddedTypeOK'
  BY <1>2 DEF EmbeddedInv, EmbeddedTypeOK, Moves
<1>4. OneOwner'
  <2>1. \A o \in 1..made : o \in Owners
    BY EmbeddedAssumption DEF EmbeddedInv, EmbeddedTypeOK, Owners
  <2>2. own[k].closed => r.closed /\ ~r.loaded
    BY DEF Allowed, OwnerSound
  <2>. QED  BY <1>1, <1>2, <2>1, <2>2 DEF EmbeddedInv, OneOwner
<1>5. \A o \in Owners : OwnerSound(own'[o]) /\ own'[o].active = Cardinality(LeaseHolders(o)')
  BY <1>1, <1>2, CountKept DEF EmbeddedInv, Allowed
<1>6. ASSUME NEW u \in Threads, call'[u].pc # "idle"
      PROVE  call'[u].owner \in 1..made /\ PlaceSound(call'[u].pc, own'[call'[u].owner])
  <2>1. CASE u = t
    BY <1>1, <1>2, <2>1 DEF Moves, Allowed
  <2>2. CASE u # t
    <3>1. /\ call'[u].pc = call[u].pc /\ call'[u].owner = call[u].owner
          /\ call[u].owner \in 1..made /\ call[u].owner \in Owners
          /\ PlaceSound(call[u].pc, own[call[u].owner])
      BY <1>6, <2>2, CallFacts DEF Moves, Owner
    <3>2. call[u].owner = k => PlaceSound(call[u].pc, r)
      BY <1>6, <2>2, <3>1 DEF Allowed
    <3>. QED  BY <1>2, <3>1, <3>2
  <2>. QED  BY <2>1, <2>2
<1>7. \A u \in Threads : child'[u] # "none" => call'[u].pc \in {"child", "terminate", "kill"}
  BY CallFacts DEF Moves
<1>8. ASSUME NEW u \in Threads, NEW x \in Threads, u # x, call'[u].owner = call'[x].owner
      PROVE  ~Exclude(call'[u].pc, call'[x].pc)
  <2>1. \A y \in Threads \ {t} : call[y].owner = k => ~Exclude(pc, call[y].pc)
    BY DEF Allowed, Exclude, Closing, Holding
  <2>2. \A p, q : Exclude(p, q) <=> Exclude(q, p)
    BY DEF Exclude
  <2>3. CASE u # t /\ x # t
    BY <1>8, <2>3 DEF Moves, EmbeddedInv
  <2>4. CASE u = t \/ x = t
    BY <1>8, <2>1, <2>2, <2>4 DEF Moves
  <2>. QED  BY <2>3, <2>4
<1>. QED  BY <1>3, <1>4, <1>5, <1>6, <1>7, <1>8 DEF EmbeddedInv, Owner

-----------------------------------------------------------------------------
(* Ways to move *)

\* A caller that goes on is where it wanted to be, and nobody else moves.
LEMMA GotoMoves ==
    ASSUME EmbeddedInv, NEW t \in Threads, NEW pc \in Place,
           \/ Goto(t, pc)
           \/ NotifyAll(t, pc)
           \/ \E b \in BOOLEAN : call' = [call EXCEPT ![t].pc = pc, ![t].failed = b]
    PROVE  Moves(t, pc)
<1>1. call \in [Threads -> CallRecord] /\ call[t] \in CallRecord
  BY DEF EmbeddedInv, EmbeddedTypeOK
<1>2. CASE Goto(t, pc)
  <2>. DEFINE c == [call[t] EXCEPT !.pc = pc]
  <2>1. c \in CallRecord /\ c.pc = pc /\ c.owner = call[t].owner /\ call' = [call EXCEPT ![t] = c]
    BY <1>1, <1>2 DEF Goto, CallRecord
  <2>. HIDE DEF c
  <2>. QED  BY <1>1, <2>1 DEF Moves
<1>3. ASSUME NEW b \in BOOLEAN, call' = [call EXCEPT ![t].pc = pc, ![t].failed = b]
      PROVE  Moves(t, pc)
  <2>. DEFINE c == [call[t] EXCEPT !.pc = pc, !.failed = b]
  <2>1. c \in CallRecord /\ c.pc = pc /\ c.owner = call[t].owner
    BY <1>1 DEF CallRecord
  <2>2. call' = [call EXCEPT ![t] = c]
    BY <1>1, <1>3
  <2>. HIDE DEF c
  <2>. QED  BY <1>1, <2>1, <2>2 DEF Moves
<1>4. CASE NotifyAll(t, pc)
  <2>. DEFINE c(u) == [call[u] EXCEPT
                        !.pc = IF u = t THEN pc ELSE @,
                        !.asleep = IF call[u].owner = call[t].owner THEN FALSE ELSE @]
  <2>1. ASSUME NEW u \in Threads
        PROVE  /\ c(u) \in CallRecord /\ c(u).owner = call[u].owner
               /\ c(u).pc = IF u = t THEN pc ELSE call[u].pc
    <3>1. call[u] \in CallRecord
      BY <1>1
    <3>. DEFINE p == IF u = t THEN pc ELSE call[u].pc
                a == IF call[u].owner = call[t].owner THEN FALSE ELSE call[u].asleep
    <3>2. p \in Place /\ a \in BOOLEAN /\ c(u) = [call[u] EXCEPT !.pc = p, !.asleep = a]
      BY <3>1 DEF CallRecord
    <3>. HIDE DEF p, a, c
    <3>3. /\ [call[u] EXCEPT !.pc = p, !.asleep = a] \in CallRecord
          /\ [call[u] EXCEPT !.pc = p, !.asleep = a].owner = call[u].owner
          /\ [call[u] EXCEPT !.pc = p, !.asleep = a].pc = p
      BY <3>1, <3>2 DEF CallRecord
    <3>. QED  BY <3>2, <3>3 DEF p
  <2>2. call' = [u \in Threads |-> c(u)]
    BY <1>4 DEF NotifyAll
  <2>. HIDE DEF c
  <2>. QED  BY <2>1, <2>2 DEF Moves
<1>. QED  BY <1>2, <1>3, <1>4

\* A caller that goes to sleep, or whose token or monitor changes, stays where
\* it is.
LEMMA StaysMoves ==
    ASSUME EmbeddedInv, NEW t \in Threads, NEW x \in BOOLEAN, NEW y \in BOOLEAN,
           NEW z \in BOOLEAN,
           call' = [call EXCEPT ![t].asleep = x, ![t].token = y, ![t].monitor = z]
    PROVE  Moves(t, call[t].pc)
<1>1. call \in [Threads -> CallRecord] /\ call[t] \in CallRecord
  BY DEF EmbeddedInv, EmbeddedTypeOK
<1>. DEFINE c == [call[t] EXCEPT !.asleep = x, !.token = y, !.monitor = z]
<1>2. c \in CallRecord /\ c.pc = call[t].pc /\ c.owner = call[t].owner
  BY <1>1 DEF CallRecord
<1>3. call' = [call EXCEPT ![t] = c]
  BY <1>1
<1>. HIDE DEF c
<1>. QED  BY <1>1, <1>2, <1>3 DEF Moves

\* A step within a call that leaves the owner alone, and enters neither the lease,
\* nor the session, nor close.
LEMMA QuietInv ==
    ASSUME EmbeddedInv, NEW t \in Threads, NEW pc \in Place \ {"idle"},
           call[t].pc # "idle", Moves(t, pc), UNCHANGED <<slot, made, own>>,
           PlaceSound(pc, Owner(t)),
           pc \in Leased <=> call[t].pc \in Leased,
           pc \in Holding => call[t].pc \in Holding,
           pc \in Closing => call[t].pc \in Closing,
           child' \in [Threads -> {"none"} \cup Alive],
           \A u \in Threads \ {t} : child'[u] = child[u],
           child'[t] # "none" => pc \in {"child", "terminate", "kill"}
    PROVE  EmbeddedInv'
<1>. DEFINE r == Owner(t)
<1>1. r \in OwnerRecord /\ OwnerSound(r) /\ call[t].owner \in Owners
  BY CallFacts
<1>2. own' = [own EXCEPT ![call[t].owner] = r]
  BY <1>1 DEF EmbeddedInv, EmbeddedTypeOK, Owner
<1>3. ASSUME NEW u \in Threads \ {t}, call[u].owner = call[t].owner, call[u].pc # "idle"
      PROVE  PlaceSound(call[u].pc, r) /\ ~Exclude(pc, call[u].pc)
  <2>1. PlaceSound(call[u].pc, r)
    BY <1>3, CallFacts DEF Owner
  <2>2. ~Exclude(call[t].pc, call[u].pc)
    BY <1>3 DEF EmbeddedInv
  <2>. QED  BY <2>1, <2>2 DEF Exclude
<1>4. Allowed(t, pc, r)
  BY <1>1, <1>3 DEF Allowed, Owner
<1>. HIDE DEF r
<1>. QED  BY <1>1, <1>2, <1>4, OwnerStepInv

\* A call begins or returns.
LEMMA OutsideInv ==
    ASSUME EmbeddedInv, NEW t \in Threads, NEW c \in CallRecord,
           call' = [call EXCEPT ![t] = c],
           call[t].pc \notin Leased, c.pc \in {"idle", "lease", "close"},
           c.pc # "idle" => c.owner \in 1..made,
           UNCHANGED <<slot, made, own, child>>
    PROVE  EmbeddedInv'
<1>1. /\ call \in [Threads -> CallRecord] /\ call' \in [Threads -> CallRecord]
      /\ call'[t] = c /\ \A u \in Threads \ {t} : call'[u] = call[u]
  BY DEF EmbeddedInv, EmbeddedTypeOK
<1>2. EmbeddedTypeOK' /\ OneOwner'
  BY <1>1 DEF EmbeddedInv, EmbeddedTypeOK, OneOwner
<1>3. c.pc \notin Leased \cup Holding \cup Closing
  BY DEF Leased, Holding, Closing
<1>4. ASSUME NEW o \in Owners
      PROVE  OwnerSound(own'[o]) /\ own'[o].active = Cardinality(LeaseHolders(o)')
  <2>1. LeaseHolders(o)' = LeaseHolders(o)
    BY <1>1, <1>3 DEF LeaseHolders
  <2>. QED  BY <2>1 DEF EmbeddedInv
<1>5. ASSUME NEW u \in Threads
      PROVE  /\ call'[u].pc # "idle" =>
                call'[u].owner \in 1..made /\ PlaceSound(call'[u].pc, own[call'[u].owner])
             /\ child'[u] # "none" => call'[u].pc \in {"child", "terminate", "kill"}
  <2>1. CASE u = t
    <3>1. PlaceSound(c.pc, own[c.owner])
      BY <1>3 DEF PlaceSound
    <3>2. child[t] = "none"
      BY CallFacts DEF Leased, Holding
    <3>. QED  BY <1>1, <2>1, <3>1, <3>2
  <2>2. CASE u # t
    BY <1>1, <2>2, CallFacts DEF Owner
  <2>. QED  BY <2>1, <2>2
<1>6. ASSUME NEW u \in Threads, NEW x \in Threads, u # x, call'[u].owner = call'[x].owner
      PROVE  ~Exclude(call'[u].pc, call'[x].pc)
  <2>1. CASE u # t /\ x # t
    BY <1>1, <1>6, <2>1 DEF EmbeddedInv
  <2>2. CASE u = t \/ x = t
    BY <1>1, <1>3, <2>2 DEF Exclude
  <2>. QED  BY <2>1, <2>2
<1>. QED  BY <1>2, <1>4, <1>5, <1>6 DEF EmbeddedInv, Owner

-----------------------------------------------------------------------------
(* Calls and their monitors *)

\* A new owner is configured only when all before it are closed.
LEMMA ConfigureInv ==
    ASSUME EmbeddedInv, Configure
    PROVE  EmbeddedInv'
<1>1. /\ made' = made + 1 /\ slot' = made + 1 /\ slot = None /\ made < OwnerBound
      /\ UNCHANGED <<own, call, child>>
  BY DEF Configure
<1>2. made \in Nat /\ OwnerBound \in Nat
  BY EmbeddedAssumption DEF EmbeddedInv, EmbeddedTypeOK
<1>3. EmbeddedTypeOK'
  BY <1>1, <1>2 DEF EmbeddedInv, EmbeddedTypeOK
<1>4. OneOwner'
  <2>1. \A o \in 1..(made + 1) : o # made + 1 => o \in 1..made /\ o # None
    BY <1>2 DEF None
  <2>. QED  BY <1>1, <2>1 DEF EmbeddedInv, OneOwner
<1>5. \A o \in 1..made : o \in 1..made'
  BY <1>1, <1>2
<1>6. \A o : LeaseHolders(o)' = LeaseHolders(o)
  BY <1>1 DEF LeaseHolders
<1>. QED  BY <1>1, <1>3, <1>4, <1>5, <1>6 DEF EmbeddedInv, Owner

\* The record of a call that starts.
LEMMA NewCall ==
    ASSUME NEW pc \in {"lease", "close"}, NEW o \in 0..OwnerBound
    PROVE  /\ NoCall \in CallRecord /\ NoCall.pc = "idle"
           /\ LET c == [NoCall EXCEPT !.pc = pc, !.owner = o]
              IN  c \in CallRecord /\ c.pc = pc /\ c.owner = o
           /\ LET c == [NoCall EXCEPT !.pc = pc, !.owner = o, !.teardown = TRUE]
              IN  c \in CallRecord /\ c.pc = pc /\ c.owner = o
<1>1. pc \in Place /\ "idle" \in Place
  BY DEF Place
<1>2. None \in 0..OwnerBound
  BY EmbeddedAssumption DEF None
<1>3. NoCall \in CallRecord /\ NoCall.pc = "idle"
  BY <1>1, <1>2 DEF CallRecord, NoCall
<1>. QED  BY <1>1, <1>3 DEF CallRecord

\* A call of generate or of teardown starts, or returns.
LEMMA CallInv ==
    ASSUME EmbeddedInv, NEW t \in Threads,
           (\E o \in Owners : Generate(t, o)) \/ Teardown(t) \/ Done(t)
    PROVE  EmbeddedInv'
<1>1. OwnerBound \in Nat /\ made \in 0..OwnerBound /\ slot \in 0..made
      /\ \A o \in 1..made : o \in 0..OwnerBound
  BY EmbeddedAssumption DEF EmbeddedInv, EmbeddedTypeOK
<1>2. /\ call[t].pc \in {"idle", "done"} /\ UNCHANGED <<slot, made, own, child>>
      /\ call[t].pc \notin Leased
  BY DEF Generate, Teardown, Done, At, Leased, Holding
<1>3. ASSUME NEW o \in Owners, Generate(t, o)  PROVE EmbeddedInv'
  <2>1. o \in 1..made
    <3>1. o <= made
      BY <1>3 DEF Generate
    <3>2. o \in Nat /\ o >= 1
      BY <1>1 DEF Owners
    <3>. QED  BY <1>1, <3>1, <3>2
  <2>2. CASE UNCHANGED call
    <3>1. \A i : LeaseHolders(i)' = LeaseHolders(i)
      BY <2>2 DEF LeaseHolders
    <3>. QED  BY <1>2, <2>2, <3>1 DEF EmbeddedInv, EmbeddedTypeOK, OneOwner, Owner
  <2>3. CASE call' = [call EXCEPT ![t] = [NoCall EXCEPT !.pc = "lease", !.owner = o]]
    <3>. DEFINE c == [NoCall EXCEPT !.pc = "lease", !.owner = o]
    <3>1. c \in CallRecord /\ c.pc = "lease" /\ c.owner = o
      BY <1>1, <2>1, NewCall
    <3>2. call' = [call EXCEPT ![t] = c]
      BY <2>3
    <3>. HIDE DEF c
    <3>. QED  BY <1>2, <2>1, <3>1, <3>2, OutsideInv
  <2>. QED  BY <1>3, <2>2, <2>3 DEF Generate
<1>4. CASE Teardown(t)
  <2>. DEFINE c == [NoCall EXCEPT !.pc = "close", !.owner = slot, !.teardown = TRUE]
  <2>1. slot \in 1..made
    BY <1>1, <1>4 DEF Teardown, None
  <2>2. c \in CallRecord /\ c.pc = "close" /\ c.owner = slot
    BY <1>1, <2>1, NewCall
  <2>3. call' = [call EXCEPT ![t] = c]
    BY <1>4 DEF Teardown
  <2>. HIDE DEF c
  <2>. QED  BY <1>2, <2>1, <2>2, <2>3, OutsideInv
<1>5. CASE Done(t)
  <2>1. 0 \in 0..OwnerBound
    BY <1>1
  <2>2. NoCall \in CallRecord /\ NoCall.pc = "idle"
    BY <2>1, NewCall
  <2>. QED  BY <1>2, <1>5, <2>2, OutsideInv DEF Done
<1>. QED  BY <1>3, <1>4, <1>5

\* The host cancels a call, or its monitor fails.
LEMMA MonitorInv ==
    ASSUME EmbeddedInv, NEW t \in Threads, HostCancels(t) \/ MonitorFails(t)
    PROVE  EmbeddedInv'
<1>1. UNCHANGED <<slot, made, own, child>> /\ call[t].pc # "idle"
  BY DEF HostCancels, MonitorFails, Watched, Leased, Holding
<1>2. call \in [Threads -> CallRecord] /\ call[t] \in CallRecord
      /\ child \in [Threads -> {"none"} \cup Alive]
  BY DEF EmbeddedInv, EmbeddedTypeOK
<1>3. Moves(t, call[t].pc)
  <2>1. \E y, z \in BOOLEAN : call' = [call EXCEPT ![t].asleep = call[t].asleep,
                                                   ![t].token = y, ![t].monitor = z]
    <3>1. /\ call[t].token \in BOOLEAN /\ call[t].monitor \in BOOLEAN
          /\ call[t] = [call[t] EXCEPT !.asleep = call[t].asleep]
      BY <1>2 DEF CallRecord
    <3>2. CASE HostCancels(t)
      <4>1. call' = [call EXCEPT ![t].asleep = call[t].asleep, ![t].token = TRUE,
                                 ![t].monitor = call[t].monitor]
        BY <1>2, <3>2 DEF HostCancels, CallRecord
      <4>. QED  BY <3>1, <4>1
    <3>3. CASE MonitorFails(t)
      <4>1. PICK cancels \in BOOLEAN :
                call' = [call EXCEPT ![t].monitor = FALSE, ![t].token = @ \/ cancels]
        BY <3>3 DEF MonitorFails
      <4>. DEFINE y == call[t].token \/ cancels
      <4>2. y \in BOOLEAN /\ call' = [call EXCEPT ![t].monitor = FALSE, ![t].token = y]
        BY <4>1
      <4>. HIDE DEF y
      <4>3. call' = [call EXCEPT ![t].asleep = call[t].asleep, ![t].token = y,
                                 ![t].monitor = FALSE]
        BY <1>2, <4>2 DEF CallRecord
      <4>. QED  BY <4>2, <4>3
    <3>. QED  BY <3>2, <3>3
  <2>2. call[t].asleep \in BOOLEAN
    BY <1>2 DEF CallRecord
  <2>. QED  BY <2>1, <2>2, StaysMoves
<1>4. call[t].pc \in Place \ {"idle"} /\ PlaceSound(call[t].pc, Owner(t))
  BY <1>1, <1>2, CallFacts DEF CallRecord
<1>5. /\ child' \in [Threads -> {"none"} \cup Alive]
      /\ child'[t] # "none" => call[t].pc \in {"child", "terminate", "kill"}
  BY <1>1, <1>2, CallFacts
<1>. QED  BY <1>1, <1>3, <1>4, <1>5, QuietInv

-----------------------------------------------------------------------------
(* The child process *)

\* Steps within the session's execution lock.
LEMMA ChildInv ==
    ASSUME EmbeddedInv, NEW t \in Threads,
           StartChild(t) \/ PollChild(t) \/ CancelProcess(t) \/ KillProcess(t)
    PROVE  EmbeddedInv'
<1>1. UNCHANGED <<slot, made, own>> /\ call[t].pc \in {"adapter", "child", "terminate", "kill"}
  BY DEF StartChild, PollChild, CancelProcess, KillProcess, At
<1>2. child \in [Threads -> {"none"} \cup Alive]
  BY DEF EmbeddedInv, EmbeddedTypeOK
<1>3. PlaceSound(call[t].pc, Owner(t)) /\ call[t].pc # "idle"
      /\ (child[t] # "none" => call[t].pc # "adapter")
  BY <1>1, CallFacts
<1>4. PICK pc \in {"finish", "child", "terminate", "kill"} :
        \/ Goto(t, pc)
        \/ \E b \in BOOLEAN : call' = [call EXCEPT ![t].pc = pc, ![t].failed = b]
  BY DEF StartChild, PollChild, CancelProcess, KillProcess, Finishes, InvocationRejected
<1>5. pc \in Place \ {"idle"} /\ pc \in Holding /\ pc \in Leased /\ pc \notin Closing
      /\ call[t].pc \in Holding /\ call[t].pc \in Leased
  BY <1>1 DEF Place, Holding, Leased, Closing
<1>6. Moves(t, pc)
  BY <1>4, <1>5, GotoMoves
<1>7. PlaceSound(pc, Owner(t))
  BY <1>1, <1>3, <1>4 DEF PlaceSound, Holding, Leased, Closing
<1>8. /\ child' \in [Threads -> {"none"} \cup Alive]
      /\ \A u \in Threads \ {t} : child'[u] = child[u]
  BY <1>2 DEF StartChild, PollChild, CancelProcess, KillProcess, Alive
<1>9. child'[t] # "none" => pc \in {"child", "terminate", "kill"}
  <2>1. call'[t].pc = pc
    BY <1>6 DEF Moves
  <2>2. call \in [Threads -> CallRecord] /\ call[t] \in CallRecord
    BY DEF EmbeddedInv, EmbeddedTypeOK
  <2>3. \A p \in Place, b \in BOOLEAN :
            /\ [call EXCEPT ![t].pc = p][t].pc = p
            /\ [call EXCEPT ![t].pc = p, ![t].failed = b][t].pc = p
    BY <2>2 DEF CallRecord
  <2>4. \A p \in {"finish", "child", "terminate", "kill"} : p \in Place
    BY DEF Place, Leased, Holding
  <2>5. CASE StartChild(t)
    <3>1. child[t] = "none"
      BY <1>3, <2>5 DEF StartChild, At
    <3>. QED  BY <1>2, <2>1, <2>3, <2>4, <2>5, <3>1 DEF StartChild, Goto
  <2>6. CASE PollChild(t)
    BY <1>2, <2>1, <2>3, <2>4, <2>6 DEF PollChild, Goto
  <2>7. CASE CancelProcess(t)
    BY <1>2, <2>1, <2>3, <2>4, <2>7 DEF CancelProcess, Goto
  <2>8. CASE KillProcess(t)
    BY <1>2, <2>8 DEF KillProcess, Finishes
  <2>. QED  BY <2>5, <2>6, <2>7, <2>8
<1>. QED  BY <1>1, <1>3, <1>5, <1>6, <1>7, <1>8, <1>9, QuietInv

\* A child exits.
LEMMA ChildExitsInv ==
    ASSUME EmbeddedInv, NEW t \in Threads, ChildExits(t)
    PROVE  EmbeddedInv'
<1>1. UNCHANGED <<slot, made, own, call>> /\ child' = [child EXCEPT ![t] = "none"]
  BY DEF ChildExits
<1>2. EmbeddedTypeOK' /\ OneOwner'
  BY <1>1 DEF EmbeddedInv, EmbeddedTypeOK, OneOwner
<1>3. \A u \in Threads : child'[u] # "none" => child[u] # "none"
  BY <1>1 DEF EmbeddedInv, EmbeddedTypeOK
<1>4. \A o : LeaseHolders(o)' = LeaseHolders(o)
  BY <1>1 DEF LeaseHolders
<1>. QED  BY <1>1, <1>2, <1>3, <1>4 DEF EmbeddedInv, Owner

-----------------------------------------------------------------------------
(* The lease and the session *)

\* What the other callers of the same owner rely on, seen from t.
LEMMA Others ==
    ASSUME EmbeddedInv, NEW t \in Threads, call[t].pc # "idle",
           NEW u \in Threads \ {t}, call[u].owner = call[t].owner, call[u].pc # "idle"
    PROVE  /\ PlaceSound(call[u].pc, Owner(t)) /\ ~Exclude(call[t].pc, call[u].pc)
           /\ call[u].pc \in Leased => Owner(t).active # 0
           /\ call[u].pc \in Place
<1>1. PlaceSound(call[u].pc, Owner(t)) /\ call[u].owner \in Owners
  BY CallFacts DEF Owner
<1>2. call[u].pc \in Leased => Owner(t).active # 0
  BY <1>1, NoLease DEF Owner
<1>. QED  BY <1>1, <1>2, CallFacts DEF EmbeddedInv, CallRecord

\* A step on the owner that touches no child process; t has none.
LEMMA OnOwnerInv ==
    ASSUME EmbeddedInv, NEW t \in Threads, NEW pc \in Place \ {"idle"}, NEW r \in OwnerRecord,
           call[t].pc # "idle", Goto(t, pc) \/ NotifyAll(t, pc), SetOwner(t, r),
           Allowed(t, pc, r), UNCHANGED <<slot, made, child>>,
           call[t].pc \notin {"child", "terminate", "kill"}
    PROVE  EmbeddedInv'
<1>1. Moves(t, pc)
  BY GotoMoves
<1>2. own' = [own EXCEPT ![call[t].owner] = r]
  BY DEF SetOwner
<1>3. child' \in [Threads -> {"none"} \cup Alive] /\ child'[t] = "none"
  BY CallFacts DEF EmbeddedInv, EmbeddedTypeOK
<1>. QED  BY <1>1, <1>2, <1>3, OwnerStepInv

\* The same where the owner stays as it is.
LEMMA OffOwnerInv ==
    ASSUME EmbeddedInv, NEW t \in Threads, NEW pc \in Place \ {"idle"},
           call[t].pc # "idle", Goto(t, pc), UNCHANGED <<slot, made, own, child>>,
           PlaceSound(pc, Owner(t)),
           pc \in Leased <=> call[t].pc \in Leased,
           pc \in Holding => call[t].pc \in Holding,
           pc \in Closing => call[t].pc \in Closing,
           call[t].pc \notin {"child", "terminate", "kill"}
    PROVE  EmbeddedInv'
<1>1. Moves(t, pc)
  BY GotoMoves
<1>2. child' \in [Threads -> {"none"} \cup Alive] /\ child'[t] = "none"
  BY CallFacts DEF EmbeddedInv, EmbeddedTypeOK
<1>. QED  BY <1>1, <1>2, QuietInv

\* The first lease loads the session; a lease of an owner that closes is refused.
LEMMA LeaseInv ==
    ASSUME EmbeddedInv, NEW t \in Threads, Lease(t)
    PROVE  EmbeddedInv'
<1>1. call[t].pc = "lease" /\ UNCHANGED <<slot, made, child>>
  BY DEF Lease, At
<1>. DEFINE o == Owner(t)
<1>2. /\ o \in OwnerRecord /\ OwnerSound(o) /\ PlaceSound("lease", o)
      /\ call[t].pc \notin Leased \cup Holding \cup Closing
  BY <1>1, CallFacts DEF Leased, Holding, Closing
<1>3. ASSUME NEW pc \in {"done", "stop"}, Goto(t, pc), UNCHANGED own
      PROVE  EmbeddedInv'
  <2>1. pc \in Place \ {"idle"} /\ pc \notin Leased \cup Holding \cup Closing
    BY DEF Place, Leased, Holding, Closing
  <2>2. PlaceSound(pc, Owner(t))
    BY <2>1 DEF PlaceSound, Closing
  <2>. QED  BY <1>1, <1>2, <1>3, <2>1, <2>2, OffOwnerInv
<1>4. ASSUME ~Refuses(o), Goto(t, "acquire"),
             SetOwner(t, [Loaded(o) EXCEPT !.active = @ + 1])
      PROVE  EmbeddedInv'
  <2>. DEFINE l == Loaded(o)
              n == l.active + 1
              r == [l EXCEPT !.active = n]
  <2>1. /\ l \in OwnerRecord /\ l.loaded /\ l.active = o.active /\ l.lock = o.lock
        /\ l.closed = o.closed /\ l.closing = o.closing
        /\ o.loaded => l.session = o.session
        /\ ~o.loaded => l.session = "ready"
    BY <1>2 DEF Loaded, Transition, OwnerRecord, SessionState
  <2>2. SetOwner(t, r)
    BY <1>4
  <2>. HIDE DEF l
  <2>3. n \in Nat /\ n = o.active + 1
    BY <2>1 DEF OwnerRecord
  <2>. HIDE DEF n
  <2>4. /\ r \in OwnerRecord /\ r.loaded /\ r.active = o.active + 1 /\ r.lock = o.lock
        /\ r.closed = o.closed /\ r.closing = o.closing
        /\ o.loaded => r.session = o.session
        /\ ~o.loaded => r.session = "ready"
    BY <2>1, <2>3 DEF OwnerRecord
  <2>. HIDE DEF r
  <2>5. ~o.closed /\ ~o.closing
    BY <1>4 DEF Refuses
  <2>6. Usable(r)
    BY <1>2, <2>4, <2>5 DEF OwnerSound, Usable
  <2>7. OwnerSound(r) /\ PlaceSound("acquire", r)
    BY <2>4, <2>5, <2>6 DEF OwnerSound, PlaceSound, Holding, Closing
  <2>8. ASSUME NEW u \in Threads \ {t}, call[u].owner = call[t].owner, call[u].pc # "idle"
        PROVE  PlaceSound(call[u].pc, r) /\ ~Exclude("acquire", call[u].pc)
    <3>1. PlaceSound(call[u].pc, o) /\ call[u].pc \in Place
      BY <1>1, <2>8, Others
    <3>2. call[u].pc \notin Closing /\ call[u].pc # "reset"
      BY <2>5, <3>1 DEF PlaceSound
    <3>3. PlaceSound(call[u].pc, r)
      BY <2>4, <2>6, <3>1, <3>2 DEF PlaceSound, Closing
    <3>. QED  BY <3>3 DEF Exclude, Holding, Closing
  <2>9. Allowed(t, "acquire", r)
    BY <1>2, <2>4, <2>5, <2>7, <2>8 DEF Allowed, Owner, Leased
  <2>10. "acquire" \in Place \ {"idle"}
    BY DEF Place, Leased
  <2>. QED  BY <1>1, <1>4, <2>2, <2>4, <2>9, <2>10, OnOwnerInv
<1>. QED  BY <1>3, <1>4 DEF Lease

\* A step of a caller within its lease that changes what is listed here, and
\* leaves the owner loaded and not closed.
LEMMA WithinLease ==
    ASSUME EmbeddedInv, NEW t \in Threads, call[t].pc \in Leased, NEW r \in OwnerRecord,
           NEW pc \in Place,
           r.loaded = Owner(t).loaded, r.closed = Owner(t).closed,
           r.closing = Owner(t).closing, Usable(r),
           \/ r.active = Owner(t).active /\ pc \in Leased
           \/ r.active = Owner(t).active - 1 /\ pc \notin Leased \cup Closing \cup {"reset"},
           pc \in Holding => r.lock,
           \/ r.lock = Owner(t).lock /\ (pc \in Holding => call[t].pc \in Holding)
           \/ ~Owner(t).lock
           \/ call[t].pc \in Holding /\ pc \notin Holding
    PROVE  Allowed(t, pc, r)
<1>. DEFINE o == Owner(t)
<1>1. /\ call[t].pc # "idle" /\ call[t].pc # "reset" /\ call[t].pc \notin Closing
      /\ pc \in Leased => pc \notin Closing /\ pc # "reset"
  BY DEF Leased, Holding, Closing
<1>2. /\ o \in OwnerRecord /\ OwnerSound(o) /\ PlaceSound(call[t].pc, o)
      /\ call[t].owner \in Owners
  BY <1>1, CallFacts
<1>3. o.active # 0 /\ o.loaded
  BY <1>2, NoLease DEF Owner, PlaceSound
<1>4. OwnerSound(r)
  BY <1>2, <1>3 DEF OwnerSound
<1>5. PlaceSound(pc, r)
  BY <1>1, <1>3 DEF PlaceSound, Closing
<1>6. ASSUME NEW u \in Threads \ {t}, call[u].owner = call[t].owner, call[u].pc # "idle"
      PROVE  PlaceSound(call[u].pc, r) /\ ~Exclude(pc, call[u].pc)
  <2>1. PlaceSound(call[u].pc, o) /\ ~Exclude(call[t].pc, call[u].pc) /\ call[u].pc \in Place
    BY <1>1, <1>6, Others
  <2>2. call[u].pc \notin {"unload", "unloading", "closed"}
    BY <1>3, <2>1 DEF PlaceSound
  <2>3. call[u].pc \in Holding => r.lock /\ pc \notin Holding
    BY <2>1 DEF PlaceSound, Exclude
  <2>4. PlaceSound(call[u].pc, r)
    BY <1>3, <2>1, <2>2, <2>3 DEF PlaceSound, Closing
  <2>5. ~Exclude(pc, call[u].pc)
    BY <1>1, <2>3 DEF Exclude
  <2>. QED  BY <2>4, <2>5
<1>. QED  BY <1>4, <1>5, <1>6 DEF Allowed, Owner

\* The caller takes the session's lock, or leaves without it.
LEMMA AcquireInv ==
    ASSUME EmbeddedInv, NEW t \in Threads, Acquire(t)
    PROVE  EmbeddedInv'
<1>1. /\ call[t].pc = "acquire" /\ UNCHANGED <<slot, made, child>>
      /\ call[t].pc \in Leased /\ call[t].pc # "idle"
  BY DEF Acquire, At, Leased
<1>2. Owner(t) \in OwnerRecord /\ PlaceSound("acquire", Owner(t))
  BY <1>1, CallFacts
<1>3. CASE Goto(t, "release") /\ UNCHANGED own
  <2>1. "release" \in Place \ {"idle"} /\ "release" \in Leased /\ "release" \notin Holding \cup Closing
    BY DEF Place, Leased, Holding, Closing
  <2>2. PlaceSound("release", Owner(t))
    BY <1>2, <2>1 DEF PlaceSound, Leased
  <2>. QED  BY <1>1, <1>3, <2>1, <2>2, OffOwnerInv
<1>4. ASSUME ~Owner(t).lock, Goto(t, "adapter"),
             SetOwner(t, [Transition(Owner(t), "running") EXCEPT !.lock = TRUE])
      PROVE  EmbeddedInv'
  <2>. DEFINE r == [Transition(Owner(t), "running") EXCEPT !.lock = TRUE]
  <2>1. /\ r \in OwnerRecord /\ r.loaded = Owner(t).loaded /\ r.closed = Owner(t).closed
        /\ r.closing = Owner(t).closing /\ r.active = Owner(t).active
        /\ r.session = "running" /\ r.lock
    BY <1>2 DEF Transition, OwnerRecord, SessionState
  <2>2. SetOwner(t, r)
    BY <1>4
  <2>. HIDE DEF r
  <2>3. "adapter" \in Place \ {"idle"} /\ "adapter" \in Leased /\ Usable(r)
    BY <2>1 DEF Place, Leased, Holding, Usable
  <2>4. Allowed(t, "adapter", r)
    BY <1>1, <1>4, <2>1, <2>3, WithinLease
  <2>. QED  BY <1>1, <1>4, <2>1, <2>2, <2>3, <2>4, OnOwnerInv
<1>. QED  BY <1>3, <1>4 DEF Acquire

\* The invocation ends and gives the lock back.
LEMMA FinishInv ==
    ASSUME EmbeddedInv, NEW t \in Threads, FinishInvocation(t)
    PROVE  EmbeddedInv'
<1>1. /\ call[t].pc = "finish" /\ UNCHANGED <<slot, made, child>> /\ Goto(t, "release")
      /\ call[t].pc \in Leased /\ call[t].pc \in Holding /\ call[t].pc # "idle"
  BY DEF FinishInvocation, At, Leased, Holding
<1>2. Owner(t) \in OwnerRecord
  BY <1>1, CallFacts
<1>. DEFINE s == IF call[t].failed THEN "failed" ELSE "ready"
            r == [Transition(Owner(t), s) EXCEPT !.lock = FALSE]
<1>3. s \in {"failed", "ready"} /\ SetOwner(t, r)
  BY DEF FinishInvocation
<1>. HIDE DEF s
<1>4. /\ r \in OwnerRecord /\ r.loaded = Owner(t).loaded /\ r.closed = Owner(t).closed
      /\ r.closing = Owner(t).closing /\ r.active = Owner(t).active /\ r.session = s
  BY <1>2, <1>3 DEF Transition, OwnerRecord, SessionState
<1>. HIDE DEF r
<1>5. "release" \in Place \ {"idle"} /\ "release" \in Leased /\ "release" \notin Holding /\ Usable(r)
  BY <1>3, <1>4 DEF Place, Leased, Holding, Usable
<1>6. Allowed(t, "release", r)
  BY <1>1, <1>4, <1>5, WithinLease
<1>. QED  BY <1>1, <1>3, <1>4, <1>5, <1>6, OnOwnerInv

\* The lease is given back.
LEMMA ReleaseInv ==
    ASSUME EmbeddedInv, NEW t \in Threads, Release(t)
    PROVE  EmbeddedInv'
<1>1. /\ call[t].pc = "release" /\ UNCHANGED <<slot, made, child>> /\ NotifyAll(t, "stop")
      /\ call[t].pc \in Leased /\ call[t].pc # "idle" /\ call[t].pc \notin Holding
  BY DEF Release, At, Leased, Holding
<1>2. /\ Owner(t) \in OwnerRecord /\ PlaceSound("release", Owner(t)) /\ call[t].owner \in Owners
  BY <1>1, CallFacts
<1>. DEFINE n == Owner(t).active - 1
            r == [Owner(t) EXCEPT !.active = n]
<1>3. n \in Nat
  <2>1. Owner(t).active # 0
    BY <1>1, <1>2, NoLease DEF Owner
  <2>. QED  BY <1>2, <2>1 DEF OwnerRecord
<1>4. SetOwner(t, r) /\ n = Owner(t).active - 1
  BY DEF Release
<1>. HIDE DEF n
<1>5. /\ r \in OwnerRecord /\ r.loaded = Owner(t).loaded /\ r.closed = Owner(t).closed
      /\ r.closing = Owner(t).closing /\ r.active = n /\ r.session = Owner(t).session
      /\ r.lock = Owner(t).lock
  BY <1>2, <1>3 DEF OwnerRecord
<1>. HIDE DEF r
<1>6. /\ "stop" \in Place \ {"idle"} /\ "stop" \notin Leased \cup Holding \cup Closing /\ Usable(r)
  BY <1>2, <1>5 DEF Place, Leased, Holding, Closing, Usable, PlaceSound
<1>7. Allowed(t, "stop", r)
  BY <1>1, <1>4, <1>5, <1>6, WithinLease
<1>. QED  BY <1>1, <1>4, <1>5, <1>6, <1>7, OnOwnerInv

-----------------------------------------------------------------------------
(* Close *)

\* The monitor's verdict: the call returns, or marks its owner unsafe and closes it.
LEMMA StopInv ==
    ASSUME EmbeddedInv, NEW t \in Threads, Stop(t)
    PROVE  EmbeddedInv'
<1>1. /\ call[t].pc = "stop" /\ UNCHANGED <<slot, made, child>> /\ call[t].pc # "idle"
      /\ call[t].pc \notin Leased \cup Holding \cup Closing
  BY DEF Stop, At, Leased, Holding, Closing
<1>2. Owner(t) \in OwnerRecord /\ OwnerSound(Owner(t))
  BY <1>1, CallFacts
<1>3. CASE call' = [call EXCEPT ![t] = NoCall] /\ UNCHANGED own
  <2>1. 0 \in 0..OwnerBound
    BY EmbeddedAssumption
  <2>2. NoCall \in CallRecord /\ NoCall.pc = "idle"
    BY <2>1, NewCall
  <2>. QED  BY <1>1, <1>3, <2>2, OutsideInv
<1>4. ASSUME Goto(t, "close"), SetOwner(t, [Owner(t) EXCEPT !.unsafe = @ \/ ~Owner(t).closed])
      PROVE  EmbeddedInv'
  <2>. DEFINE b == Owner(t).unsafe \/ ~Owner(t).closed
              r == [Owner(t) EXCEPT !.unsafe = b]
  <2>1. b \in BOOLEAN /\ SetOwner(t, r)
    BY <1>4
  <2>. HIDE DEF b
  <2>2. /\ r \in OwnerRecord /\ r.loaded = Owner(t).loaded /\ r.closed = Owner(t).closed
        /\ r.closing = Owner(t).closing /\ r.active = Owner(t).active
        /\ r.session = Owner(t).session /\ r.lock = Owner(t).lock
    BY <1>2, <2>1 DEF OwnerRecord
  <2>. HIDE DEF r
  <2>3. "close" \in Place \ {"idle"} /\ "close" \notin Leased \cup Holding \cup Closing
    BY DEF Place, Leased, Holding, Closing
  <2>4. \A pc : PlaceSound(pc, Owner(t)) => PlaceSound(pc, r)
    BY <2>2 DEF PlaceSound, Usable
  <2>5. OwnerSound(r) /\ PlaceSound("close", r)
    BY <1>2, <2>2, <2>3 DEF OwnerSound, PlaceSound, Usable, Closing
  <2>6. ASSUME NEW u \in Threads \ {t}, call[u].owner = call[t].owner, call[u].pc # "idle"
        PROVE  PlaceSound(call[u].pc, r) /\ ~Exclude("close", call[u].pc)
    BY <1>1, <2>3, <2>4, <2>6, Others DEF Exclude
  <2>7. Allowed(t, "close", r)
    BY <1>1, <2>2, <2>3, <2>5, <2>6 DEF Allowed, Owner
  <2>. QED  BY <1>1, <1>4, <2>1, <2>2, <2>3, <2>7, OnOwnerInv
<1>. QED  BY <1>3, <1>4 DEF Stop

\* A thread that goes to sleep.
LEMMA SleepInv ==
    ASSUME EmbeddedInv, NEW t \in Threads, call[t].pc \in {"close", "drain"},
           call' = [call EXCEPT ![t].asleep = TRUE], UNCHANGED <<slot, made, own, child>>
    PROVE  EmbeddedInv'
<1>1. call \in [Threads -> CallRecord] /\ call[t] \in CallRecord
      /\ child \in [Threads -> {"none"} \cup Alive]
  BY DEF EmbeddedInv, EmbeddedTypeOK
<1>. DEFINE c == [call[t] EXCEPT !.asleep = TRUE]
<1>2. c \in CallRecord /\ c.pc = call[t].pc /\ c.owner = call[t].owner
      /\ call' = [call EXCEPT ![t] = c]
  BY <1>1 DEF CallRecord
<1>. HIDE DEF c
<1>3. Moves(t, call[t].pc)
  BY <1>1, <1>2 DEF Moves
<1>4. call[t].pc \in Place \ {"idle"} /\ PlaceSound(call[t].pc, Owner(t)) /\ child[t] = "none"
  BY CallFacts DEF Place, Closing
<1>. QED  BY <1>1, <1>3, <1>4, QuietInv

\* The first closer goes on, the others sleep, and who comes late returns.
LEMMA CloseInv ==
    ASSUME EmbeddedInv, NEW t \in Threads, Close(t)
    PROVE  EmbeddedInv'
<1>1. /\ call[t].pc = "close" /\ UNCHANGED <<slot, made, child>> /\ call[t].pc # "idle"
      /\ call[t].pc \notin Leased \cup Holding \cup Closing
  BY DEF Close, At, Leased, Holding, Closing
<1>2. Owner(t) \in OwnerRecord /\ OwnerSound(Owner(t))
  BY <1>1, CallFacts
<1>3. ASSUME Owner(t).closed, Goto(t, Returns(t, FALSE)), UNCHANGED own
      PROVE  EmbeddedInv'
  <2>. DEFINE pc == Returns(t, FALSE)
  <2>1. pc \in {"reset", "done"}
    BY DEF Returns
  <2>. HIDE DEF pc
  <2>2. pc \in Place \ {"idle"} /\ pc \notin Leased \cup Holding \cup Closing
    BY <2>1 DEF Place, Leased, Holding, Closing
  <2>3. PlaceSound(pc, Owner(t))
    BY <1>3, <2>1, <2>2 DEF PlaceSound, Closing
  <2>. QED  BY <1>1, <1>3, <2>2, <2>3, OffOwnerInv DEF pc
<1>4. CASE call' = [call EXCEPT ![t].asleep = TRUE] /\ UNCHANGED own
  BY <1>1, <1>4, SleepInv
<1>5. ASSUME ~Owner(t).closed, ~Owner(t).closing, Goto(t, "drain"),
             SetOwner(t, [Owner(t) EXCEPT !.closing = TRUE])
      PROVE  EmbeddedInv'
  <2>. DEFINE r == [Owner(t) EXCEPT !.closing = TRUE]
  <2>1. /\ r \in OwnerRecord /\ r.loaded = Owner(t).loaded /\ r.closed = Owner(t).closed
        /\ r.closing /\ r.active = Owner(t).active
        /\ r.session = Owner(t).session /\ r.lock = Owner(t).lock
    BY <1>2 DEF OwnerRecord
  <2>2. SetOwner(t, r)
    BY <1>5
  <2>. HIDE DEF r
  <2>3. "drain" \in Place \ {"idle"} /\ "drain" \notin Leased \cup Holding
    BY DEF Place, Leased, Holding, Closing
  <2>4. OwnerSound(r) /\ PlaceSound("drain", r)
    BY <1>2, <1>5, <2>1, <2>3 DEF OwnerSound, PlaceSound, Usable
  <2>5. ASSUME NEW u \in Threads \ {t}, call[u].owner = call[t].owner, call[u].pc # "idle"
        PROVE  PlaceSound(call[u].pc, r) /\ ~Exclude("drain", call[u].pc)
    <3>1. PlaceSound(call[u].pc, Owner(t))
      BY <1>1, <2>5, Others
    <3>2. call[u].pc \notin Closing
      BY <1>5, <3>1 DEF PlaceSound
    <3>3. PlaceSound(call[u].pc, r)
      BY <2>1, <3>1, <3>2 DEF PlaceSound, Usable, Closing
    <3>. QED  BY <2>3, <3>2, <3>3 DEF Exclude
  <2>6. Allowed(t, "drain", r)
    BY <1>1, <1>5, <2>1, <2>3, <2>4, <2>5 DEF Allowed, Owner
  <2>. QED  BY <1>1, <1>5, <2>1, <2>2, <2>3, <2>6, OnOwnerInv
<1>. QED  BY <1>3, <1>4, <1>5 DEF Close

\* The closer waits for the leases.
LEMMA DrainInv ==
    ASSUME EmbeddedInv, NEW t \in Threads, Drain(t)
    PROVE  EmbeddedInv'
<1>1. /\ call[t].pc = "drain" /\ UNCHANGED <<slot, made, own, child>> /\ call[t].pc # "idle"
  BY DEF Drain, At
<1>2. Owner(t) \in OwnerRecord /\ PlaceSound("drain", Owner(t))
  BY <1>1, CallFacts
<1>3. CASE call' = [call EXCEPT ![t].asleep = TRUE]
  BY <1>1, <1>3, SleepInv
<1>4. ASSUME ~(Owner(t).active > 0), Goto(t, "unload")
      PROVE  EmbeddedInv'
  <2>1. Owner(t).active = 0
    BY <1>2, <1>4 DEF OwnerRecord
  <2>2. /\ "unload" \in Place \ {"idle"} /\ "unload" \notin Leased \cup Holding
        /\ "unload" \in Closing /\ "drain" \in Closing /\ "drain" \notin Leased
    BY DEF Place, Leased, Holding, Closing
  <2>3. PlaceSound("unload", Owner(t))
    BY <1>2, <2>1, <2>2 DEF PlaceSound
  <2>. QED  BY <1>1, <1>4, <2>2, <2>3, OffOwnerInv
<1>. QED  BY <1>3, <1>4 DEF Drain

\* Once the leases are gone nobody else relies on the owner.
LEMMA CloserAllowed ==
    ASSUME EmbeddedInv, NEW t \in Threads, call[t].pc \in {"unload", "unloading", "closed"},
           NEW pc \in Place, NEW r \in OwnerRecord, OwnerSound(r), PlaceSound(pc, r),
           r.active = Owner(t).active, pc \notin Leased
    PROVE  Allowed(t, pc, r)
<1>1. /\ call[t].pc # "idle" /\ call[t].pc \in Closing /\ call[t].pc \notin Leased
      /\ pc \notin Holding
  BY DEF Leased, Holding, Closing
<1>2. /\ OwnerSound(Owner(t)) /\ Owner(t).active = 0 /\ Owner(t).closing
  BY <1>1, CallFacts DEF PlaceSound
<1>3. ~Owner(t).closed
  BY <1>2 DEF OwnerSound
<1>4. ASSUME NEW u \in Threads \ {t}, call[u].owner = call[t].owner, call[u].pc # "idle"
      PROVE  PlaceSound(call[u].pc, r) /\ ~Exclude(pc, call[u].pc)
  <2>1. call[u].pc \notin Leased /\ call[u].pc \notin Closing /\ call[u].pc # "reset"
    BY <1>1, <1>2, <1>3, <1>4, Others DEF PlaceSound, Exclude
  <2>. QED  BY <1>1, <2>1 DEF PlaceSound, Exclude, Leased, Closing
<1>. QED  BY <1>1, <1>3, <1>4 DEF Allowed, Owner

\* close raises: the owner is unsafe, and keeps its session for another attempt.
LEMMA CloseFailedInv ==
    ASSUME EmbeddedInv, NEW t \in Threads, call[t].pc \in {"unload", "unloading"},
           Owner(t).loaded, NEW s \in {"ready", "running", "failed"},
           CloseFailed(t, s), UNCHANGED <<slot, made, child>>
    PROVE  EmbeddedInv'
<1>1. Owner(t) \in OwnerRecord /\ OwnerSound(Owner(t)) /\ PlaceSound(call[t].pc, Owner(t))
  BY CallFacts
<1>. DEFINE r == [Transition(Owner(t), s) EXCEPT !.unsafe = TRUE, !.closing = FALSE]
<1>2. /\ r \in OwnerRecord /\ r.loaded = Owner(t).loaded /\ r.closed = Owner(t).closed
      /\ ~r.closing /\ r.active = Owner(t).active /\ r.session = s
  BY <1>1 DEF OwnerRecord, Transition, SessionState
<1>3. SetOwner(t, r)
  BY DEF CloseFailed
<1>. HIDE DEF r
<1>4. NotifyAll(t, "done") /\ "done" \in Place \ {"idle"}
      /\ "done" \notin Leased \cup Holding \cup Closing
  BY DEF CloseFailed, Returns, Place, Leased, Holding, Closing
<1>5. OwnerSound(r) /\ PlaceSound("done", r)
  <2>1. Usable(r)
    BY <1>2 DEF Usable
  <2>. QED  BY <1>1, <1>2, <1>4, <2>1 DEF OwnerSound, PlaceSound, Closing
<1>6. Allowed(t, "done", r)
  BY <1>2, <1>4, <1>5, CloserAllowed
<1>. QED  BY <1>2, <1>3, <1>4, <1>6, OnOwnerInv

\* Runtime.unload begins.
LEMMA BeginUnloadingInv ==
    ASSUME EmbeddedInv, NEW t \in Threads, BeginUnloading(t)
    PROVE  EmbeddedInv'
<1>1. /\ call[t].pc = "unload" /\ UNCHANGED <<slot, made, child>> /\ call[t].pc # "idle"
  BY DEF BeginUnloading, At
<1>2. Owner(t) \in OwnerRecord /\ OwnerSound(Owner(t)) /\ PlaceSound("unload", Owner(t))
  BY <1>1, CallFacts
<1>3. {"unload", "unloading", "closed"} \subseteq Closing \cap (Place \ {"idle"})
      /\ \A pc \in {"unload", "unloading", "closed"} : pc \notin Leased \cup Holding
  BY DEF Place, Leased, Holding, Closing
<1>4. CASE ~Owner(t).loaded
  <2>1. Goto(t, "closed") /\ UNCHANGED own
    BY <1>4 DEF BeginUnloading
  <2>2. PlaceSound("closed", Owner(t))
    BY <1>2, <1>3, <1>4 DEF PlaceSound, OwnerSound
  <2>. QED  BY <1>1, <1>3, <2>1, <2>2, OffOwnerInv
<1>5. CASE Owner(t).loaded /\ Owner(t).session \in {"ready", "failed"}
  <2>. DEFINE r == Transition(Owner(t), "unloading")
  <2>1. SetOwner(t, r) /\ Goto(t, "unloading")
    BY <1>5 DEF BeginUnloading
  <2>2. /\ r \in OwnerRecord /\ r.loaded = Owner(t).loaded /\ r.closed = Owner(t).closed
        /\ r.closing = Owner(t).closing /\ r.active = Owner(t).active /\ r.session = "unloading"
    BY <1>2 DEF OwnerRecord, Transition, SessionState
  <2>. HIDE DEF r
  <2>3. OwnerSound(r) /\ PlaceSound("unloading", r)
    BY <1>2, <1>3, <1>5, <2>2 DEF OwnerSound, PlaceSound
  <2>4. Allowed(t, "unloading", r)
    BY <1>1, <1>3, <2>2, <2>3, CloserAllowed
  <2>. QED  BY <1>1, <1>3, <2>1, <2>2, <2>4, OnOwnerInv
<1>6. CASE Owner(t).loaded /\ Owner(t).session \notin {"ready", "failed"}
  <2>1. CloseFailed(t, Owner(t).session)
    BY <1>6 DEF BeginUnloading
  <2>2. Owner(t).session \in {"ready", "running", "failed"}
    BY <1>2, <1>6 DEF PlaceSound, Usable
  <2>. QED  BY <1>1, <1>6, <2>1, <2>2, CloseFailedInv
<1>. QED  BY <1>4, <1>5, <1>6

\* adapter.unload succeeds or fails.
LEMMA UnloadInv ==
    ASSUME EmbeddedInv, NEW t \in Threads, Unload(t)
    PROVE  EmbeddedInv'
<1>1. /\ call[t].pc = "unloading" /\ UNCHANGED <<slot, made, child>> /\ call[t].pc # "idle"
  BY DEF Unload, At
<1>2. Owner(t) \in OwnerRecord /\ OwnerSound(Owner(t)) /\ PlaceSound("unloading", Owner(t))
  BY <1>1, CallFacts
<1>3. "closed" \in Place \ {"idle"} /\ "closed" \notin Leased \cup Holding
      /\ "unloading" \in Closing
  BY DEF Place, Leased, Holding, Closing
<1>4. CASE CloseFailed(t, "failed")
  BY <1>1, <1>2, <1>4, CloseFailedInv DEF PlaceSound
<1>5. ASSUME SetOwner(t, Transition(Owner(t), "unloaded")), Goto(t, "closed")
      PROVE  EmbeddedInv'
  <2>. DEFINE r == Transition(Owner(t), "unloaded")
  <2>1. /\ r \in OwnerRecord /\ r.loaded = Owner(t).loaded /\ r.closed = Owner(t).closed
        /\ r.closing = Owner(t).closing /\ r.active = Owner(t).active /\ r.session = "unloaded"
    BY <1>2 DEF OwnerRecord, Transition, SessionState
  <2>2. SetOwner(t, r)
    BY <1>5
  <2>. HIDE DEF r
  <2>3. OwnerSound(r) /\ PlaceSound("closed", r)
    BY <1>2, <1>3, <2>1 DEF OwnerSound, PlaceSound
  <2>4. Allowed(t, "closed", r)
    BY <1>1, <1>3, <2>1, <2>3, CloserAllowed
  <2>. QED  BY <1>1, <1>3, <1>5, <2>1, <2>2, <2>4, OnOwnerInv
<1>. QED  BY <1>4, <1>5 DEF Unload

\* The owner is closed and its waiters are woken.
LEMMA ClosedInv ==
    ASSUME EmbeddedInv, NEW t \in Threads, Closed(t)
    PROVE  EmbeddedInv'
<1>1. /\ call[t].pc = "closed" /\ UNCHANGED <<slot, made, child>> /\ call[t].pc # "idle"
  BY DEF Closed, At
<1>2. Owner(t) \in OwnerRecord /\ OwnerSound(Owner(t)) /\ PlaceSound("closed", Owner(t))
  BY <1>1, CallFacts
<1>. DEFINE r == [Owner(t) EXCEPT !.loaded = FALSE, !.closed = TRUE, !.closing = FALSE]
            pc == Returns(t, FALSE)
<1>3. SetOwner(t, r) /\ NotifyAll(t, pc) /\ pc \in {"reset", "done"}
  BY DEF Closed, Returns
<1>4. /\ r \in OwnerRecord /\ ~r.loaded /\ r.closed /\ ~r.closing
      /\ r.active = Owner(t).active /\ r.session = Owner(t).session
  BY <1>2 DEF OwnerRecord
<1>. HIDE DEF r, pc
<1>5. pc \in Place \ {"idle"} /\ pc \notin Leased \cup Holding \cup Closing
  BY <1>3 DEF Place, Leased, Holding, Closing
<1>6. OwnerSound(r) /\ PlaceSound(pc, r)
  <2>1. r.session = "unloaded"
    BY <1>2, <1>4 DEF PlaceSound
  <2>. QED  BY <1>4, <1>5, <2>1 DEF OwnerSound, PlaceSound, Closing
<1>7. Allowed(t, pc, r)
  BY <1>1, <1>4, <1>5, <1>6, CloserAllowed
<1>. QED  BY <1>1, <1>3, <1>4, <1>5, <1>7, OnOwnerInv

\* A teardown forgets the owner that it closed.
LEMMA ResetInv ==
    ASSUME EmbeddedInv, NEW t \in Threads, Reset(t)
    PROVE  EmbeddedInv'
<1>1. /\ call[t].pc = "reset" /\ UNCHANGED <<made, own, child>> /\ Goto(t, "done")
      /\ slot' = IF slot = call[t].owner THEN None ELSE slot
  BY DEF Reset, At
<1>2. Owner(t).closed /\ OwnerSound(Owner(t)) /\ call[t].owner \in 1..made
  BY <1>1, CallFacts DEF PlaceSound
<1>3. "done" \in Place \ {"idle"} /\ "done" \notin Leased \cup Holding \cup Closing
      /\ "reset" \notin Leased \cup Holding \cup Closing
  BY DEF Place, Leased, Holding, Closing
<1>4. Moves(t, "done")
  BY <1>1, <1>3, GotoMoves
<1>5. EmbeddedTypeOK'
  <2>1. slot' \in 0..made'
    BY <1>1, EmbeddedAssumption DEF None, EmbeddedInv, EmbeddedTypeOK
  <2>. QED  BY <1>1, <1>4, <2>1 DEF EmbeddedInv, EmbeddedTypeOK, Moves
<1>6. OneOwner'
  BY <1>1, <1>2 DEF EmbeddedInv, OneOwner, OwnerSound, Owner
<1>7. \A o : LeaseHolders(o)' = LeaseHolders(o)
  BY <1>1, <1>3, <1>4 DEF LeaseHolders, Moves
<1>8. ASSUME NEW u \in Threads
      PROVE  /\ call'[u].pc # "idle" =>
                call'[u].owner \in 1..made /\ PlaceSound(call'[u].pc, own[call'[u].owner])
             /\ child'[u] # "none" => call'[u].pc \in {"child", "terminate", "kill"}
  <2>1. PlaceSound("done", Owner(t))
    BY <1>3 DEF PlaceSound, Closing
  <2>2. CASE u = t
    BY <1>1, <1>2, <1>4, <2>1, <2>2, CallFacts DEF Moves, Owner
  <2>3. CASE u # t
    BY <1>1, <1>4, <2>3, CallFacts DEF Moves, Owner
  <2>. QED  BY <2>2, <2>3
<1>9. ASSUME NEW u \in Threads, NEW x \in Threads, u # x, call'[u].owner = call'[x].owner
      PROVE  ~Exclude(call'[u].pc, call'[x].pc)
  <2>1. CASE u # t /\ x # t
    BY <1>4, <1>9, <2>1 DEF Moves, EmbeddedInv
  <2>2. CASE u = t \/ x = t
    BY <1>3, <1>4, <2>2 DEF Moves, Exclude
  <2>. QED  BY <2>1, <2>2
<1>. QED  BY <1>1, <1>5, <1>6, <1>7, <1>8, <1>9 DEF EmbeddedInv, Owner

-----------------------------------------------------------------------------
(* The theorems *)

\* Nothing is configured and nobody calls.
LEMMA EmbeddedInitInv == EmbeddedInit => EmbeddedInv
<1>. SUFFICES ASSUME EmbeddedInit  PROVE EmbeddedInv
  OBVIOUS
<1>1. 0 \in 0..OwnerBound
  BY EmbeddedAssumption
<1>2. NoCall \in CallRecord /\ NoCall.pc = "idle"
  BY <1>1, NewCall
<1>3. /\ NewOwner \in OwnerRecord /\ NewOwner.active = 0
      /\ ~NewOwner.closed /\ ~NewOwner.loaded /\ NewOwner.session = "unloaded"
  BY DEF NewOwner, OwnerRecord, SessionState
<1>4. /\ call \in [Threads -> CallRecord] /\ \A t \in Threads : call[t].pc = "idle"
      /\ child \in [Threads -> {"none"} \cup Alive] /\ \A t \in Threads : child[t] = "none"
      /\ own \in [Owners -> OwnerRecord] /\ \A o \in Owners : own[o] = NewOwner
  BY <1>2, <1>3 DEF EmbeddedInit
<1>5. EmbeddedTypeOK
  BY <1>1, <1>4 DEF EmbeddedInit, EmbeddedTypeOK, None
<1>6. OneOwner
  BY DEF EmbeddedInit, OneOwner
<1>7. "idle" \notin Leased \cup Closing \cup Holding
  BY DEF Leased, Closing, Holding
<1>8. \A o \in Owners : OwnerSound(own[o]) /\ own[o].active = Cardinality(LeaseHolders(o))
  <2>1. \A o : LeaseHolders(o) = {}
    BY <1>4, <1>7 DEF LeaseHolders
  <2>. QED  BY <1>3, <1>4, <2>1, FS_EmptySet DEF OwnerSound
<1>9. \A t, u \in Threads : ~Exclude(call[t].pc, call[u].pc)
  BY <1>4, <1>7 DEF Exclude
<1>. QED  BY <1>4, <1>5, <1>6, <1>8, <1>9 DEF EmbeddedInv

\* Every step of the host, its calls and their children keeps the invariant.
LEMMA EmbeddedNextInv ==
    ASSUME EmbeddedInv, [EmbeddedNext]_embeddedVars
    PROVE  EmbeddedInv'
<1>1. CASE UNCHANGED embeddedVars
  <2>1. UNCHANGED <<slot, made, own, call, child>>
    BY <1>1 DEF embeddedVars
  <2>2. \A o : LeaseHolders(o)' = LeaseHolders(o)
    BY <2>1 DEF LeaseHolders
  <2>. QED  BY <2>1, <2>2 DEF EmbeddedInv, EmbeddedTypeOK, OneOwner, Owner
<1>2. ASSUME NEW t \in Threads, Step(t)  PROVE EmbeddedInv'
  <2>1. CASE StartChild(t) \/ PollChild(t) \/ CancelProcess(t) \/ KillProcess(t)
    BY <2>1, ChildInv
  <2>2. CASE Lease(t) \/ Acquire(t) \/ FinishInvocation(t) \/ Release(t) \/ Stop(t) \/ Done(t)
    BY <2>2, LeaseInv, AcquireInv, FinishInv, ReleaseInv, StopInv, CallInv
  <2>3. CASE \/ Close(t) \/ Drain(t) \/ BeginUnloading(t) \/ Unload(t) \/ Closed(t) \/ Reset(t)
    BY <2>3, CloseInv, DrainInv, BeginUnloadingInv, UnloadInv, ClosedInv, ResetInv
  <2>. QED  BY <1>2, <2>1, <2>2, <2>3 DEF Step
<1>. QED  BY <1>1, <1>2, ConfigureInv, CallInv, MonitorInv, ChildExitsInv DEF EmbeddedNext

\* The count of leases is exact, one thread at a time is in close and one in the
\* session, and what every thread relies on holds, for any number of threads,
\* owners, calls and failures.
THEOREM EmbeddedInvariance == EmbeddedSpec => []EmbeddedInv
<1>1. EmbeddedInv /\ [EmbeddedNext]_embeddedVars => EmbeddedInv'
  BY EmbeddedNextInv
<1>. QED  BY <1>1, EmbeddedInitInv, PTL DEF EmbeddedSpec

\* No close, by a teardown or by another call whose monitor failed, unloads a
\* session under a lease.
THEOREM LeasesAreLoaded == EmbeddedSpec => []LeasedIsLoaded
<1>1. EmbeddedInv => LeasedIsLoaded
  <2>. SUFFICES ASSUME EmbeddedInv, NEW t \in Threads, call[t].pc \in Leased
                PROVE  /\ Owner(t).loaded /\ ~Owner(t).closed
                       /\ Owner(t).session \notin {"unloading", "unloaded"}
    BY DEF LeasedIsLoaded
  <2>1. call[t].pc # "idle"
    BY DEF Leased, Holding
  <2>. QED  BY <2>1, CallFacts DEF PlaceSound, OwnerSound, Usable
<1>. QED  BY <1>1, EmbeddedInvariance, PTL

\* A child process belongs to the one invocation that runs in its session.
THEOREM ChildrenOfInvocations == EmbeddedSpec => []ChildOfItsInvocation
<1>1. EmbeddedInv => ChildOfItsInvocation
  <2>. SUFFICES ASSUME EmbeddedInv, NEW t \in Threads, child[t] \in Alive
                PROVE  /\ call[t].pc \in Holding
                       /\ \A u \in Threads \ {t} :
                            call[u].pc \in Holding => call[u].owner # call[t].owner
    BY DEF ChildOfItsInvocation
  <2>1. call[t].pc \in Holding
    BY CallFacts DEF Alive, Holding
  <2>. QED  BY <2>1 DEF EmbeddedInv, Exclude
<1>. QED  BY <1>1, EmbeddedInvariance, PTL

\* Two owners never have or load a model at the same time.
THEOREM OneOwnerOnly == EmbeddedSpec => []OneOwner
<1>1. EmbeddedInv => OneOwner
  BY DEF EmbeddedInv
<1>. QED  BY <1>1, EmbeddedInvariance, PTL

=============================================================================
