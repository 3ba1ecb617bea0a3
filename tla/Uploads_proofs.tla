--------------------------- MODULE Uploads_proofs ---------------------------
(***************************************************************************)
(* Why a verified session has its bytes, although rows, staging store and  *)
(* canonical store share no transaction and every handler may die at any   *)
(* access.  The inductive invariant is UploadInv of Uploads.               *)
(***************************************************************************)
EXTENDS Uploads, SequenceFilter_proofs

-----------------------------------------------------------------------------
(* Rows, local state and queues have their types *)

\* A handler and a recovery run that do nothing hold well-formed state.
LEMMA IdleType ==
    /\ IdleHandler \in Handler /\ IdleHandler.pc = "idle"
    /\ IdleCleaner \in Cleaner /\ IdleCleaner.pc = "idle" /\ IdleCleaner.todo = <<>>
    /\ \A T : IdleCleaner.todo \in Seq(T)
<1>1. <<>> \in Seq(Sessions) /\ \A T : <<>> \in Seq(T)
  BY EmptySeq
<1>2. IdleHandler \in Handler /\ IdleHandler.pc = "idle"
  BY DEF IdleHandler, Handler, HandlerPC
<1>3. 0 \in 0..CleanLimit
  BY UploadLimitAssumption
<1>. QED  BY <1>1, <1>2, <1>3 DEF IdleCleaner, Cleaner, CleanerPC

\* A longer list of terminal sessions, or the same list when more have ended.
LEMMA SeqGrows ==
    ASSUME NEW S, NEW T, S \subseteq T, NEW q \in Seq(S)
    PROVE  q \in Seq(T)
BY SeqDef

\* A first part of a sequence has the members of the sequence.
LEMMA FirstFewType ==
    ASSUME NEW A, NEW t \in Seq(A), NEW n \in Nat
    PROVE  FirstFew(t, n) \in Seq(A)
<1>. DEFINE m == IF n < Len(t) THEN n ELSE Len(t)
<1>1. m \in Int /\ \A i \in 1..m : t[i] \in A
  BY LenProperties, ElementOfSeq
<1>. HIDE DEF m
<1>2. SubSeq(t, 1, m) \in Seq(A)
  BY <1>1, SubSeqProperties
<1>. QED  BY <1>2 DEF FirstFew, m

\* upload_staging_candidates lists only sessions that ended.
LEMMA CandidatesType ==
    ASSUME UploadInv, NEW n \in Nat
    PROVE  StagingCandidates(n) \in Seq(TerminalSessions)
<1>1. Keep(ended, Sessions \ cleaned) \in Seq(TerminalSessions \cap (Sessions \ cleaned))
  BY KeepType DEF UploadInv
<1>2. Keep(ended, Sessions \ cleaned) \in Seq(TerminalSessions)
  BY <1>1, SeqGrows
<1>. QED  BY <1>2, FirstFewType DEF StagingCandidates

-----------------------------------------------------------------------------
(* What a step may do to a session, as far as the others care *)

\* A session that ended stays as it is, only such a session loses its staged
\* bytes, and a session begins to wait for a verdict only when it has some.
SessionEffect(s) ==
    /\ Terminal(s) => session'[s] = session[s]
    /\ staged[s] # NoContent /\ staged'[s] = NoContent => Terminal(s)
    /\ Waiting(s)' => Waiting(s) \/ staged[s] # NoContent

Effects ==
    /\ \A s \in Sessions : SessionEffect(s)
    /\ canonical \subseteq canonical'

\* A step that changes no row and loses no staged bytes has these effects.
LEMMA NoEffect ==
    ASSUME session' = session, staged' = staged, canonical' = canonical
    PROVE  Effects
BY DEF Effects, SessionEffect, Waiting

\* What a step with these effects keeps: the sessions that ended, the staged
\* bytes that are needed, and what the others know.
LEMMA Frame ==
    ASSUME UploadInv, Effects
    PROVE  /\ TerminalSessions \subseteq TerminalSessions'
           /\ NeededStagingPresent'
           /\ \A h \in Handlers : hand'[h] = hand[h] => HandSound(h)'
           /\ \A c \in Cleaners : clean'[c] = clean[c] => CleanSound(c)'
<1>1. TerminalSessions \subseteq TerminalSessions'
  BY DEF Effects, SessionEffect, TerminalSessions, Terminal
<1>2. NeededStagingPresent'
  <2>1. SUFFICES ASSUME NEW s \in Sessions, Waiting(s)'  PROVE staged'[s] # NoContent
    BY DEF NeededStagingPresent, Waiting
  <2>2. SessionEffect(s)
    BY DEF Effects
  <2>3. staged[s] # NoContent
    BY <2>1, <2>2 DEF SessionEffect, UploadInv, NeededStagingPresent, Waiting
  <2>4. Terminal(s) => ~Waiting(s)'
    BY <2>2 DEF SessionEffect, Terminal, Waiting, TerminalUpload
  <2>. QED  BY <2>1, <2>2, <2>3, <2>4 DEF SessionEffect
<1>3. ASSUME NEW h \in Handlers, hand'[h] = hand[h]  PROVE HandSound(h)'
  <2>1. HandSound(h)
    BY DEF UploadInv
  <2>2. CASE hand[h].pc = "idle"
    BY <1>3, <2>2 DEF HandSound
  <2>3. CASE hand[h].pc # "idle"
    <3>1. PICK s \in Sessions : s = hand[h].s
      BY <2>1, <2>3 DEF HandSound
    <3>2. SessionEffect(s) /\ canonical \subseteq canonical'
      BY DEF Effects
    <3>3. Terminal(s) => Terminal(s)'
      BY <3>2 DEF SessionEffect, Terminal
    <3>4. staged[s] # NoContent \/ Terminal(s) => staged'[s] # NoContent \/ Terminal(s)'
      BY <3>2, <3>3 DEF SessionEffect
    <3>. HIDE DEF Terminal
    <3>. QED  BY <1>3, <2>1, <3>1, <3>2, <3>3, <3>4 DEF HandSound, Acceptable
  <2>. QED  BY <2>2, <2>3
<1>4. ASSUME NEW c \in Cleaners, clean'[c] = clean[c]  PROVE CleanSound(c)'
  <2>1. CleanSound(c)
    BY DEF UploadInv
  <2>2. clean[c].todo \in Seq(TerminalSessions')
    BY <1>1, <2>1, SeqGrows DEF CleanSound
  <2>. QED  BY <1>4, <2>1, <2>2 DEF CleanSound
<1>. QED  BY <1>1, <1>2, <1>3, <1>4

\* A step after which the same sessions are verified, with the same blobs, assets
\* and blob rows, keeps what is said about verified sessions.
LEMMA VerdictsKept ==
    ASSUME UploadInv, canonical \subseteq canonical', uploaded' = uploaded, assets' = assets,
           \A s \in Sessions :
              (session'[s].state = "verified" \/ session[s].state = "verified")
                  => session'[s] = session[s]
    PROVE  VerifiedHasBytes' /\ VerifiedIsDeclared'
<1>1. VerifiedHasBytes'
  <2>1. SUFFICES ASSUME NEW s \in Sessions
                 PROVE  /\ session'[s].state = "verified" =>
                              session'[s].blob \in canonical' \cap uploaded'
                        /\ {a \in assets' : a[1] = s} =
                              (IF session'[s].state = "verified"
                               THEN {<<s, session'[s].blob>>} ELSE {})
    BY DEF VerifiedHasBytes
  <2>2. /\ session[s].state = "verified" => session[s].blob \in canonical \cap uploaded
        /\ {a \in assets : a[1] = s} =
              (IF session[s].state = "verified" THEN {<<s, session[s].blob>>} ELSE {})
    BY DEF UploadInv, VerifiedHasBytes
  <2>. QED  BY <2>2
<1>2. VerifiedIsDeclared'
  BY DEF UploadInv, VerifiedIsDeclared
<1>. QED  BY <1>1, <1>2

\* A step of handler h with these effects keeps the invariant when the types, the
\* verdicts and the list of ended sessions are right and h knows what it must.
LEMMA HandlerKeeps ==
    ASSUME UploadInv, NEW h \in Handlers, Effects, UploadTypeOK',
           VerifiedHasBytes', VerifiedIsDeclared', ended' \in Seq(TerminalSessions'),
           clean' = clean, \A g \in Handlers : g # h => hand'[g] = hand[g],
           HandSound(h)'
    PROVE  UploadInv'
<1>1. /\ NeededStagingPresent'
      /\ \A g \in Handlers : hand'[g] = hand[g] => HandSound(g)'
      /\ \A c \in Cleaners : clean'[c] = clean[c] => CleanSound(c)'
  BY Frame
<1>2. \A g \in Handlers : HandSound(g)'
  BY <1>1
<1>3. \A c \in Cleaners : CleanSound(c)'
  BY <1>1
<1>. QED  BY <1>1, <1>2, <1>3 DEF UploadInv

\* The same for a step that changes neither a row, nor an object, nor evidence.
LEMMA LocalHandlerKeeps ==
    ASSUME UploadInv, NEW h \in Handlers,
           UNCHANGED <<rowVars, staged, canonical, cleaned, clean>>, calls' \in Nat,
           NEW r \in Handler, hand' = [hand EXCEPT ![h] = r], HandSound(h)'
    PROVE  UploadInv' /\ Effects
<1>1. session' = session /\ uploaded' = uploaded /\ assets' = assets /\ ended' = ended
  BY DEF rowVars
<1>2. Effects
  BY <1>1, NoEffect
<1>3. UploadTypeOK'
  BY <1>1 DEF UploadInv, UploadTypeOK
<1>4. VerifiedHasBytes' /\ VerifiedIsDeclared'
  BY <1>1, VerdictsKept
<1>5. ended' \in Seq(TerminalSessions')
  BY <1>1, <1>2, Frame, SeqGrows DEF UploadInv
<1>6. \A g \in Handlers : g # h => hand'[g] = hand[g]
  BY DEF UploadInv, UploadTypeOK
<1>. QED  BY <1>2, <1>3, <1>4, <1>5, <1>6, HandlerKeeps

\* A handler that gives up, and nothing else.
LEMMA GivesUp ==
    ASSUME UploadInv, NEW h \in Handlers, Return(h),
           UNCHANGED <<rowVars, staged, canonical, cleaned, clean, calls>>
    PROVE  UploadInv' /\ Effects
<1>1. hand'[h] = IdleHandler
  BY DEF Return, UploadInv, UploadTypeOK
<1>2. HandSound(h)'
  BY <1>1, IdleType DEF HandSound
<1>3. calls' \in Nat
  BY DEF UploadInv, UploadTypeOK
<1>. QED  BY <1>2, <1>3, IdleType, LocalHandlerKeeps DEF Return

-----------------------------------------------------------------------------
(* Steps of a handler *)

\* A compare-and-set of a session that has not ended, to anything but verified.
LEMMA RowStepKeeps ==
    ASSUME UploadInv, NEW h \in Handlers, NEW s \in Sessions, NEW r \in SessionRow,
           session' = [session EXCEPT ![s] = r], ~Terminal(s), r.state # "verified",
           r.state \in {"uploaded", "verifying"} => staged[s] # NoContent,
           UNCHANGED <<staged, canonical, uploaded, assets, cleaned, clean>>,
           \/ ended' = ended
           \/ ended' = Append(ended, s) /\ r.state \in TerminalUpload,
           NEW g \in Handler, hand' = [hand EXCEPT ![h] = g], calls' \in Nat,
           HandSound(h)'
    PROVE  UploadInv' /\ Effects
<1>1. session'[s] = r /\ \A t \in Sessions : t # s => session'[t] = session[t]
  BY DEF UploadInv, UploadTypeOK
<1>2. ASSUME NEW t \in Sessions  PROVE SessionEffect(t)
  <2>1. CASE t = s
    BY <1>1, <2>1 DEF SessionEffect, Waiting
  <2>2. CASE t # s
    BY <1>1, <2>2 DEF SessionEffect, Waiting
  <2>. QED  BY <2>1, <2>2
<1>3. Effects
  BY <1>2 DEF Effects
<1>4. UploadTypeOK'
  BY DEF UploadInv, UploadTypeOK
<1>5. VerifiedHasBytes' /\ VerifiedIsDeclared'
  <2>1. session[s].state # "verified"
    BY DEF Terminal, TerminalUpload
  <2>2. ASSUME NEW t \in Sessions, session'[t].state = "verified" \/ session[t].state = "verified"
        PROVE  session'[t] = session[t]
    BY <1>1, <2>1, <2>2
  <2>. QED  BY <2>2, VerdictsKept
<1>6. ended' \in Seq(TerminalSessions')
  <2>1. ended \in Seq(TerminalSessions')
    BY <1>3, Frame, SeqGrows DEF UploadInv
  <2>2. r.state \in TerminalUpload => s \in TerminalSessions'
    BY <1>1 DEF TerminalSessions, Terminal
  <2>. QED  BY <2>1, <2>2, AppendProperties
<1>7. \A k \in Handlers : k # h => hand'[k] = hand[k]
  BY DEF UploadInv, UploadTypeOK
<1>. QED  BY <1>3, <1>4, <1>5, <1>6, <1>7, HandlerKeeps

\* Advance writes one row: a new state at the next version.
LEMMA AdvanceRow ==
    ASSUME UploadTypeOK, NEW s \in Sessions, NEW state \in UploadState, Advance(s, state)
    PROVE  \E r \in SessionRow : /\ session' = [session EXCEPT ![s] = r]
                                 /\ r.state = state
<1>. DEFINE n == session[s].version + 1
<1>1. session[s] \in SessionRow /\ n \in Nat
  BY DEF UploadTypeOK, SessionRow
<1>2. session' = [session EXCEPT ![s] = [session[s] EXCEPT !.state = state, !.version = n]]
  BY DEF Advance, UploadTypeOK
<1>. HIDE DEF n
<1>. DEFINE r == [session[s] EXCEPT !.state = state, !.version = n]
<1>3. r \in SessionRow /\ r.state = state
  BY <1>1 DEF SessionRow
<1>. QED  BY <1>2, <1>3

\* A handler that moves on keeps its session and its bytes.
LEMMA MoveType ==
    ASSUME UploadTypeOK, NEW h \in Handlers, NEW pc \in HandlerPC, Move(h, pc)
    PROVE  \E g \in Handler : /\ hand' = [hand EXCEPT ![h] = g] /\ hand'[h] = g
                              /\ g.pc = pc /\ g.s = hand[h].s /\ g.d = hand[h].d
<1>. DEFINE g == [hand[h] EXCEPT !.pc = pc]
<1>1. hand[h] \in Handler
  BY DEF UploadTypeOK
<1>2. g \in Handler /\ g.pc = pc /\ g.s = hand[h].s /\ g.d = hand[h].d
  BY <1>1 DEF Handler
<1>3. hand' = [hand EXCEPT ![h] = g] /\ hand'[h] = g
  BY DEF Move, UploadTypeOK
<1>. QED  BY <1>2, <1>3

\* create_session is no handler's step: it opens a session that did not exist.
LEMMA InitiateKeeps ==
    ASSUME UploadInv, NEW s \in Sessions, Initiate(s)
    PROVE  UploadInv' /\ Effects
<1>. DEFINE r == [session[s] EXCEPT !.state = "initiated"]
<1>1. session[s] \in SessionRow /\ session[s].state = "none"
  BY DEF UploadInv, UploadTypeOK, Initiate
<1>2. r \in SessionRow /\ r.state = "initiated"
  BY <1>1 DEF SessionRow, UploadState, OpenUpload
<1>3. session' = [session EXCEPT ![s] = r]
  BY DEF Initiate, CreateSession, UploadInv, UploadTypeOK
<1>. HIDE DEF r
<1>4. session'[s] = r /\ \A t \in Sessions : t # s => session'[t] = session[t]
  BY <1>3 DEF UploadInv, UploadTypeOK
<1>5. UNCHANGED <<staged, canonical, uploaded, assets, ended, cleaned, hand, clean, calls>>
  BY DEF Initiate
<1>6. ASSUME NEW t \in Sessions  PROVE SessionEffect(t)
  <2>1. CASE t = s
    BY <1>1, <1>2, <1>4, <1>5, <2>1
       DEF SessionEffect, Waiting, Terminal, TerminalUpload
  <2>2. CASE t # s
    BY <1>4, <1>5, <2>2 DEF SessionEffect, Waiting
  <2>. QED  BY <2>1, <2>2
<1>7. Effects
  BY <1>5, <1>6 DEF Effects
<1>8. UploadTypeOK'
  BY <1>2, <1>3, <1>5 DEF UploadInv, UploadTypeOK
<1>9. VerifiedHasBytes' /\ VerifiedIsDeclared'
  <2>1. ASSUME NEW t \in Sessions, session'[t].state = "verified" \/ session[t].state = "verified"
        PROVE  session'[t] = session[t]
    BY <1>1, <1>2, <1>4, <2>1
  <2>. QED  BY <1>5, <2>1, VerdictsKept
<1>10. /\ NeededStagingPresent'
       /\ \A h \in Handlers : HandSound(h)'
       /\ \A c \in Cleaners : CleanSound(c)'
  BY <1>5, <1>7, Frame
<1>11. ended' \in Seq(TerminalSessions')
  BY <1>5, <1>7, Frame, SeqGrows DEF UploadInv
<1>. QED  BY <1>7, <1>8, <1>9, <1>10, <1>11 DEF UploadInv

\* The request up to its write remembers the body and the version.
LEMMA UploadStartKeeps ==
    ASSUME UploadInv, NEW h \in Handlers, NEW s \in Sessions, NEW d \in Contents,
           UploadStart(h, s, d)
    PROVE  UploadInv' /\ Effects
<1>. DEFINE g == [pc |-> "write", s |-> s, v |-> session[s].version, d |-> d]
<1>1. session[s].version \in Nat
  BY DEF UploadInv, UploadTypeOK, SessionRow
<1>2. g \in Handler /\ g.pc = "write" /\ g.s = s /\ g.d = d
  BY <1>1 DEF Handler, HandlerPC
<1>3. hand' = [hand EXCEPT ![h] = g]
  BY DEF UploadStart
<1>. HIDE DEF g
<1>4. hand'[h] = g
  BY <1>3 DEF UploadInv, UploadTypeOK
<1>5. HandSound(h)'
  BY <1>2, <1>4 DEF HandSound
<1>6. calls' \in Nat
  BY DEF UploadStart, UploadInv, UploadTypeOK
<1>7. UNCHANGED <<rowVars, staged, canonical, cleaned, clean>>
  BY DEF UploadStart
<1>. QED  BY <1>2, <1>3, <1>5, <1>6, <1>7, LocalHandlerKeeps

\* A verifier call for a session that exists.
LEMMA VerifyStartKeeps ==
    ASSUME UploadInv, NEW h \in Handlers, NEW s \in Sessions, VerifyStart(h, s)
    PROVE  UploadInv' /\ Effects
<1>. DEFINE g == [IdleHandler EXCEPT !.pc = "claim", !.s = s]
<1>1. g \in Handler /\ g.pc = "claim" /\ g.s = s
  BY IdleType DEF Handler, HandlerPC
<1>2. hand' = [hand EXCEPT ![h] = g]
  BY DEF VerifyStart
<1>. HIDE DEF g
<1>3. hand'[h] = g
  BY <1>2 DEF UploadInv, UploadTypeOK
<1>4. HandSound(h)'
  BY <1>1, <1>3 DEF HandSound
<1>5. calls' \in Nat
  BY DEF VerifyStart, UploadInv, UploadTypeOK
<1>6. UNCHANGED <<rowVars, staged, canonical, cleaned, clean>>
  BY DEF VerifyStart
<1>. QED  BY <1>1, <1>2, <1>4, <1>5, <1>6, LocalHandlerKeeps

\* The write of the body takes a free staging key only.
LEMMA WriteStreamKeeps ==
    ASSUME UploadInv, NEW h \in Handlers, WriteStream(h)
    PROVE  UploadInv' /\ Effects
<1>1. hand[h].pc = "write" /\ HandSound(h)
      /\ UNCHANGED <<rowVars, canonical, cleaned, clean, calls>>
  BY DEF WriteStream, UploadInv
<1>2. PICK s \in Sessions : s = hand[h].s
  BY <1>1 DEF HandSound
<1>3. PICK d \in Contents : d = hand[h].d
  BY <1>1 DEF HandSound
<1>4. CASE staged' = staged /\ Return(h)
  BY <1>1, <1>4, GivesUp
<1>5. CASE staged[s] = NoContent /\ staged' = [staged EXCEPT ![s] = d] /\ Move(h, "mark")
  <2>1. PICK g \in Handler : /\ hand' = [hand EXCEPT ![h] = g] /\ hand'[h] = g
                             /\ g.pc = "mark" /\ g.s = s
    BY <1>2, <1>5, MoveType DEF HandlerPC, UploadInv
  <2>2. staged'[s] = d /\ d # NoContent /\ \A t \in Sessions : t # s => staged'[t] = staged[t]
    BY <1>5, ContentAssumption DEF UploadInv, UploadTypeOK
  <2>3. session' = session /\ uploaded' = uploaded /\ assets' = assets /\ ended' = ended
        /\ canonical' = canonical
    BY <1>1 DEF rowVars
  <2>4. Effects
    BY <2>2, <2>3 DEF Effects, SessionEffect, Waiting
  <2>5. HandSound(h)'
    BY <2>1, <2>2 DEF HandSound
  <2>6. UploadTypeOK'
    <3>1. staged' \in [Sessions -> Contents \cup {NoContent}]
      BY <1>5 DEF UploadInv, UploadTypeOK
    <3>. QED  BY <1>1, <2>1, <2>3, <3>1 DEF UploadInv, UploadTypeOK
  <2>7. VerifiedHasBytes' /\ VerifiedIsDeclared'
    BY <2>3, VerdictsKept
  <2>8. ended' \in Seq(TerminalSessions')
    BY <2>3, <2>4, Frame, SeqGrows DEF UploadInv
  <2>9. \A k \in Handlers : k # h => hand'[k] = hand[k]
    BY <2>1 DEF UploadInv, UploadTypeOK
  <2>. QED  BY <1>1, <2>4, <2>5, <2>6, <2>7, <2>8, <2>9, HandlerKeeps
<1>. QED  BY <1>2, <1>3, <1>4, <1>5 DEF WriteStream

\* mark_uploaded: a session that is still initiated has the bytes of this request.
LEMMA MarkUploadedKeeps ==
    ASSUME UploadInv, NEW h \in Handlers, MarkUploaded(h)
    PROVE  UploadInv' /\ Effects
<1>1. hand[h].pc = "mark" /\ HandSound(h)
      /\ UNCHANGED <<staged, canonical, uploaded, assets, ended, cleaned, clean, calls>>
  BY DEF MarkUploaded, UploadInv
<1>2. PICK s \in Sessions : s = hand[h].s
  BY <1>1 DEF HandSound
<1>3. CASE session' = session /\ Return(h)
  BY <1>1, <1>3, GivesUp DEF rowVars
<1>4. CASE session[s].state = "initiated" /\ Advance(s, "uploaded") /\ Move(h, "claim")
  <2>1. PICK g \in Handler : /\ hand' = [hand EXCEPT ![h] = g] /\ hand'[h] = g
                             /\ g.pc = "claim" /\ g.s = s
    BY <1>2, <1>4, MoveType DEF HandlerPC, UploadInv
  <2>2. PICK r \in SessionRow : session' = [session EXCEPT ![s] = r] /\ r.state = "uploaded"
    BY <1>4, AdvanceRow DEF UploadState, OpenUpload, UploadInv
  <2>3. ~Terminal(s)
    BY <1>4 DEF Terminal, TerminalUpload
  <2>4. staged[s] # NoContent
    BY <1>1, <1>2, <2>3 DEF HandSound
  <2>5. HandSound(h)'
    BY <2>1 DEF HandSound
  <2>6. calls' \in Nat
    BY <1>1 DEF UploadInv, UploadTypeOK
  <2>. QED  BY <1>1, <2>1, <2>2, <2>3, <2>4, <2>5, <2>6, RowStepKeeps
<1>. QED  BY <1>2, <1>3, <1>4 DEF MarkUploaded, AtUpload

\* The first lines of finalize: claim, join or refuse.
LEMMA ClaimKeeps ==
    ASSUME UploadInv, NEW h \in Handlers, Claim(h)
    PROVE  UploadInv' /\ Effects
<1>1. hand[h].pc = "claim" /\ HandSound(h)
      /\ UNCHANGED <<staged, canonical, uploaded, assets, ended, cleaned, clean, calls>>
  BY DEF Claim, UploadInv
<1>2. PICK s \in Sessions : s = hand[h].s
  BY <1>1 DEF HandSound
<1>3. PICK v \in Nat : v = session[s].version
  BY DEF UploadInv, UploadTypeOK, SessionRow
<1>4. calls' \in Nat
  BY <1>1 DEF UploadInv, UploadTypeOK
<1>5. ASSUME NEW n \in Nat, hand' = [hand EXCEPT ![h].pc = "open", ![h].v = n]
      PROVE  \E g \in Handler : hand' = [hand EXCEPT ![h] = g] /\ HandSound(h)'
  <2>. DEFINE g == [hand[h] EXCEPT !.pc = "open", !.v = n]
  <2>1. hand[h] \in Handler
    BY DEF UploadInv, UploadTypeOK
  <2>2. g \in Handler /\ g.pc = "open" /\ g.s = s
    BY <1>2, <2>1 DEF Handler, HandlerPC
  <2>3. hand' = [hand EXCEPT ![h] = g] /\ hand'[h] = g
    BY <1>5 DEF UploadInv, UploadTypeOK
  <2>. HIDE DEF g
  <2>4. HandSound(h)'
    BY <2>2, <2>3 DEF HandSound
  <2>. QED  BY <2>2, <2>3, <2>4
<1>6. CASE session' = session /\ Return(h)
  BY <1>1, <1>6, GivesUp DEF rowVars
<1>7. CASE session' = session /\ hand' = [hand EXCEPT ![h].pc = "open", ![h].v = v]
  <2>1. PICK g \in Handler : hand' = [hand EXCEPT ![h] = g] /\ HandSound(h)'
    BY <1>5, <1>7
  <2>2. UNCHANGED <<rowVars, staged, canonical, cleaned, clean>>
    BY <1>1, <1>7 DEF rowVars
  <2>. QED  BY <1>4, <2>1, <2>2, LocalHandlerKeeps
<1>8. CASE /\ session[s].state = "uploaded" /\ Advance(s, "verifying")
           /\ hand' = [hand EXCEPT ![h].pc = "open", ![h].v = v + 1]
  <2>1. v + 1 \in Nat
    OBVIOUS
  <2>2. PICK g \in Handler : hand' = [hand EXCEPT ![h] = g] /\ HandSound(h)'
    BY <1>5, <1>8, <2>1
  <2>3. PICK r \in SessionRow : session' = [session EXCEPT ![s] = r] /\ r.state = "verifying"
    BY <1>8, AdvanceRow DEF UploadState, OpenUpload, UploadInv
  <2>4. ~Terminal(s) /\ staged[s] # NoContent
    BY <1>8 DEF Terminal, TerminalUpload, UploadInv, NeededStagingPresent
  <2>. QED  BY <1>1, <1>4, <2>2, <2>3, <2>4, RowStepKeeps
<1>. QED  BY <1>2, <1>3, <1>6, <1>7, <1>8 DEF Claim, AtUpload

\* reclaim_verification takes over a session whose bytes are still needed.
LEMMA ReclaimKeeps ==
    ASSUME UploadInv, NEW h \in Handlers, NEW s \in Sessions, Reclaim(h, s)
    PROVE  UploadInv' /\ Effects
<1>. DEFINE n == session[s].version + 1
<1>1. n \in Nat
  BY DEF UploadInv, UploadTypeOK, SessionRow
<1>2. /\ session[s].state = "verifying" /\ Advance(s, "verifying")
      /\ hand' = [hand EXCEPT ![h] = [IdleHandler EXCEPT !.pc = "open", !.s = s, !.v = n]]
      /\ UNCHANGED <<staged, canonical, uploaded, assets, ended, cleaned, clean>>
  BY DEF Reclaim, AtUpload
<1>3. calls' \in Nat
  BY DEF Reclaim, UploadInv, UploadTypeOK
<1>. HIDE DEF n
<1>. DEFINE g == [IdleHandler EXCEPT !.pc = "open", !.s = s, !.v = n]
<1>4. g \in Handler /\ g.pc = "open" /\ g.s = s
  BY <1>1, IdleType DEF Handler, HandlerPC
<1>5. hand' = [hand EXCEPT ![h] = g]
  BY <1>2
<1>. HIDE DEF g
<1>6. hand'[h] = g
  BY <1>5 DEF UploadInv, UploadTypeOK
<1>7. HandSound(h)'
  BY <1>4, <1>6 DEF HandSound
<1>8. PICK r \in SessionRow : session' = [session EXCEPT ![s] = r] /\ r.state = "verifying"
  BY <1>2, AdvanceRow DEF UploadState, OpenUpload, UploadInv
<1>9. ~Terminal(s) /\ staged[s] # NoContent
  BY <1>2 DEF Terminal, TerminalUpload, UploadInv, NeededStagingPresent
<1>. QED  BY <1>2, <1>3, <1>4, <1>5, <1>7, <1>8, <1>9, RowStepKeeps

\* The verifier's private snapshot: it promotes only acceptable, playable bytes.
LEMMA SnapshotKeeps ==
    ASSUME UploadInv, NEW h \in Handlers, Snapshot(h)
    PROVE  UploadInv' /\ Effects
<1>1. hand[h].pc = "open" /\ HandSound(h)
      /\ UNCHANGED <<rowVars, staged, canonical, cleaned, clean, calls>>
  BY DEF Snapshot, UploadInv
<1>2. PICK s \in Sessions : s = hand[h].s
  BY <1>1 DEF HandSound
<1>3. CASE Return(h)
  BY <1>1, <1>3, GivesUp
<1>4. ASSUME staged[s] # NoContent, NEW good \in Probed(staged[s]),
             hand' = [hand EXCEPT ![h].d = staged[s],
                        ![h].pc = IF Acceptable(s, staged[s]) /\ good
                                  THEN "promote" ELSE "reject"]
      PROVE  UploadInv' /\ Effects
  <2>1. PICK d \in Contents : d = staged[s]
    BY <1>4 DEF UploadInv, UploadTypeOK
  <2>. DEFINE pc == IF Acceptable(s, d) /\ good THEN "promote" ELSE "reject"
  <2>2. pc \in {"promote", "reject"} /\ (pc = "promote" => Acceptable(s, d) /\ d \in Playable)
    BY <1>4, <2>1 DEF Probed
  <2>3. hand' = [hand EXCEPT ![h] = [hand[h] EXCEPT !.d = d, !.pc = pc]]
    BY <1>4, <2>1 DEF UploadInv, UploadTypeOK
  <2>. HIDE DEF pc
  <2>. DEFINE g == [hand[h] EXCEPT !.d = d, !.pc = pc]
  <2>4. hand[h] \in Handler
    BY DEF UploadInv, UploadTypeOK
  <2>5. g \in Handler /\ g.pc = pc /\ g.s = s /\ g.d = d
    BY <1>2, <2>2, <2>4 DEF Handler, HandlerPC
  <2>6. hand' = [hand EXCEPT ![h] = g] /\ hand'[h] = g
    BY <2>3 DEF UploadInv, UploadTypeOK
  <2>. HIDE DEF g
  <2>7. HandSound(h)'
    BY <2>2, <2>5, <2>6 DEF HandSound, Acceptable
  <2>8. calls' \in Nat
    BY <1>1 DEF UploadInv, UploadTypeOK
  <2>. QED  BY <1>1, <2>5, <2>6, <2>7, <2>8, LocalHandlerKeeps
<1>. QED  BY <1>2, <1>3, <1>4 DEF Snapshot, Readable

\* reject: only the verifier that won the row goes on to delete the bytes.
LEMMA RejectUploadKeeps ==
    ASSUME UploadInv, NEW h \in Handlers, RejectUpload(h)
    PROVE  UploadInv' /\ Effects
<1>1. hand[h].pc = "reject" /\ HandSound(h)
      /\ UNCHANGED <<staged, canonical, uploaded, assets, cleaned, clean, calls>>
  BY DEF RejectUpload, UploadInv
<1>2. PICK s \in Sessions : s = hand[h].s
  BY <1>1 DEF HandSound
<1>3. CASE session' = session /\ ended' = ended /\ Return(h)
  BY <1>1, <1>3, GivesUp DEF rowVars
<1>4. CASE /\ session[s].state = "verifying" /\ Advance(s, "rejected")
           /\ ended' = Append(ended, s) /\ Move(h, "delete")
  <2>1. PICK g \in Handler : /\ hand' = [hand EXCEPT ![h] = g] /\ hand'[h] = g
                             /\ g.pc = "delete" /\ g.s = s
    BY <1>2, <1>4, MoveType DEF HandlerPC, UploadInv
  <2>2. PICK r \in SessionRow : session' = [session EXCEPT ![s] = r] /\ r.state = "rejected"
    BY <1>4, AdvanceRow DEF UploadState, TerminalUpload, UploadInv
  <2>3. ~Terminal(s) /\ r.state \in TerminalUpload
    BY <1>4, <2>2 DEF Terminal, TerminalUpload
  <2>4. Terminal(s)'
    BY <2>2, <2>3 DEF Terminal, UploadInv, UploadTypeOK
  <2>5. HandSound(h)'
    BY <2>1, <2>4 DEF HandSound
  <2>6. calls' \in Nat
    BY <1>1 DEF UploadInv, UploadTypeOK
  <2>. QED  BY <1>1, <1>4, <2>1, <2>2, <2>3, <2>5, <2>6, RowStepKeeps
<1>. QED  BY <1>2, <1>3, <1>4 DEF RejectUpload, AfterCas, AtUpload

\* The promotion puts the checked bytes into the canonical store.
LEMMA PutCanonicalKeeps ==
    ASSUME UploadInv, NEW h \in Handlers, PutCanonical(h)
    PROVE  UploadInv' /\ Effects
<1>1. hand[h].pc = "promote" /\ HandSound(h) /\ Move(h, "finalize")
      /\ canonical' = canonical \cup {hand[h].d}
      /\ UNCHANGED <<rowVars, staged, cleaned, clean, calls>>
  BY DEF PutCanonical, Promoted, UploadInv
<1>2. PICK s \in Sessions : s = hand[h].s
  BY <1>1 DEF HandSound
<1>3. PICK d \in Contents : d = hand[h].d /\ Acceptable(s, d) /\ d \in Playable
  BY <1>1, <1>2 DEF HandSound
<1>4. PICK g \in Handler : /\ hand' = [hand EXCEPT ![h] = g] /\ hand'[h] = g
                           /\ g.pc = "finalize" /\ g.s = s /\ g.d = d
  BY <1>1, <1>2, <1>3, MoveType DEF HandlerPC, UploadInv
<1>5. session' = session /\ uploaded' = uploaded /\ assets' = assets /\ ended' = ended
  BY <1>1 DEF rowVars
<1>6. Effects
  BY <1>1, <1>5 DEF Effects, SessionEffect, Waiting
<1>7. HandSound(h)'
  BY <1>1, <1>3, <1>4 DEF HandSound, Acceptable
<1>8. UploadTypeOK'
  BY <1>1, <1>3, <1>4, <1>5 DEF UploadInv, UploadTypeOK
<1>9. VerifiedHasBytes' /\ VerifiedIsDeclared'
  BY <1>1, <1>5, VerdictsKept
<1>10. ended' \in Seq(TerminalSessions')
  BY <1>5, <1>6, Frame, SeqGrows DEF UploadInv
<1>11. \A k \in Handlers : k # h => hand'[k] = hand[k]
  BY <1>4 DEF UploadInv, UploadTypeOK
<1>. QED  BY <1>1, <1>6, <1>7, <1>8, <1>9, <1>10, <1>11, HandlerKeeps

\* finalize_verified: blob row, asset row and session, all or nothing.
LEMMA FinalizeVerifiedKeeps ==
    ASSUME UploadInv, NEW h \in Handlers, FinalizeVerified(h)
    PROVE  UploadInv' /\ Effects
<1>1. hand[h].pc = "finalize" /\ HandSound(h)
      /\ UNCHANGED <<staged, canonical, cleaned, clean, calls>>
  BY DEF FinalizeVerified, UploadInv
<1>2. PICK s \in Sessions : s = hand[h].s
  BY <1>1 DEF HandSound
<1>3. PICK d \in Contents : /\ d = hand[h].d /\ Acceptable(s, d) /\ d \in Playable
                            /\ d \in canonical
  BY <1>1, <1>2 DEF HandSound
<1>4. CASE UNCHANGED rowVars /\ Return(h)
  BY <1>1, <1>4, GivesUp
<1>5. CASE /\ session[s].state = "verifying"
           /\ session' = [session EXCEPT ![s].state = "verified", ![s].blob = d,
                                         ![s].version = @ + 1]
           /\ uploaded' = uploaded \cup {d}
           /\ assets' = assets \cup {<<s, d>>}
           /\ ended' = Append(ended, s)
           /\ Move(h, "delete")
  <2>. DEFINE n == session[s].version + 1
  <2>1. session[s] \in SessionRow /\ n \in Nat
    BY DEF UploadInv, UploadTypeOK, SessionRow
  <2>2. session' = [session EXCEPT ![s] =
                      [session[s] EXCEPT !.state = "verified", !.blob = d, !.version = n]]
    BY <1>5 DEF UploadInv, UploadTypeOK
  <2>. HIDE DEF n
  <2>. DEFINE r == [session[s] EXCEPT !.state = "verified", !.blob = d, !.version = n]
  <2>3. r \in SessionRow /\ r.state = "verified" /\ r.blob = d
    BY <2>1 DEF SessionRow, UploadState, TerminalUpload
  <2>4. session' = [session EXCEPT ![s] = r]
    BY <2>2
  <2>. HIDE DEF r
  <2>5. session'[s] = r /\ \A t \in Sessions : t # s => session'[t] = session[t]
    BY <2>4 DEF UploadInv, UploadTypeOK
  <2>6. ~Terminal(s) /\ Terminal(s)'
    BY <1>5, <2>3, <2>5 DEF Terminal, TerminalUpload
  <2>7. ASSUME NEW t \in Sessions  PROVE SessionEffect(t)
    <3>1. CASE t = s
      BY <1>1, <2>3, <2>5, <2>6, <3>1 DEF SessionEffect, Waiting
    <3>2. CASE t # s
      BY <1>1, <2>5, <3>2 DEF SessionEffect, Waiting
    <3>. QED  BY <3>1, <3>2
  <2>8. Effects
    BY <1>1, <2>7 DEF Effects
  <2>9. PICK g \in Handler : /\ hand' = [hand EXCEPT ![h] = g] /\ hand'[h] = g
                             /\ g.pc = "delete" /\ g.s = s
    BY <1>2, <1>5, MoveType DEF HandlerPC, UploadInv
  <2>10. HandSound(h)'
    BY <2>6, <2>9 DEF HandSound
  <2>11. UploadTypeOK'
    <3>1. session' \in [Sessions -> SessionRow]
      BY <2>3, <2>4 DEF UploadInv, UploadTypeOK
    <3>2. uploaded' \subseteq Contents
      BY <1>3, <1>5 DEF UploadInv, UploadTypeOK
    <3>3. hand' \in [Handlers -> Handler]
      BY <2>9 DEF UploadInv, UploadTypeOK
    <3>. QED  BY <1>1, <3>1, <3>2, <3>3 DEF UploadInv, UploadTypeOK
  <2>12. VerifiedHasBytes'
    <3>1. ASSUME NEW t \in Sessions
          PROVE  /\ session'[t].state = "verified" =>
                       session'[t].blob \in canonical' \cap uploaded'
                 /\ {a \in assets' : a[1] = t} =
                       (IF session'[t].state = "verified"
                        THEN {<<t, session'[t].blob>>} ELSE {})
      <4>1. /\ session[t].state = "verified" => session[t].blob \in canonical \cap uploaded
            /\ {a \in assets : a[1] = t} =
                  (IF session[t].state = "verified" THEN {<<t, session[t].blob>>} ELSE {})
        BY DEF UploadInv, VerifiedHasBytes
      <4>2. <<s, d>>[1] = s
        OBVIOUS
      <4>3. CASE t = s
        <5>1. {a \in assets : a[1] = s} = {}
          BY <1>5, <4>1, <4>3
        <5>2. {a \in assets' : a[1] = s} = {<<s, d>>}
          BY <1>5, <4>2, <5>1
        <5>3. session'[t].state = "verified" /\ session'[t].blob = d
          BY <2>3, <2>5, <4>3
        <5>4. d \in canonical' \cap uploaded'
          BY <1>1, <1>3, <1>5
        <5>. QED  BY <4>3, <5>2, <5>3, <5>4
      <4>4. CASE t # s
        <5>1. {a \in assets' : a[1] = t} = {a \in assets : a[1] = t}
          BY <1>5, <4>2, <4>4
        <5>2. session'[t] = session[t]
          BY <2>5, <4>4
        <5>3. canonical' = canonical /\ uploaded \subseteq uploaded'
          BY <1>1, <1>5
        <5>. QED  BY <4>1, <5>1, <5>2, <5>3
      <4>. QED  BY <4>3, <4>4
    <3>. QED  BY <3>1 DEF VerifiedHasBytes
  <2>13. VerifiedIsDeclared'
    BY <1>3, <2>3, <2>5 DEF UploadInv, VerifiedIsDeclared, Acceptable
  <2>14. ended' \in Seq(TerminalSessions')
    <3>1. ended \in Seq(TerminalSessions')
      BY <2>8, Frame, SeqGrows DEF UploadInv
    <3>2. s \in TerminalSessions'
      BY <2>6 DEF TerminalSessions
    <3>. QED  BY <1>5, <3>1, <3>2, AppendProperties
  <2>15. \A k \in Handlers : k # h => hand'[k] = hand[k]
    BY <2>9 DEF UploadInv, UploadTypeOK
  <2>. QED  BY <1>1, <2>8, <2>10, <2>11, <2>12, <2>13, <2>14, <2>15, HandlerKeeps
<1>. QED  BY <1>2, <1>3, <1>4, <1>5 DEF FinalizeVerified, AtUpload, AssetOf

\* A step that empties one staging key, of a session that ended.
LEMMA StagedRemoved ==
    ASSUME UploadInv, NEW s \in Sessions, Terminal(s), UNCHANGED <<rowVars, canonical>>,
           staged' = [staged EXCEPT ![s] = NoContent]
    PROVE  /\ Effects /\ staged' \in [Sessions -> Contents \cup {NoContent}]
           /\ VerifiedHasBytes' /\ VerifiedIsDeclared'
           /\ ended' \in Seq(TerminalSessions')
<1>1. session' = session /\ uploaded' = uploaded /\ assets' = assets /\ ended' = ended
  BY DEF rowVars
<1>2. \A t \in Sessions : t # s => staged'[t] = staged[t]
  BY DEF UploadInv, UploadTypeOK
<1>3. Effects
  BY <1>1, <1>2 DEF Effects, SessionEffect, Waiting
<1>4. staged' \in [Sessions -> Contents \cup {NoContent}]
  BY DEF UploadInv, UploadTypeOK
<1>5. VerifiedHasBytes' /\ VerifiedIsDeclared'
  BY <1>1, VerdictsKept
<1>6. ended' \in Seq(TerminalSessions')
  BY <1>1, <1>3, Frame, SeqGrows DEF UploadInv
<1>. QED  BY <1>3, <1>4, <1>5, <1>6

\* The verifier that ended a session deletes its staged bytes.
LEMMA DeleteStagedKeeps ==
    ASSUME UploadInv, NEW h \in Handlers, DeleteStaged(h)
    PROVE  UploadInv' /\ Effects
<1>1. hand[h].pc = "delete" /\ HandSound(h) /\ Return(h)
      /\ UNCHANGED <<rowVars, canonical, cleaned, clean, calls>>
  BY DEF DeleteStaged, UploadInv
<1>2. PICK s \in Sessions : s = hand[h].s /\ Terminal(s)
  BY <1>1 DEF HandSound
<1>3. staged' = [staged EXCEPT ![s] = NoContent]
  BY <1>2 DEF DeleteStaged
<1>4. /\ Effects /\ staged' \in [Sessions -> Contents \cup {NoContent}]
      /\ VerifiedHasBytes' /\ VerifiedIsDeclared'
      /\ ended' \in Seq(TerminalSessions')
  BY <1>1, <1>2, <1>3, StagedRemoved
<1>5. hand' = [hand EXCEPT ![h] = IdleHandler] /\ hand'[h] = IdleHandler
      /\ \A k \in Handlers : k # h => hand'[k] = hand[k]
  BY <1>1 DEF Return, UploadInv, UploadTypeOK
<1>6. HandSound(h)'
  BY <1>5, IdleType DEF HandSound
<1>7. UploadTypeOK'
  BY <1>1, <1>4, <1>5, IdleType DEF UploadInv, UploadTypeOK, rowVars
<1>. QED  BY <1>1, <1>4, <1>5, <1>6, <1>7, HandlerKeeps

\* Whatever a handler does, or when it dies, the invariant stays.
LEMMA HandlerStepKeeps ==
    ASSUME UploadInv, NEW h \in Handlers, HandlerStep(h)
    PROVE  UploadInv' /\ Effects
<1>1. CASE \E s \in Sessions, d \in Contents : UploadStart(h, s, d)
  BY <1>1, UploadStartKeeps
<1>2. CASE \E s \in Sessions : VerifyStart(h, s) \/ Reclaim(h, s)
  BY <1>2, VerifyStartKeeps, ReclaimKeeps
<1>3. CASE Abort(h)
  BY <1>3, GivesUp DEF Abort
<1>4. CASE \/ WriteStream(h) \/ MarkUploaded(h) \/ Claim(h) \/ Snapshot(h) \/ RejectUpload(h)
           \/ PutCanonical(h) \/ FinalizeVerified(h) \/ DeleteStaged(h)
  BY <1>4, WriteStreamKeeps, MarkUploadedKeeps, ClaimKeeps, SnapshotKeeps,
     RejectUploadKeeps, PutCanonicalKeeps, FinalizeVerifiedKeeps, DeleteStagedKeeps
<1>. QED  BY <1>1, <1>2, <1>3, <1>4 DEF HandlerStep

-----------------------------------------------------------------------------
(* Expiry, janitor and recovery command *)

\* A step of recovery run c with these effects keeps the invariant when the types,
\* the verdicts and the list of ended sessions are right and c knows what it must.
LEMMA CleanerKeeps ==
    ASSUME UploadInv, NEW c \in Cleaners, Effects,
           session' \in [Sessions -> SessionRow],
           staged' \in [Sessions -> Contents \cup {NoContent}],
           cleaned' \subseteq Sessions,
           UNCHANGED <<canonical, uploaded, hand, calls>>,
           VerifiedHasBytes', VerifiedIsDeclared', ended' \in Seq(TerminalSessions'),
           NEW k \in Cleaner, clean' = [clean EXCEPT ![c] = k],
           k.todo \in Seq(TerminalSessions'),
           k.pc \in {"delete", "record"} => k.todo # <<>>
    PROVE  UploadInv' /\ Effects
<1>1. UploadTypeOK'
  BY DEF UploadInv, UploadTypeOK
<1>2. /\ NeededStagingPresent'
      /\ \A h \in Handlers : hand'[h] = hand[h] => HandSound(h)'
      /\ \A b \in Cleaners : clean'[b] = clean[b] => CleanSound(b)'
  BY Frame
<1>3. \A h \in Handlers : HandSound(h)'
  BY <1>2
<1>4. clean'[c] = k /\ \A b \in Cleaners : b # c => clean'[b] = clean[b]
  BY DEF UploadInv, UploadTypeOK
<1>5. CleanSound(c)'
  BY <1>4 DEF CleanSound
<1>6. \A b \in Cleaners : CleanSound(b)'
  BY <1>2, <1>4, <1>5
<1>. QED  BY <1>1, <1>2, <1>3, <1>6 DEF UploadInv

\* expire_batch ends overdue sessions and no others.
LEMMA ExpireEffect ==
    ASSUME UploadInv, NEW S \in SUBSET Sessions, \A s \in S : Overdue(s), ExpireAll(S),
           UNCHANGED <<staged, canonical, uploaded, assets>>
    PROVE  /\ Effects /\ session' \in [Sessions -> SessionRow]
           /\ VerifiedHasBytes' /\ VerifiedIsDeclared'
           /\ ended' \in Seq(TerminalSessions')
<1>1. ASSUME NEW s \in Sessions
      PROVE  /\ session'[s] \in SessionRow
             /\ s \notin S => session'[s] = session[s]
             /\ s \in S => session'[s].state = "expired"
  <2>. DEFINE n == session[s].version + 1
  <2>1. session[s] \in SessionRow /\ n \in Nat
    BY DEF UploadInv, UploadTypeOK, SessionRow
  <2>2. session'[s] = IF s \in S THEN [session[s] EXCEPT !.state = "expired", !.version = n]
                                 ELSE session[s]
    BY DEF ExpireAll
  <2>. HIDE DEF n
  <2>. QED  BY <2>1, <2>2 DEF SessionRow, UploadState, TerminalUpload
<1>2. session' \in [Sessions -> SessionRow]
  <2>1. session' = [s \in Sessions |-> session'[s]]
    BY DEF ExpireAll
  <2>. QED  BY <1>1, <2>1
<1>3. \A s \in S : session[s].state \in OpenUpload
  BY DEF Overdue
<1>4. ASSUME NEW s \in Sessions  PROVE SessionEffect(s)
  <2>1. CASE s \in S
    BY <1>1, <1>3, <2>1 DEF SessionEffect, Waiting, Terminal, TerminalUpload, OpenUpload
  <2>2. CASE s \notin S
    BY <1>1, <2>2 DEF SessionEffect, Waiting
  <2>. QED  BY <2>1, <2>2
<1>5. Effects
  BY <1>4 DEF Effects
<1>6. VerifiedHasBytes' /\ VerifiedIsDeclared'
  <2>1. ASSUME NEW t \in Sessions, session'[t].state = "verified" \/ session[t].state = "verified"
        PROVE  session'[t] = session[t]
    BY <1>1, <1>3, <2>1 DEF OpenUpload
  <2>. QED  BY <2>1, VerdictsKept
<1>7. ended' \in Seq(TerminalSessions')
  <2>1. ended \in Seq(TerminalSessions')
    BY <1>5, Frame, SeqGrows DEF UploadInv
  <2>2. S \subseteq TerminalSessions'
    BY <1>1 DEF TerminalSessions, Terminal, TerminalUpload
  <2>3. IsFiniteSet(S)
    BY UploadLimitAssumption, FS_Subset
  <2>4. SetToSeq(S) \in Seq(TerminalSessions')
    BY <2>2, <2>3, SetToSeqType, SeqGrows
  <2>. QED  BY <2>1, <2>4, ConcatProperties DEF ExpireAll
<1>. QED  BY <1>2, <1>5, <1>6, <1>7

\* The recovery command expires a batch and keeps the rest of its limit.
LEMMA CleanStartKeeps ==
    ASSUME UploadInv, NEW c \in Cleaners, NEW S \in SUBSET Sessions, CleanStart(c, S)
    PROVE  UploadInv' /\ Effects
<1>. DEFINE n == CleanLimit - Cardinality(S)
            k == [clean[c] EXCEPT !.pc = "list", !.budget = n]
<1>1. /\ \A s \in S : Overdue(s)
      /\ Cardinality(S) <= CleanLimit /\ ExpireAll(S)
      /\ UNCHANGED <<staged, canonical, uploaded, assets, cleaned, hand, calls>>
  BY DEF CleanStart, ExpiryBatch
<1>2. n \in 0..CleanLimit
  <2>1. Cardinality(S) \in Nat
    BY UploadLimitAssumption, FS_Subset, FS_CardinalityType
  <2>. QED  BY <1>1, <2>1, UploadLimitAssumption
<1>3. clean' = [clean EXCEPT ![c] = k]
  BY DEF CleanStart, UploadInv, UploadTypeOK
<1>. HIDE DEF n
<1>4. clean[c] \in Cleaner /\ CleanSound(c)
  BY DEF UploadInv, UploadTypeOK
<1>5. k \in Cleaner /\ k.pc = "list" /\ k.todo = clean[c].todo
  BY <1>2, <1>4 DEF Cleaner, CleanerPC
<1>. HIDE DEF k
<1>6. /\ Effects /\ session' \in [Sessions -> SessionRow]
      /\ VerifiedHasBytes' /\ VerifiedIsDeclared'
      /\ ended' \in Seq(TerminalSessions')
  BY <1>1, ExpireEffect
<1>7. k.todo \in Seq(TerminalSessions')
  BY <1>4, <1>5, <1>6, Frame, SeqGrows DEF CleanSound
<1>8. cleaned' \subseteq Sessions /\ staged' \in [Sessions -> Contents \cup {NoContent}]
  BY <1>1 DEF UploadInv, UploadTypeOK
<1>. QED  BY <1>1, <1>3, <1>5, <1>6, <1>7, <1>8, CleanerKeeps

\* The janitor expires every overdue session.
LEMMA JanitorKeeps ==
    ASSUME UploadInv, NEW c \in Cleaners, Janitor(c)
    PROVE  UploadInv' /\ Effects
<1>. DEFINE k == [clean[c] EXCEPT !.pc = "list", !.audit = FALSE]
            S == {s \in Sessions : Overdue(s)}
<1>1. /\ \A s \in S : Overdue(s)
      /\ S \in SUBSET Sessions /\ ExpireAll(S)
      /\ UNCHANGED <<staged, canonical, uploaded, assets, cleaned, hand, calls>>
  BY DEF Janitor
<1>. HIDE DEF S
<1>2. clean' = [clean EXCEPT ![c] = k]
  BY DEF Janitor, UploadInv, UploadTypeOK
<1>3. clean[c] \in Cleaner /\ CleanSound(c)
  BY DEF UploadInv, UploadTypeOK
<1>4. k \in Cleaner /\ k.pc = "list" /\ k.todo = clean[c].todo
  BY <1>3 DEF Cleaner, CleanerPC
<1>. HIDE DEF k
<1>5. /\ Effects /\ session' \in [Sessions -> SessionRow]
      /\ VerifiedHasBytes' /\ VerifiedIsDeclared'
      /\ ended' \in Seq(TerminalSessions')
  BY <1>1, ExpireEffect
<1>6. k.todo \in Seq(TerminalSessions')
  BY <1>3, <1>4, <1>5, Frame, SeqGrows DEF CleanSound
<1>7. cleaned' \subseteq Sessions /\ staged' \in [Sessions -> Contents \cup {NoContent}]
  BY <1>1 DEF UploadInv, UploadTypeOK
<1>. QED  BY <1>1, <1>2, <1>4, <1>5, <1>6, <1>7, CleanerKeeps

\* A step of a recovery run that changes its own state and perhaps the evidence.
LEMMA LocalCleanerKeeps ==
    ASSUME UploadInv, NEW c \in Cleaners, UNCHANGED <<rowVars, staged, canonical, hand, calls>>,
           cleaned' \subseteq Sessions, NEW k \in Cleaner, clean' = [clean EXCEPT ![c] = k],
           k.todo \in Seq(TerminalSessions), k.pc \in {"delete", "record"} => k.todo # <<>>
    PROVE  UploadInv' /\ Effects
<1>1. session' = session /\ uploaded' = uploaded /\ assets' = assets /\ ended' = ended
  BY DEF rowVars
<1>2. Effects
  BY <1>1, NoEffect
<1>3. VerifiedHasBytes' /\ VerifiedIsDeclared'
  BY <1>1, VerdictsKept
<1>4. ended' \in Seq(TerminalSessions') /\ k.todo \in Seq(TerminalSessions')
  BY <1>1, <1>2, Frame, SeqGrows DEF UploadInv
<1>5. session' \in [Sessions -> SessionRow] /\ staged' \in [Sessions -> Contents \cup {NoContent}]
  BY <1>1 DEF UploadInv, UploadTypeOK
<1>. QED  BY <1>1, <1>2, <1>3, <1>4, <1>5, CleanerKeeps

\* A run with a list of ended sessions, or one that is done.
LEMMA TodoType ==
    ASSUME UploadInv, NEW c \in Cleaners, NEW q \in Seq(TerminalSessions),
           clean' = [clean EXCEPT ![c] = IF q = <<>> THEN IdleCleaner
                        ELSE [clean[c] EXCEPT !.pc = "delete", !.todo = q]]
    PROVE  \E k \in Cleaner : /\ clean' = [clean EXCEPT ![c] = k]
                              /\ k.todo \in Seq(TerminalSessions)
                              /\ k.pc \in {"delete", "record"} => k.todo # <<>>
<1>1. clean[c] \in Cleaner
  BY DEF UploadInv, UploadTypeOK
<1>2. CASE q = <<>>
  <2>1. clean' = [clean EXCEPT ![c] = IdleCleaner]
    BY <1>2
  <2>. QED  BY <2>1, IdleType
<1>3. CASE q # <<>>
  <2>. DEFINE k == [clean[c] EXCEPT !.pc = "delete", !.todo = q]
  <2>1. q \in Seq(Sessions)
    BY SeqGrows DEF TerminalSessions
  <2>2. k \in Cleaner /\ k.todo = q
    BY <1>1, <2>1 DEF Cleaner, CleanerPC
  <2>3. clean' = [clean EXCEPT ![c] = k]
    BY <1>3
  <2>. QED  BY <1>3, <2>2, <2>3
<1>. QED  BY <1>2, <1>3

\* What is left of a list of ended sessions is one, and its first is one of them.
LEMMA RestOfTodo ==
    ASSUME UploadInv, NEW c \in Cleaners, clean[c].pc \in {"delete", "record"}
    PROVE  /\ Tail(clean[c].todo) \in Seq(TerminalSessions)
           /\ Head(clean[c].todo) \in TerminalSessions
<1>1. clean[c].todo \in Seq(TerminalSessions) /\ clean[c].todo # <<>>
  BY DEF UploadInv, CleanSound
<1>. QED  BY <1>1, HeadTailProperties

\* The list of staging candidates.
LEMMA CleanListKeeps ==
    ASSUME UploadInv, NEW c \in Cleaners, CleanList(c)
    PROVE  UploadInv' /\ Effects
<1>. DEFINE n == IF clean[c].audit THEN clean[c].budget ELSE Len(ended)
            found == StagingCandidates(n)
<1>1. n \in Nat
  <2>1. clean[c].budget \in 0..CleanLimit
    BY DEF UploadInv, UploadTypeOK, Cleaner
  <2>2. Len(ended) \in Nat
    BY LenProperties DEF UploadInv
  <2>. QED  BY <2>1, <2>2, UploadLimitAssumption
<1>2. clean' = [clean EXCEPT ![c] = IF found = <<>> THEN IdleCleaner
                   ELSE [clean[c] EXCEPT !.pc = "delete", !.todo = found]]
  BY DEF CleanList
<1>. HIDE DEF n
<1>3. found \in Seq(TerminalSessions)
  BY <1>1, CandidatesType
<1>. HIDE DEF found
<1>4. PICK k \in Cleaner : /\ clean' = [clean EXCEPT ![c] = k]
                           /\ k.todo \in Seq(TerminalSessions)
                           /\ k.pc \in {"delete", "record"} => k.todo # <<>>
  BY <1>2, <1>3, TodoType
<1>5. UNCHANGED <<rowVars, staged, canonical, hand, calls>> /\ cleaned' \subseteq Sessions
  BY DEF CleanList, UploadInv, UploadTypeOK
<1>. QED  BY <1>4, <1>5, LocalCleanerKeeps

\* The deletion of one candidate's staged bytes.
LEMMA CleanDeleteKeeps ==
    ASSUME UploadInv, NEW c \in Cleaners, CleanDelete(c)
    PROVE  UploadInv' /\ Effects
<1>1. clean[c].pc = "delete" /\ UNCHANGED <<rowVars, canonical, cleaned, hand, calls>>
  BY DEF CleanDelete
<1>2. PICK s \in Sessions : s = Head(clean[c].todo) /\ Terminal(s)
  BY <1>1, RestOfTodo DEF TerminalSessions
<1>3. staged' = [staged EXCEPT ![s] = NoContent]
  BY <1>2 DEF CleanDelete
<1>4. /\ Effects /\ staged' \in [Sessions -> Contents \cup {NoContent}]
      /\ VerifiedHasBytes' /\ VerifiedIsDeclared'
      /\ ended' \in Seq(TerminalSessions')
  BY <1>1, <1>2, <1>3, StagedRemoved
<1>5. PICK k \in Cleaner : /\ clean' = [clean EXCEPT ![c] = k]
                           /\ k.todo \in Seq(TerminalSessions)
                           /\ k.pc \in {"delete", "record"} => k.todo # <<>>
  <2>1. CASE clean' = [clean EXCEPT ![c].pc = "record"]
    <3>. DEFINE k == [clean[c] EXCEPT !.pc = "record"]
    <3>1. clean[c] \in Cleaner /\ CleanSound(c)
      BY DEF UploadInv, UploadTypeOK
    <3>2. k \in Cleaner /\ k.todo = clean[c].todo
      BY <3>1 DEF Cleaner, CleanerPC
    <3>3. clean' = [clean EXCEPT ![c] = k]
      BY <2>1 DEF UploadInv, UploadTypeOK
    <3>. HIDE DEF k
    <3>. QED  BY <1>1, <3>1, <3>2, <3>3 DEF CleanSound
  <2>2. CASE NextCandidate(c)
    <3>1. Tail(clean[c].todo) \in Seq(TerminalSessions)
      BY <1>1, RestOfTodo
    <3>. QED  BY <2>2, <3>1, TodoType DEF NextCandidate
  <2>. QED  BY <2>1, <2>2 DEF CleanDelete
<1>6. k.todo \in Seq(TerminalSessions')
  BY <1>4, <1>5, Frame, SeqGrows
<1>7. session' \in [Sessions -> SessionRow] /\ uploaded' = uploaded /\ cleaned' \subseteq Sessions
  BY <1>1 DEF UploadInv, UploadTypeOK, rowVars
<1>. QED  BY <1>1, <1>4, <1>5, <1>6, <1>7, CleanerKeeps

\* The evidence of one deletion.
LEMMA CleanRecordKeeps ==
    ASSUME UploadInv, NEW c \in Cleaners, CleanRecord(c)
    PROVE  UploadInv' /\ Effects
<1>1. clean[c].pc = "record" /\ NextCandidate(c)
      /\ UNCHANGED <<rowVars, staged, canonical, hand, calls>>
  BY DEF CleanRecord
<1>2. /\ Tail(clean[c].todo) \in Seq(TerminalSessions)
      /\ Head(clean[c].todo) \in Sessions
  BY <1>1, RestOfTodo DEF TerminalSessions
<1>3. PICK k \in Cleaner : /\ clean' = [clean EXCEPT ![c] = k]
                           /\ k.todo \in Seq(TerminalSessions)
                           /\ k.pc \in {"delete", "record"} => k.todo # <<>>
  BY <1>1, <1>2, TodoType DEF NextCandidate
<1>4. cleaned' \subseteq Sessions
  BY <1>2 DEF CleanRecord, Evidence, UploadInv, UploadTypeOK
<1>. QED  BY <1>1, <1>3, <1>4, LocalCleanerKeeps

\* A recovery run that dies.
LEMMA CleanAbortKeeps ==
    ASSUME UploadInv, NEW c \in Cleaners, CleanAbort(c)
    PROVE  UploadInv' /\ Effects
<1>1. /\ UNCHANGED <<rowVars, staged, canonical, hand, calls>> /\ cleaned' \subseteq Sessions
      /\ clean' = [clean EXCEPT ![c] = IdleCleaner]
  BY DEF CleanAbort, UploadInv, UploadTypeOK
<1>2. /\ IdleCleaner \in Cleaner /\ IdleCleaner.todo \in Seq(TerminalSessions)
      /\ IdleCleaner.pc = "idle"
  BY IdleType
<1>. QED  BY <1>1, <1>2, LocalCleanerKeeps

\* Time passes for the sessions that are open.
LEMMA TickKeeps ==
    ASSUME UploadInv, UploadTick
    PROVE  UploadInv' /\ Effects
<1>1. UNCHANGED <<staged, canonical, uploaded, assets, ended, cleaned, hand, clean, calls>>
  BY DEF UploadTick
<1>2. ASSUME NEW s \in Sessions
      PROVE  /\ session'[s] \in SessionRow
             /\ session[s].state \notin OpenUpload => session'[s] = session[s]
             /\ session'[s].state = session[s].state
  <2>1. session[s] \in SessionRow
    BY DEF UploadInv, UploadTypeOK
  <2>2. CASE session[s].state \in OpenUpload /\ session[s].ttl >= 0
    <3>. DEFINE n == session[s].ttl - 1
    <3>1. n \in -1..SessionTtl
      BY <2>1, <2>2, UploadLimitAssumption DEF SessionRow
    <3>2. session'[s] = [session[s] EXCEPT !.ttl = n]
      BY <2>2 DEF UploadTick
    <3>. HIDE DEF n
    <3>. QED  BY <2>1, <2>2, <3>1, <3>2 DEF SessionRow
  <2>3. CASE ~(session[s].state \in OpenUpload /\ session[s].ttl >= 0)
    <3>1. session'[s] = session[s]
      BY <2>3 DEF UploadTick
    <3>. QED  BY <2>1, <3>1
  <2>. QED  BY <2>2, <2>3
<1>3. session' \in [Sessions -> SessionRow]
  <2>1. session' = [s \in Sessions |-> session'[s]]
    BY DEF UploadTick
  <2>. QED  BY <1>2, <2>1
<1>4. Effects
  BY <1>1, <1>2 DEF Effects, SessionEffect, Waiting, Terminal, TerminalUpload, OpenUpload
<1>5. VerifiedHasBytes' /\ VerifiedIsDeclared'
  <2>1. ASSUME NEW t \in Sessions, session'[t].state = "verified" \/ session[t].state = "verified"
        PROVE  session'[t] = session[t]
    BY <1>2, <2>1 DEF OpenUpload
  <2>. QED  BY <1>1, <2>1, VerdictsKept
<1>6. /\ NeededStagingPresent'
      /\ \A h \in Handlers : HandSound(h)'
      /\ \A c \in Cleaners : CleanSound(c)'
  BY <1>1, <1>4, Frame
<1>7. ended' \in Seq(TerminalSessions')
  BY <1>1, <1>4, Frame, SeqGrows DEF UploadInv
<1>8. UploadTypeOK'
  BY <1>1, <1>3 DEF UploadInv, UploadTypeOK
<1>. QED  BY <1>4, <1>5, <1>6, <1>7, <1>8 DEF UploadInv

-----------------------------------------------------------------------------
(* The theorems *)

\* The invariant holds before the first request: nothing is staged, nothing is
\* verified, and the sessions of the past have ended.
LEMMA UploadInitInv == UploadInit => UploadInv
<1>. SUFFICES ASSUME UploadInit  PROVE UploadInv
  OBVIOUS
<1>1. NoSession \in SessionRow /\ NoSession.state = "none"
  BY UploadLimitAssumption DEF NoSession, SessionRow, UploadState
<1>2. PastSession \in SessionRow /\ PastSession.state = "expired"
  <2>1. -1 \in -1..SessionTtl /\ 1 \in Nat /\ "expired" \in UploadState
    BY UploadLimitAssumption DEF UploadState, TerminalUpload
  <2>. DEFINE m == -1
  <2>2. PastSession = [NoSession EXCEPT !.state = "expired", !.version = 1, !.ttl = m]
    BY DEF PastSession
  <2>3. m \in -1..SessionTtl
    BY <2>1
  <2>. HIDE DEF m
  <2>. QED  BY <1>1, <2>1, <2>2, <2>3 DEF SessionRow
<1>3. ASSUME NEW s \in Sessions
      PROVE  session[s] = (IF s \in Past THEN PastSession ELSE NoSession)
             /\ session[s].state \in {"none", "expired"}
  BY <1>1, <1>2 DEF UploadInit
<1>4. UploadTypeOK
  BY <1>1, <1>2, IdleType DEF UploadInit, UploadTypeOK
<1>5. VerifiedHasBytes /\ VerifiedIsDeclared /\ NeededStagingPresent
  BY <1>3 DEF UploadInit, VerifiedHasBytes, VerifiedIsDeclared, NeededStagingPresent
<1>6. ended \in Seq(TerminalSessions)
  <2>1. IsFiniteSet(Past)
    BY UploadLimitAssumption, FS_Subset
  <2>2. Past \subseteq TerminalSessions
    BY <1>2, <1>3, UploadLimitAssumption DEF TerminalSessions, Terminal, TerminalUpload
  <2>. QED  BY <2>1, <2>2, SetToSeqType, SeqGrows DEF UploadInit
<1>7. \A h \in Handlers : HandSound(h)
  BY IdleType DEF UploadInit, HandSound
<1>8. \A c \in Cleaners : CleanSound(c)
  BY IdleType DEF UploadInit, CleanSound
<1>. QED  BY <1>4, <1>5, <1>6, <1>7, <1>8 DEF UploadInv

\* Every step of the system keeps the invariant and leaves ended sessions alone.
LEMMA UploadStep ==
    ASSUME UploadInv, [UploadNext]_upVars
    PROVE  UploadInv' /\ Effects
<1>1. CASE \E s \in Sessions : Initiate(s)
  BY <1>1, InitiateKeeps
<1>2. CASE \E h \in Handlers : HandlerStep(h)
  BY <1>2, HandlerStepKeeps
<1>3. CASE \E c \in Cleaners : CleanerStep(c) \/ CleanAbort(c)
  BY <1>3, CleanStartKeeps, JanitorKeeps, CleanListKeeps, CleanDeleteKeeps,
     CleanRecordKeeps, CleanAbortKeeps DEF CleanerStep
<1>4. CASE UploadTick
  BY <1>4, TickKeeps
<1>5. CASE UNCHANGED upVars
  <2>1. /\ UNCHANGED <<session, staged, canonical, uploaded, assets, ended>>
        /\ UNCHANGED <<cleaned, hand, clean, calls>>
    BY <1>5 DEF upVars
  <2>2. Effects
    BY <2>1, NoEffect
  <2>3. VerifiedHasBytes' /\ VerifiedIsDeclared'
    BY <2>1, VerdictsKept
  <2>4. /\ NeededStagingPresent'
        /\ \A h \in Handlers : HandSound(h)'
        /\ \A c \in Cleaners : CleanSound(c)'
    BY <2>1, <2>2, Frame
  <2>5. ended' \in Seq(TerminalSessions') /\ UploadTypeOK'
    BY <2>1, <2>2, Frame, SeqGrows DEF UploadInv, UploadTypeOK
  <2>. QED  BY <2>2, <2>3, <2>4, <2>5 DEF UploadInv
<1>. QED  BY <1>1, <1>2, <1>3, <1>4, <1>5 DEF UploadNext

\* The inductive invariant of verified uploads holds for every number of
\* sessions, handlers and recovery runs.
THEOREM UploadInvariance == UploadSpec => []UploadInv
<1>1. UploadInv /\ [UploadNext]_upVars => UploadInv'
  BY UploadStep
<1>. QED  BY UploadInitInv, <1>1, PTL DEF UploadSpec

\* A verified session has its canonical bytes, its blob row and exactly one asset
\* (UploadVerifier.finalize promotes before finalize_verified commits).
THEOREM VerifiedSessionsHaveBytes == UploadSpec => []VerifiedHasBytes
<1>1. UploadInv => VerifiedHasBytes
  BY DEF UploadInv
<1>. QED  BY UploadInvariance, <1>1, PTL

\* What is verified fits the size and digest that the client declared and was
\* accepted by the probe, also when the staging key is written in the meantime.
THEOREM VerifiedSessionsAreDeclared == UploadSpec => []VerifiedIsDeclared
<1>1. UploadInv => VerifiedIsDeclared
  BY DEF UploadInv
<1>. QED  BY UploadInvariance, <1>1, PTL

\* No losing verifier, janitor or recovery run deletes staged bytes that a verdict
\* still needs.
THEOREM StagingIsKept == UploadSpec => []NeededStagingPresent
<1>1. UploadInv => NeededStagingPresent
  BY DEF UploadInv
<1>. QED  BY UploadInvariance, <1>1, PTL

\* A session that ended never changes again, whoever comes late with its version.
THEOREM EndedForEver == UploadSpec => EndedIsFinal
<1>1. UploadInv /\ [UploadNext]_upVars =>
        [\A s \in Sessions : session[s].state \in TerminalUpload => session'[s] = session[s]]_upVars
  <2>1. SUFFICES ASSUME UploadInv, [UploadNext]_upVars
                 PROVE  \A s \in Sessions : session[s].state \in TerminalUpload
                                                => session'[s] = session[s]
    OBVIOUS
  <2>2. Effects
    BY <2>1, UploadStep
  <2>. QED  BY <2>2 DEF Effects, SessionEffect, Terminal
<1>. QED  BY UploadInvariance, <1>1, PTL DEF UploadSpec, EndedIsFinal

=============================================================================
