------------------------------- MODULE Uploads -------------------------------
(***************************************************************************)
(* Verified uploads: the session rows of durable/postgres_uploads.py, the  *)
(* HTTP upload workflow (DurableAssetUploadWorkflow.upload), the verifier  *)
(* (UploadVerifier.finalize), the janitor and the operator's recovery      *)
(* command, next to a staging store and a canonical store that share no    *)
(* transaction with the rows.                                              *)
(*                                                                         *)
(* A handler is an HTTP request or an operator's call of the verifier: a   *)
(* thread whose every row access and every object access is a step.  Any   *)
(* step may fail and any handler may die, which ends it where it is.       *)
(***************************************************************************)
EXTENDS Integers, Sequences, FiniteSets, SequenceFilter, SequencesExt

CONSTANTS
    Sessions,       \* upload session ids; the staging key is bound to the id
    Handlers,       \* concurrent requests and verifier calls
    Cleaners,       \* concurrent runs of recovery --expire-uploads
    Contents,       \* byte strings, equal exactly when their SHA-256 are
    NoContent,      \* no object, NULL in verified_blob_id
    SizeOf,         \* the size of a content
    ExpectedSize,   \* upload_sessions.expected_size_bytes
    ExpectedSha,    \* contents that expected_sha256 allows (all if it is NULL)
    Playable,       \* contents that the media probe accepts
    MaxUploadBytes, \* max_upload_bytes of workflow and verifier
    SessionTtl,     \* session_ttl, in clock ticks
    CleanLimit,     \* --limit of the recovery command
    Past,           \* sessions that had expired before this history begins
    CallBound       \* bound on the calls that ever start

ASSUME ContentAssumption ==
    /\ NoContent \notin Contents
    /\ SizeOf \in [Contents -> Nat]
    /\ ExpectedSize \in [Sessions -> Nat]
    /\ ExpectedSha \in [Sessions -> SUBSET Contents]
    /\ Playable \subseteq Contents
ASSUME UploadLimitAssumption ==
    /\ IsFiniteSet(Sessions) /\ Past \subseteq Sessions
    /\ MaxUploadBytes \in Nat \ {0} /\ SessionTtl \in Nat \ {0}
    /\ CleanLimit \in Nat \ {0} /\ CallBound \in Nat

VARIABLES
    session,    \* session[s]: the upload_sessions row
    staged,     \* staged[s]: the object under the staging key of s
    canonical,  \* the contents in the canonical store
    uploaded,   \* the contents that have a VERIFIED row in table blobs
    assets,     \* the assets made from uploads, <<session, content>> each
    ended,      \* the terminal sessions in the order of finalized_at
    cleaned,    \* the sessions with a row in upload_staging_cleanups
    hand,       \* hand[h]: the local state of a handler
    clean,      \* clean[c]: the local state of a recovery run
    calls       \* number of handler calls that started

rowVars == <<session, uploaded, assets, ended>>
upVars == <<session, staged, canonical, uploaded, assets, ended, cleaned, hand,
            clean, calls>>

-----------------------------------------------------------------------------
(* Rows and local state *)

OpenUpload == {"initiated", "uploaded", "verifying"}
TerminalUpload == {"verified", "rejected", "expired"}
UploadState == {"none"} \cup OpenUpload \cup TerminalUpload

\* ttl: ticks until expires_at; 0 is the instant itself, -1 is past it.
SessionRow == [state: UploadState, version: Nat, ttl: -1..SessionTtl,
               blob: Contents \cup {NoContent}]
NoSession == [state |-> "none", version |-> 0, ttl |-> SessionTtl, blob |-> NoContent]
PastSession == [NoSession EXCEPT !.state = "expired", !.version = 1, !.ttl = -1]

HandlerPC == {"idle", "write", "mark", "claim", "open", "reject", "promote", "finalize", "delete"}
AnySession == CHOOSE s \in Sessions : TRUE
Handler == [pc: HandlerPC, s: Sessions \cup {AnySession}, v: Nat, d: Contents \cup {NoContent}]
CleanerPC == {"idle", "list", "delete", "record"}
\* audit: the recovery command records what it deleted, the janitor does not.
Cleaner == [pc: CleanerPC, budget: 0..CleanLimit, todo: Seq(Sessions), audit: BOOLEAN]

IdleHandler == [pc |-> "idle", s |-> AnySession, v |-> 0, d |-> NoContent]
IdleCleaner == [pc |-> "idle", budget |-> 0, todo |-> <<>>, audit |-> TRUE]

-----------------------------------------------------------------------------
(* Compare-and-set on a session row; PostgreSQL's clock decides expiry *)

Unexpired(s) == session[s].ttl > 0
OverdueIdle(s) ==                               \* mutant: not while verifying
    session[s].state \in {"initiated", "uploaded"} /\ session[s].ttl < 0
Overdue(s) == session[s].state \in OpenUpload /\ session[s].ttl < 0

IgnoreState(s, v, state) ==                     \* mutant: no state=%s
    session[s].version = v /\ Unexpired(s)
AtUpload(s, v, state) ==
    session[s].version = v /\ session[s].state = state /\ Unexpired(s)

Advance(s, state) ==
    session' = [session EXCEPT ![s].state = state, ![s].version = @ + 1]

\* create_session
CreateSession(s) == session' = [session EXCEPT ![s].state = "initiated"]

\* What a client may declare: any size within the limit, with or without a digest.
Initiate(s) ==
    /\ session[s].state = "none"
    /\ ExpectedSize[s] <= MaxUploadBytes
    /\ CreateSession(s)
    /\ UNCHANGED <<staged, canonical, uploaded, assets, ended, cleaned, hand, clean, calls>>

-----------------------------------------------------------------------------
(* The upload request *)

Move(h, pc) == hand' = [hand EXCEPT ![h].pc = pc]
Return(h) == hand' = [hand EXCEPT ![h] = IdleHandler]

\* get_session
Found(s) == session[s].state # "none"

\* upload_asset, which hands on only a body of the declared size.
Declared(s, d) == SizeOf[d] = ExpectedSize[s]

\* The request up to its write; the state of the session is not looked at.
UploadStart(h, s, d) ==
    /\ hand[h].pc = "idle" /\ calls < CallBound
    /\ Found(s) /\ Declared(s, d) /\ SizeOf[d] <= MaxUploadBytes
    /\ hand' = [hand EXCEPT ![h] = [pc |-> "write", s |-> s, v |-> session[s].version, d |-> d]]
    /\ calls' = calls + 1
    /\ UNCHANGED <<rowVars, staged, canonical, cleaned, clean>>

\* write_stream: the link fails when the key is taken, whatever the bytes are.
WriteStream(h) ==
    LET s == hand[h].s
    IN  /\ hand[h].pc = "write"
        /\ \/ staged[s] = NoContent /\ staged' = [staged EXCEPT ![s] = hand[h].d] /\ Move(h, "mark")
           \/ staged[s] # NoContent /\ UNCHANGED staged /\ Return(h)
        /\ UNCHANGED <<rowVars, canonical, cleaned, clean, calls>>

\* mark_uploaded; the verifier is called next, with the version that is read then.
MarkUploaded(h) ==
    LET s == hand[h].s
    IN  /\ hand[h].pc = "mark"
        /\ \/ AtUpload(s, hand[h].v, "initiated") /\ Advance(s, "uploaded") /\ Move(h, "claim")
           \/ ~AtUpload(s, hand[h].v, "initiated") /\ UNCHANGED session /\ Return(h)
        /\ UNCHANGED <<staged, canonical, uploaded, assets, ended, cleaned, clean, calls>>

-----------------------------------------------------------------------------
(* The verifier *)

\* finalize, called for a session that an earlier request left behind.
VerifyStart(h, s) ==
    /\ hand[h].pc = "idle" /\ calls < CallBound
    /\ Found(s)
    /\ hand' = [hand EXCEPT ![h] = [IdleHandler EXCEPT !.pc = "claim", !.s = s]]
    /\ calls' = calls + 1
    /\ UNCHANGED <<rowVars, staged, canonical, cleaned, clean>>

\* The first lines of finalize: an uploaded session is claimed, one that is being
\* verified already is joined at its version, any other is refused.
Claim(h) ==
    LET s == hand[h].s
        v == session[s].version
    IN  /\ hand[h].pc = "claim"
        /\ \/ /\ AtUpload(s, v, "uploaded")
              /\ Advance(s, "verifying")
              /\ hand' = [hand EXCEPT ![h].pc = "open", ![h].v = v + 1]
           \/ /\ session[s].state = "verifying"
              /\ hand' = [hand EXCEPT ![h].pc = "open", ![h].v = v]
              /\ UNCHANGED session
           \/ /\ ~AtUpload(s, v, "uploaded") /\ session[s].state # "verifying"
              /\ Return(h)
              /\ UNCHANGED session
        /\ UNCHANGED <<staged, canonical, uploaded, assets, ended, cleaned, clean, calls>>

\* reclaim_verification of a verification that was started long enough ago.
Reclaim(h, s) ==
    /\ hand[h].pc = "idle" /\ calls < CallBound
    /\ AtUpload(s, session[s].version, "verifying")
    /\ Advance(s, "verifying")
    /\ hand' = [hand EXCEPT ![h] = [IdleHandler EXCEPT !.pc = "open", !.s = s,
                                    !.v = session[s].version + 1]]
    /\ calls' = calls + 1
    /\ UNCHANGED <<staged, canonical, uploaded, assets, ended, cleaned, clean>>

\* Mutant: the declared digest is not compared.
SizeMatches(s, d) == SizeOf[d] = ExpectedSize[s]
Acceptable(s, d) ==
    /\ ExpectedSize[s] <= MaxUploadBytes
    /\ SizeOf[d] = ExpectedSize[s]
    /\ d \in ExpectedSha[s]

\* The verdict of the media probe, a child process that may fail or time out on
\* media it would accept.
Probed(d) == IF d \in Playable THEN BOOLEAN ELSE {FALSE}

\* open_reader of the staging store.
Readable(s) == staged[s] # NoContent

\* The staged bytes are read into a private snapshot, hashed and probed; a
\* missing object is an error that leaves the session as it is.
Snapshot(h) ==
    LET s == hand[h].s
        d == staged[s]
    IN  /\ hand[h].pc = "open"
        /\ \/ ~Readable(s) /\ Return(h)
           \/ /\ Readable(s)
              /\ \E good \in Probed(d) :
                    hand' = [hand EXCEPT ![h].d = d,
                        ![h].pc = IF Acceptable(s, d) /\ good THEN "promote" ELSE "reject"]
        /\ UNCHANGED <<rowVars, staged, canonical, cleaned, clean, calls>>

\* Mutant: the staging object is deleted although the row was not rejected.
RejectedOrNot(h, won) == Move(h, "delete")
AfterCas(h, won) == IF won THEN Move(h, "delete") ELSE Return(h)

RejectUpload(h) ==
    LET s == hand[h].s
        won == AtUpload(s, hand[h].v, "verifying")
    IN  /\ hand[h].pc = "reject"
        /\ IF won THEN Advance(s, "rejected") /\ ended' = Append(ended, s)
                  ELSE UNCHANGED <<session, ended>>
        /\ AfterCas(h, won)
        /\ UNCHANGED <<staged, canonical, uploaded, assets, cleaned, clean, calls>>

NotPromoted(d) == canonical                     \* mutant: rows before bytes
Promoted(d) == canonical \cup {d}

PutCanonical(h) ==
    /\ hand[h].pc = "promote"
    /\ canonical' = Promoted(hand[h].d)
    /\ Move(h, "finalize")
    /\ UNCHANGED <<rowVars, staged, cleaned, clean, calls>>

\* The asset row that finalize makes of the session and the promoted object.
AssetOf(s, d) == <<s, d>>

\* finalize_verified: blob row, asset row and session in one transaction.  The
\* blob row of bytes that another component registered with other metadata is a
\* conflict, which rolls everything back.
FinalizeVerified(h) ==
    LET s == hand[h].s
        d == hand[h].d
        won == AtUpload(s, hand[h].v, "verifying")
    IN  /\ hand[h].pc = "finalize"
        /\ \/ /\ won
              /\ session' = [session EXCEPT ![s].state = "verified", ![s].blob = d,
                                            ![s].version = @ + 1]
              /\ uploaded' = uploaded \cup {d}
              /\ assets' = assets \cup {AssetOf(s, d)}
              /\ ended' = Append(ended, s)
              /\ Move(h, "delete")
           \/ UNCHANGED rowVars /\ Return(h)
        /\ UNCHANGED <<staged, canonical, cleaned, clean, calls>>

DeleteStaged(h) ==
    /\ hand[h].pc = "delete"
    /\ staged' = [staged EXCEPT ![hand[h].s] = NoContent]
    /\ Return(h)
    /\ UNCHANGED <<rowVars, canonical, cleaned, clean, calls>>

\* The request or the process dies, or its next access fails.
Abort(h) ==
    /\ hand[h].pc # "idle"
    /\ Return(h)
    /\ UNCHANGED <<rowVars, staged, canonical, cleaned, clean, calls>>

-----------------------------------------------------------------------------
(* Expiry and cleanup *)

\* expire_batch: at most limit overdue rows; rows that are locked are skipped.
ExpireAll(S) ==
    /\ session' = [s \in Sessions |-> IF s \in S
            THEN [session[s] EXCEPT !.state = "expired", !.version = @ + 1]
            ELSE session[s]]
    /\ ended' = ended \o SetToSeq(S)

ExpiryBatch(S) == (\A s \in S : Overdue(s)) /\ Cardinality(S) <= CleanLimit

CleanStart(c, S) ==
    /\ clean[c].pc = "idle"
    /\ ExpiryBatch(S)
    /\ ExpireAll(S)
    /\ clean' = [clean EXCEPT ![c].pc = "list", ![c].budget = CleanLimit - Cardinality(S)]
    /\ UNCHANGED <<staged, canonical, uploaded, assets, cleaned, hand, calls>>

\* UploadVerifier.janitor: neither a limit nor evidence of what it deletes.
Janitor(c) ==
    /\ clean[c].pc = "idle"
    /\ ExpireAll({s \in Sessions : Overdue(s)})
    /\ clean' = [clean EXCEPT ![c].pc = "list", ![c].audit = FALSE]
    /\ UNCHANGED <<staged, canonical, uploaded, assets, cleaned, hand, calls>>

FirstFew(q, n) == SubSeq(q, 1, IF n < Len(q) THEN n ELSE Len(q))
StagingCandidates(limit) ==
    FirstFew(Keep(ended, Sessions \ cleaned), limit)

CleanList(c) ==
    LET found == StagingCandidates(IF clean[c].audit THEN clean[c].budget ELSE Len(ended))
    IN  /\ clean[c].pc = "list"
        /\ clean' = [clean EXCEPT ![c] = IF found = <<>> THEN IdleCleaner
                        ELSE [clean[c] EXCEPT !.pc = "delete", !.todo = found]]
        /\ UNCHANGED <<rowVars, staged, canonical, cleaned, hand, calls>>

\* On to the next candidate.
NextCandidate(c) ==
    LET rest == Tail(clean[c].todo)
    IN  clean' = [clean EXCEPT ![c] = IF rest = <<>> THEN IdleCleaner
                    ELSE [clean[c] EXCEPT !.pc = "delete", !.todo = rest]]

\* Mutant: a deletion that failed is recorded all the same.
CleanDeleteFails(c) ==
    /\ clean[c].pc = "delete"
    /\ clean' = [clean EXCEPT ![c].pc = "record"]
    /\ UNCHANGED <<rowVars, staged, canonical, cleaned, hand, calls>>

CleanDelete(c) ==
    /\ clean[c].pc = "delete"
    /\ staged' = [staged EXCEPT ![Head(clean[c].todo)] = NoContent]
    /\ IF clean[c].audit THEN clean' = [clean EXCEPT ![c].pc = "record"]
                         ELSE NextCandidate(c)
    /\ UNCHANGED <<rowVars, canonical, cleaned, hand, calls>>

NoEvidence(s) == cleaned                        \* mutant: nothing is recorded
Evidence(s) == cleaned \cup {s}

CleanRecord(c) ==
    /\ clean[c].pc = "record"
    /\ cleaned' = Evidence(Head(clean[c].todo))
    /\ NextCandidate(c)
    /\ UNCHANGED <<rowVars, staged, canonical, hand, calls>>

\* The recovery process dies, or one of its accesses fails.
CleanAbort(c) ==
    /\ clean[c].pc # "idle"
    /\ clean' = [clean EXCEPT ![c] = IdleCleaner]
    /\ UNCHANGED <<rowVars, staged, canonical, cleaned, hand, calls>>

UploadTick ==
    /\ \E s \in Sessions : session[s].state \in OpenUpload /\ session[s].ttl >= 0
    /\ session' = [s \in Sessions |->
            IF session[s].state \in OpenUpload /\ session[s].ttl >= 0
            THEN [session[s] EXCEPT !.ttl = @ - 1] ELSE session[s]]
    /\ UNCHANGED <<staged, canonical, uploaded, assets, ended, cleaned, hand, clean, calls>>

-----------------------------------------------------------------------------
(* The specification *)

UploadInit ==
    /\ session = [s \in Sessions |-> IF s \in Past THEN PastSession ELSE NoSession]
    /\ staged = [s \in Sessions |-> NoContent]
    /\ canonical = {} /\ uploaded = {} /\ assets = {}
    /\ ended = SetToSeq(Past) /\ cleaned = {}
    /\ hand = [h \in Handlers |-> IdleHandler]
    /\ clean = [c \in Cleaners |-> IdleCleaner]
    /\ calls = 0

HandlerStep(h) ==
    \/ \E s \in Sessions, d \in Contents : UploadStart(h, s, d)
    \/ \E s \in Sessions : VerifyStart(h, s) \/ Reclaim(h, s)
    \/ WriteStream(h) \/ MarkUploaded(h) \/ Claim(h) \/ Snapshot(h) \/ RejectUpload(h)
    \/ PutCanonical(h) \/ FinalizeVerified(h) \/ DeleteStaged(h) \/ Abort(h)

CleanerStep(c) ==
    \/ \E S \in SUBSET Sessions : CleanStart(c, S)
    \/ Janitor(c) \/ CleanList(c) \/ CleanDelete(c) \/ CleanRecord(c)

UploadNext ==
    \/ \E s \in Sessions : Initiate(s)
    \/ \E h \in Handlers : HandlerStep(h)
    \/ \E c \in Cleaners : CleanerStep(c) \/ CleanAbort(c)
    \/ UploadTick

UploadSpec == UploadInit /\ [][UploadNext]_upVars

\* The operator runs the recovery command again and again and its runs get to
\* their end; a row that is overdue is locked only for a moment at a time.
\* Handlers owe nothing: every one of them may die.
UploadFairness ==
    /\ WF_upVars(UploadTick)
    /\ \A c \in Cleaners :
        /\ WF_upVars(CleanerStep(c))
        /\ SF_upVars(CleanStart(c, {}))
        /\ SF_upVars(\E S \in SUBSET Sessions : S # {} /\ CleanStart(c, S))
        /\ SF_upVars(clean[c].budget > 0 /\ CleanList(c))
        /\ SF_upVars(clean[c].audit /\ CleanDelete(c))
        /\ SF_upVars(CleanRecord(c))

UploadFairSpec == UploadSpec /\ UploadFairness

-----------------------------------------------------------------------------
(* Correctness *)

\* A verified session names one asset and one canonical object, whose bytes are
\* in the store: finalize promotes before the rows say so, whoever dies between.
VerifiedHasBytes ==
    \A s \in Sessions :
        /\ session[s].state = "verified" => session[s].blob \in canonical \cap uploaded
        /\ {a \in assets : a[1] = s} =
              (IF session[s].state = "verified" THEN {<<s, session[s].blob>>} ELSE {})

\* What is verified is what the client declared when it initiated the session
\* (expected_size_bytes, expected_sha256) and what the probe accepted, although
\* the staging key may be written again while a verifier works.
VerifiedIsDeclared ==
    \A s \in Sessions : session[s].state = "verified" =>
        /\ SizeOf[session[s].blob] = ExpectedSize[s]
        /\ session[s].blob \in ExpectedSha[s] \cap Playable

\* The staged bytes of a session that waits for its verdict are there: no losing
\* verifier, janitor or recovery run deletes them under the one that will read them.
NeededStagingPresent ==
    \A s \in Sessions : session[s].state \in {"uploaded", "verifying"} => staged[s] # NoContent

\* A session that ended never changes again: a PUT or a verifier that comes late
\* with the version of the ended row does not open it.
EndedIsFinal ==
    [][\A s \in Sessions : session[s].state \in TerminalUpload => session'[s] = session[s]]_upVars

\* Every session ends, also one whose client vanished or whose verifier died
\* (expire_batch).
SessionsEnd ==
    \A s \in Sessions : (session[s].state # "none") ~> (session[s].state \in TerminalUpload)

\* A bounded recovery run that is repeated gets to every session that ended: rows
\* that were processed do not use its limit up again (record_staging_cleanup).  This
\* is about the evidence; EndedStagingDeleted is about the object.
CleanupNotStarved ==
    \A s \in Sessions : (session[s].state \in TerminalUpload) ~> (s \in cleaned)

\* A run is between its deletion of the staged object and the evidence of it.
Recording(s) == \E c \in Cleaners : clean[c].pc = "record" /\ Head(clean[c].todo) = s

\* What is staged for a session that ended is deleted before there is evidence that it
\* was, whoever died on the way, also when a PUT that came late has written it.  Only
\* a PUT that comes after the deletion leaves its object: no run looks for it again.
EndedStagingDeleted ==
    \A s \in Sessions :
        session[s].state \in TerminalUpload /\ staged[s] # NoContent /\ s \notin cleaned
                /\ ~Recording(s)
            ~> staged[s] = NoContent

-----------------------------------------------------------------------------
(* The inductive invariant of Uploads_proofs *)

Terminal(s) == session[s].state \in TerminalUpload
TerminalSessions == {s \in Sessions : Terminal(s)}
Waiting(s) == session[s].state \in {"uploaded", "verifying"}

UploadTypeOK ==
    /\ session \in [Sessions -> SessionRow]
    /\ staged \in [Sessions -> Contents \cup {NoContent}]
    /\ canonical \subseteq Contents /\ uploaded \subseteq Contents
    /\ cleaned \subseteq Sessions
    /\ hand \in [Handlers -> Handler] /\ clean \in [Cleaners -> Cleaner]
    /\ calls \in Nat

\* What a handler knows between two of its accesses.  A request that has written
\* finds its object unless the session ended; a verifier that is to promote holds
\* bytes that fit the declaration, whatever the staging key holds by now; and
\* only a session that ended is about to lose its staged bytes.
HandSound(h) ==
    LET s == hand[h].s
        d == hand[h].d
    IN  /\ hand[h].pc # "idle" => s \in Sessions
        /\ hand[h].pc = "write" => d \in Contents
        /\ hand[h].pc = "mark" => staged[s] # NoContent \/ Terminal(s)
        /\ hand[h].pc \in {"promote", "finalize"} =>
              d \in Contents /\ Acceptable(s, d) /\ d \in Playable
        /\ hand[h].pc = "finalize" => d \in canonical
        /\ hand[h].pc = "delete" => Terminal(s)

\* A recovery run deletes only the staged bytes of sessions that ended.
CleanSound(c) ==
    /\ clean[c].todo \in Seq(TerminalSessions)
    /\ clean[c].pc \in {"delete", "record"} => clean[c].todo # <<>>

UploadInv ==
    /\ UploadTypeOK
    /\ VerifiedHasBytes /\ VerifiedIsDeclared /\ NeededStagingPresent
    /\ ended \in Seq(TerminalSessions)
    /\ \A h \in Handlers : HandSound(h)
    /\ \A c \in Cleaners : CleanSound(c)

=============================================================================
