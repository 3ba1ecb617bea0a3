-------------------------- MODULE RemoteJobs_proofs --------------------------
(***************************************************************************)
(* Why a client is given only its own job and its own file, why a          *)
(* cancellation that was acknowledged is kept, and why no event is missed  *)
(* or repeated, although requests are lost, repeated and executed late.    *)
(* The inductive invariants are RemoteInv and, on top of it, EventInv of   *)
(* RemoteJobs.                                                             *)
(***************************************************************************)
EXTENDS RemoteJobs, TLAPS, SequenceTheorems, FiniteSetTheorems

-----------------------------------------------------------------------------
(* What a transaction may do to the tables *)

\* Tables d may follow the present ones: they are well formed, a namespace has
\* one job for the key, and no job loses its owner, its flag or its success.
DbStep(d) ==
    /\ d \in Tables /\ FlagsSound(d)
    /\ \A i, k \in DOMAIN d.jobs : d.jobs[i].ns = d.jobs[k].ns => i = k
    /\ \A k \in DOMAIN db.jobs :
        /\ k \in DOMAIN d.jobs
        /\ d.jobs[k].ns = db.jobs[k].ns /\ d.jobs[k].request = db.jobs[k].request
        /\ db.jobs[k].cancel => d.jobs[k].cancel
        /\ db.jobs[k].state = "succeeded" =>
              d.jobs[k].state = "succeeded" /\ d.jobs[k].tries = db.jobs[k].tries

\* Jobs that an open transaction holds are as they were.
LockedKept(d) ==
    \A w \in Writers : tx[w] # NoTx => d.jobs[tx[w].job] = db.jobs[tx[w].job]

\* The rows of well-formed tables.
LEMMA JobRows ==
    ASSUME NEW d \in Tables
    PROVE  /\ d.jobs \in Seq(RemoteJob) /\ Len(d.jobs) \in Nat /\ DOMAIN d.jobs = 1..Len(d.jobs)
           /\ \A k \in DOMAIN d.jobs : d.jobs[k] \in RemoteJob /\ k \in Nat /\ k # None
           /\ d.events \subseteq [job : Nat, id : Nat] /\ d.sequence \in Nat
<1>1. d.jobs \in Seq(RemoteJob) /\ d.events \subseteq [job : Nat, id : Nat] /\ d.sequence \in Nat
  BY DEF Tables
<1>2. Len(d.jobs) \in Nat /\ DOMAIN d.jobs = 1..Len(d.jobs)
      /\ \A k \in 1..Len(d.jobs) : d.jobs[k] \in RemoteJob
  BY <1>1, LenProperties, ElementOfSeq
<1>. QED  BY <1>1, <1>2 DEF None

\* A step that changes no job row.
LEMMA SameJobs ==
    ASSUME RemoteInv, NEW d \in Tables, d.jobs = db.jobs
    PROVE  DbStep(d) /\ LockedKept(d)
  BY DEF DbStep, LockedKept, RemoteInv, AcceptedIsMine, FlagsSound

\* An event is added to the log only.
LEMMA WithEventType ==
    ASSUME NEW d \in Tables, NEW j \in Nat
    PROVE  WithEvent(d, j) \in Tables /\ WithEvent(d, j).jobs = d.jobs
<1>. DEFINE n == d.sequence + 1
            E == d.events \cup {[job |-> j, id |-> n]}
<1>1. n \in Nat
  BY JobRows
<1>2. E \subseteq [job : Nat, id : Nat]
  BY <1>1, JobRows
<1>3. WithEvent(d, j) = [d EXCEPT !.events = E, !.sequence = n]
  BY DEF WithEvent
<1>. HIDE DEF n, E
<1>. QED  BY <1>1, <1>2, <1>3 DEF Tables

\* create_job, when the key is new in its namespace.
LEMMA AppendStep ==
    ASSUME RemoteInv, NEW row \in RemoteJob, row.state = "queued", row.cancel = FALSE,
           \A k \in DOMAIN db.jobs : db.jobs[k].ns # row.ns
    PROVE  LET j == Len(db.jobs) + 1
               d == WithEvent([db EXCEPT !.jobs = Append(db.jobs, row)], j)
           IN  DbStep(d) /\ LockedKept(d) /\ j \in DOMAIN d.jobs /\ d.jobs[j] = row
<1>. DEFINE j == Len(db.jobs) + 1
            q == Append(db.jobs, row)
            e == [db EXCEPT !.jobs = q]
            d == WithEvent(e, j)
<1>1. db \in Tables
  BY DEF RemoteInv, RemoteTypeOK
<1>2. /\ Len(db.jobs) \in Nat /\ DOMAIN db.jobs = 1..Len(db.jobs) /\ db.jobs \in Seq(RemoteJob)
      /\ \A k \in DOMAIN db.jobs : db.jobs[k] \in RemoteJob
  BY <1>1, JobRows
<1>3. /\ q \in Seq(RemoteJob) /\ Len(q) = j /\ q[j] = row
      /\ \A k \in 1..Len(db.jobs) : q[k] = db.jobs[k]
  BY <1>2, AppendProperties
<1>4. DOMAIN q = 1..j
  BY <1>3, LenProperties
<1>. HIDE DEF q
<1>5. e \in Tables /\ e.jobs = q
  BY <1>1, <1>3 DEF Tables
<1>. HIDE DEF e
<1>6. j \in Nat /\ \A k \in 1..j : k = j \/ k \in DOMAIN db.jobs
  BY <1>2
<1>7. d \in Tables /\ d.jobs = q
  BY <1>5, <1>6, WithEventType
<1>. HIDE DEF d
<1>8. DOMAIN db.jobs \subseteq 1..j /\ j \in 1..j /\ j \notin DOMAIN db.jobs
  BY <1>2
<1>. HIDE DEF j
<1>9. \A k \in DOMAIN db.jobs : k \in DOMAIN q /\ q[k] = db.jobs[k]
  BY <1>2, <1>3, <1>4, <1>8
<1>10. FlagsSound(d)
  BY <1>3, <1>4, <1>6, <1>7, <1>9 DEF FlagsSound, RemoteInv
<1>11. \A i, k \in DOMAIN q : q[i].ns = q[k].ns => i = k
  BY <1>3, <1>4, <1>6, <1>9 DEF RemoteInv, AcceptedIsMine
<1>12. DbStep(d)
  BY <1>7, <1>9, <1>10, <1>11 DEF DbStep
<1>13. LockedKept(d)
  BY <1>7, <1>9 DEF LockedKept, RemoteInv, TxSound
<1>14. j \in DOMAIN d.jobs /\ d.jobs[j] = row
  BY <1>3, <1>4, <1>7, <1>8
<1>. QED  BY <1>12, <1>13, <1>14 DEF d, e, q, j

\* One row is replaced, of a job that no open transaction holds.
LEMMA RowReplaced ==
    ASSUME RemoteInv, NEW j \in DOMAIN db.jobs, NEW row \in RemoteJob,
           row.ns = db.jobs[j].ns, row.request = db.jobs[j].request,
           db.jobs[j].cancel => row.cancel, db.jobs[j].state # "succeeded",
           row.cancel => row.state \in {"running", "cancelled"},
           NEW d \in Tables, d.jobs = [db.jobs EXCEPT ![j] = row]
    PROVE  /\ DbStep(d) /\ d.jobs[j] = row
           /\ \A k \in DOMAIN db.jobs : k # j => d.jobs[k] = db.jobs[k]
<1>1. db \in Tables
  BY DEF RemoteInv, RemoteTypeOK
<1>2. DOMAIN d.jobs = DOMAIN db.jobs /\ d.jobs[j] = row
      /\ \A k \in DOMAIN db.jobs : k # j => d.jobs[k] = db.jobs[k]
  OBVIOUS
<1>3. FlagsSound(d)
  BY <1>2 DEF FlagsSound, RemoteInv
<1>4. \A k \in DOMAIN d.jobs : d.jobs[k].ns = db.jobs[k].ns
  BY <1>2
<1>5. \A i, k \in DOMAIN d.jobs : d.jobs[i].ns = d.jobs[k].ns => i = k
  BY <1>2, <1>4 DEF RemoteInv, AcceptedIsMine
<1>6. DbStep(d)
  BY <1>2, <1>3, <1>5 DEF DbStep
<1>. QED  BY <1>2, <1>6

\* request_cancel flags a job that is open and leaves one that ended alone.
LEMMA CancelStep ==
    ASSUME RemoteInv, NEW j \in DOMAIN db.jobs, Unlocked(j)
    PROVE  LET e == RequestCancel(j)
           IN  /\ DbStep(e.db) /\ LockedKept(e.db)
               /\ e.ok /\ e.answer = e.db.jobs[j].cancel
<1>1. db \in Tables
  BY DEF RemoteInv, RemoteTypeOK
<1>2. /\ DOMAIN db.jobs = 1..Len(db.jobs) /\ db.jobs \in Seq(RemoteJob)
      /\ db.jobs[j] \in RemoteJob /\ j \in Nat
  BY <1>1, JobRows
<1>3. CASE db.jobs[j].state \notin {"queued", "running"}
  <2>1. RequestCancel(j) = [db |-> db, ok |-> TRUE, answer |-> db.jobs[j].cancel]
    BY <1>3 DEF RequestCancel, Effect
  <2>. QED  BY <1>1, <2>1, SameJobs
<1>4. CASE db.jobs[j].state \in {"queued", "running"}
  <2>. DEFINE s == IF db.jobs[j].state = "queued" THEN "cancelled" ELSE db.jobs[j].state
              row == [db.jobs[j] EXCEPT !.cancel = TRUE, !.state = s]
              q == [db.jobs EXCEPT ![j] = row]
              f == [db EXCEPT !.jobs = q]
              d == WithEvent(f, j)
  <2>1. RequestCancel(j) = [db |-> d, ok |-> TRUE, answer |-> d.jobs[j].cancel]
    <3>1. [db EXCEPT !.jobs[j].cancel = TRUE,
                     !.jobs[j].state = IF @ = "queued" THEN "cancelled" ELSE @] = f
      BY <1>1, <1>2 DEF Tables, RemoteJob
    <3>. HIDE DEF f
    <3>. QED  BY <1>4, <3>1 DEF RequestCancel, Effect
  <2>2. s \in {"running", "cancelled"}
    BY <1>4
  <2>. HIDE DEF s
  <2>3. row \in RemoteJob /\ row.ns = db.jobs[j].ns /\ row.request = db.jobs[j].request
        /\ row.cancel = TRUE /\ row.state = s
    BY <1>2, <2>2 DEF RemoteJob, RemoteState, Terminal
  <2>. HIDE DEF row
  <2>4. q \in Seq(RemoteJob)
    BY <1>2, <2>3, ExceptSeq
  <2>5. f \in Tables /\ f.jobs = q
    <3>. HIDE DEF q
    <3>. QED  BY <1>1, <2>4 DEF Tables
  <2>. HIDE DEF f
  <2>6. d \in Tables /\ d.jobs = q
    BY <1>2, <2>5, WithEventType
  <2>. HIDE DEF d
  <2>7. /\ DbStep(d) /\ d.jobs[j] = row
        /\ \A k \in DOMAIN db.jobs : k # j => d.jobs[k] = db.jobs[k]
    <3>1. db.jobs[j].state # "succeeded"
      BY <1>4
    <3>. QED  BY <2>2, <2>3, <2>6, <3>1, RowReplaced
  <2>8. LockedKept(d)
    BY <2>7 DEF LockedKept, RemoteInv, TxSound, Unlocked
  <2>. QED  BY <2>1, <2>7, <2>8
<1>. QED  BY <1>3, <1>4

\* create_job answers with the job of this namespace and this request.
LEMMA CreateStep ==
    ASSUME RemoteInv, NEW req, req.ns \in Namespaces, req.request \in Requests
    PROVE  LET e == CreateJob(req)
           IN  /\ DbStep(e.db) /\ LockedKept(e.db)
               /\ e.ok => /\ e.answer \in DOMAIN e.db.jobs
                          /\ e.db.jobs[e.answer].ns = req.ns
                          /\ e.db.jobs[e.answer].request = req.request
<1>. DEFINE j == Len(db.jobs) + 1
            same == {k \in DOMAIN db.jobs : db.jobs[k].ns = req.ns}
            row == [ns |-> req.ns, request |-> req.request, state |-> "queued",
                    cancel |-> FALSE, tries |-> 0]
            new == WithEvent([db EXCEPT !.jobs = Append(db.jobs, row)], j)
            k1 == CHOOSE k \in same : TRUE
<1>1. DbStep(db) /\ LockedKept(db)
  BY SameJobs DEF RemoteInv, RemoteTypeOK
<1>2. CreateJob(req) = IF ~ready THEN Refusal
                       ELSE IF same # {}
                       THEN IF SameSubmission(db.jobs[k1], req) THEN Effect(db, k1) ELSE Refusal
                       ELSE Effect(new, j)
  BY DEF CreateJob
<1>3. CASE CreateJob(req) = Refusal
  BY <1>1, <1>3 DEF Refusal
<1>4. CASE same # {} /\ SameSubmission(db.jobs[k1], req) /\ CreateJob(req) = Effect(db, k1)
  <2>1. k1 \in same
    BY <1>4
  <2>2. k1 \in DOMAIN db.jobs /\ db.jobs[k1].ns = req.ns /\ db.jobs[k1].request = req.request
    BY <1>4, <2>1 DEF SameSubmission
  <2>. HIDE DEF k1
  <2>. QED  BY <1>1, <1>4, <2>2 DEF Effect
<1>5. CASE same = {} /\ CreateJob(req) = Effect(new, j)
  <2>1. row \in RemoteJob /\ row.state = "queued" /\ row.cancel = FALSE /\ row.ns = req.ns
        /\ row.request = req.request
    BY DEF RemoteJob, RemoteState
  <2>2. \A k \in DOMAIN db.jobs : db.jobs[k].ns # row.ns
    BY <1>5, <2>1
  <2>. HIDE DEF row
  <2>3. DbStep(new) /\ LockedKept(new) /\ j \in DOMAIN new.jobs /\ new.jobs[j] = row
    BY <2>1, <2>2, AppendStep
  <2>. HIDE DEF new
  <2>. QED  BY <1>5, <2>1, <2>3 DEF Effect
<1>. QED  BY <1>2, <1>3, <1>4, <1>5

\* Whatever request is executed, and whoever waits for it, the tables stay right.
LEMMA HandleStep ==
    ASSUME RemoteInv, NEW req, RequestSound(req), req.kind \in Asking, Executable(req)
    PROVE  LET e == Handle(req)
           IN  /\ DbStep(e.db) /\ LockedKept(e.db)
               /\ req.kind = "submit" /\ e.ok =>
                    /\ e.answer \in DOMAIN e.db.jobs
                    /\ e.db.jobs[e.answer].ns = req.ns
                    /\ e.db.jobs[e.answer].request = req.request
                    /\ req.token = req.ns
               /\ req.kind = "cancel" /\ e.ok => e.answer = e.db.jobs[req.job].cancel
               /\ req.kind = "status" /\ e.ok => e.answer = e.db.jobs[req.job].state
               /\ req.kind = "download" /\ e.ok => e.db = db /\ e.answer = Visible(req.job)
               /\ req.kind \notin {"submit", "cancel"} => e.db = db
<1>1. DbStep(db) /\ LockedKept(db)
  BY SameJobs DEF RemoteInv, RemoteTypeOK
<1>2. Refusal.db = db /\ Refusal.ok = FALSE
  BY DEF Refusal
<1>3. \A x : Effect(db, x).db = db /\ Effect(db, x).answer = x
  BY DEF Effect
<1>4. CASE req.kind = "submit"
  <2>1. /\ DbStep(CreateJob(req).db) /\ LockedKept(CreateJob(req).db)
        /\ CreateJob(req).ok => /\ CreateJob(req).answer \in DOMAIN CreateJob(req).db.jobs
                                /\ CreateJob(req).db.jobs[CreateJob(req).answer].ns = req.ns
                                /\ CreateJob(req).db.jobs[CreateJob(req).answer].request
                                     = req.request
    BY CreateStep DEF RequestSound
  <2>2. Handle(req) = IF req.token = req.ns THEN CreateJob(req) ELSE Refusal
    BY <1>4 DEF Handle, Submit, Allows, Authenticate
  <2>. QED  BY <1>1, <1>2, <1>4, <2>1, <2>2
<1>5. CASE req.kind # "submit" /\ ~Owned(req)
  <2>1. Handle(req) = Refusal
    BY <1>5 DEF Handle
  <2>. QED  BY <1>1, <1>2, <1>5, <2>1
<1>6. CASE req.kind = "cancel" /\ Owned(req)
  <2>1. Handle(req) = RequestCancel(req.job)
    BY <1>6 DEF Handle, Cancel
  <2>2. Unlocked(req.job) /\ req.job \in DOMAIN db.jobs
    BY <1>6 DEF Executable, RequestSound
  <2>. QED  BY <1>6, <2>1, <2>2, CancelStep
<1>7. CASE req.kind = "events" /\ Owned(req)
  <2>1. Handle(req) = Effect(db, Page(req.job, req.cursor))
    BY <1>7 DEF Handle, GetEvents
  <2>. QED  BY <1>1, <1>3, <1>7, <2>1
<1>8. CASE req.kind = "status" /\ Owned(req)
  <2>1. Handle(req) = Effect(db, db.jobs[req.job].state)
    BY <1>8 DEF Handle, GetJob
  <2>. QED  BY <1>1, <1>3, <1>8, <2>1
<1>9. CASE req.kind \in {"artifacts", "download"} /\ Owned(req)
  <2>1. Handle(req) = Effect(db, Visible(req.job))
    BY <1>9 DEF Handle, GetArtifacts
  <2>. QED  BY <1>1, <1>3, <1>9, <2>1
<1>. QED  BY <1>4, <1>5, <1>6, <1>7, <1>8, <1>9 DEF Asking

-----------------------------------------------------------------------------
(* RemoteInv, by the values it speaks of *)

\* The transactions t are sound in tables d.
TxGood(t, d) ==
    /\ t \in [Writers -> Transaction]
    /\ \A w \in Writers : t[w] # NoTx =>
        t[w].job \in DOMAIN d.jobs /\ t[w].to \in Outcomes(d.jobs[t[w].job])
    /\ \A w, v \in Writers : t[w].job = t[v].job /\ t[w] # NoTx => w = v

\* A given-up request is sound in tables d.
LateGood(req, d) ==
    /\ req.kind \in {"submit", "cancel"}
    /\ req.ns \in Namespaces /\ req.request \in Requests
    /\ req.kind # "submit" => req.job \in DOMAIN d.jobs

\* Record r of client c is sound with tables d and target f: what ClientSound,
\* AcceptedIsMine and DownloadIsMine say of one client.
Good(c, r, d, f) ==
    /\ DOMAIN r = DOMAIN Fresh
    /\ r.pc \in Asking \cup {"publish", "failed", "ended"}
    /\ r.job # None => /\ r.job \in DOMAIN d.jobs
                       /\ d.jobs[r.job].ns = command[c].ns
                       /\ d.jobs[r.job].request = command[c].request
                       /\ d.jobs[r.job].ns = command[c].token
    /\ r.pc \notin {"submit", "failed", "ended"} => r.job # None
    /\ r.pc \in {"artifacts", "download", "publish"} => d.jobs[r.job].state = "succeeded"
    /\ r.pc = "publish" => r.part = <<r.job, d.jobs[r.job].tries>>
    /\ r.told => r.pc = "ended" /\ r.job # None /\ d.jobs[r.job].cancel
    /\ r.got # NoFile => /\ r.pc = "ended" /\ r.job # None /\ f = r.got
                         /\ d.jobs[r.job].state = "succeeded"
                         /\ r.got = <<r.job, d.jobs[r.job].tries>>

LEMMA GoodClient ==
    ASSUME RemoteInv, NEW c \in Clients
    PROVE  Good(c, client[c], db, file)
<1>1. ClientSound(c)
  BY DEF RemoteInv
<1>2. client[c].job # None =>
        /\ db.jobs[client[c].job].ns = command[c].ns
        /\ db.jobs[client[c].job].request = command[c].request
        /\ db.jobs[client[c].job].ns = command[c].token
  BY DEF RemoteInv, AcceptedIsMine
<1>3. client[c].got # NoFile => file = client[c].got /\ client[c].got \in Visible(client[c].job)
  BY DEF RemoteInv, DownloadIsMine
<1>4. \A j : \A x \in Visible(j) : db.jobs[j].state = "succeeded" /\ x = <<j, db.jobs[j].tries>>
  BY DEF Visible, Artifact
<1>5. client[c].got # NoFile =>
        /\ db.jobs[client[c].job].state = "succeeded"
        /\ client[c].got = <<client[c].job, db.jobs[client[c].job].tries>>
  BY <1>3, <1>4
<1>. QED  BY <1>1, <1>2, <1>3, <1>5 DEF Good, ClientSound, Artifact

\* A client that does not move is as right in the tables that follow.
LEMMA GoodKept ==
    ASSUME RemoteInv, NEW d, DbStep(d), NEW f, f = file \/ file = NoFile, NEW c \in Clients
    PROVE  Good(c, client[c], d, f)
  BY GoodClient DEF Good, DbStep

\* A step whose parts are sound keeps RemoteInv.
LEMMA Keeps ==
    ASSUME RemoteInv, UNCHANGED command, DbStep(db'), TxGood(tx', db'),
           \A req \in late' : req \in late \/ LateGood(req, db),
           DOMAIN client' = Clients, file' = file \/ file = NoFile,
           \A c \in Clients : client'[c] = client[c] \/ Good(c, client'[c], db', file')
    PROVE  RemoteInv'
<1>1. \A c \in Clients : Good(c, client'[c], db', file')
  BY GoodKept
<1>2. RemoteTypeOK'
  BY DEF RemoteTypeOK, RemoteInv, DbStep, TxGood
<1>3. AcceptedIsMine'
  BY <1>1 DEF AcceptedIsMine, DbStep, Good
<1>4. DownloadIsMine'
  <2>. SUFFICES ASSUME NEW c \in Clients, client'[c].got # NoFile
                PROVE  file' = client'[c].got /\ client'[c].got \in Visible(client[c].job)'
    BY DEF DownloadIsMine
  <2>1. /\ file' = client'[c].got /\ db'.jobs[client'[c].job].state = "succeeded"
        /\ client'[c].got = <<client'[c].job, db'.jobs[client'[c].job].tries>>
    BY <1>1 DEF Good
  <2>. QED  BY <2>1 DEF Visible, Artifact
<1>5. FlagsSound(db')
  BY DEF DbStep
<1>6. TxSound'
  BY DEF TxSound, TxGood
<1>7. \A req \in late : LateGood(req, db)
  BY DEF RemoteInv, RequestSound, LateGood
<1>8. \A req \in late' : LateGood(req, db')
  BY <1>7 DEF LateGood, DbStep
<1>9. \A req \in late' : req.kind \in {"submit", "cancel"} /\ RequestSound(req)'
  BY <1>8 DEF LateGood, RequestSound
<1>10. \A c \in Clients : ClientSound(c)'
  <2>. TAKE c \in Clients
  <2>1. Good(c, client'[c], db', file')
    BY <1>1
  <2>. QED  BY <2>1 DEF ClientSound, Good, Artifact
<1>11. (\A req \in late : req.kind \in {"submit", "cancel"} /\ RequestSound(req))'
  BY <1>9
<1>12. (\A c \in Clients : ClientSound(c))'
  BY <1>10
<1>13. FlagsSound(db)'
  BY <1>5 DEF FlagsSound
<1>. QED  BY <1>2, <1>3, <1>4, <1>6, <1>11, <1>12, <1>13 DEF RemoteInv

\* The open transactions are right in tables that leave their jobs alone.
LEMMA TxKept ==
    ASSUME RemoteInv, NEW d, DbStep(d), LockedKept(d)
    PROVE  TxGood(tx, d)
  BY DEF RemoteInv, RemoteTypeOK, TxSound, TxGood, DbStep, LockedKept

\* A client that has not ended moves to r, with the job that it had.
LEMMA Moved ==
    ASSUME RemoteInv, NEW c \in Clients, client[c].pc # "ended", NEW d, DbStep(d), NEW r,
           NEW f,
           DOMAIN r = DOMAIN Fresh, r.job = client[c].job, r.told = client[c].told,
           r.got = client[c].got,
           r.pc \in Asking \cup {"publish", "failed", "ended"},
           r.pc \notin {"submit", "failed", "ended"} => r.job # None,
           r.pc \in {"artifacts", "download", "publish"} => d.jobs[r.job].state = "succeeded",
           r.pc = "publish" => r.part = <<r.job, d.jobs[r.job].tries>>
    PROVE  Good(c, r, d, f) /\ ~r.told /\ r.got = NoFile
<1>1. Good(c, client[c], d, file)
  BY GoodKept
<1>2. ~client[c].told /\ client[c].got = NoFile
  BY <1>1 DEF Good
<1>. QED  BY <1>1, <1>2 DEF Good

-----------------------------------------------------------------------------
(* The steps of the queue *)

LEMMA BeginStep ==
    ASSUME RemoteInv, NEW w \in Writers, Begin(w)
    PROVE  RemoteInv'
<1>0. PICK j \in DOMAIN db.jobs : \E to \in Outcomes(db.jobs[j]) :
        /\ Unlocked(j)
        /\ tx' = [tx EXCEPT ![w] = [job |-> j, to |-> to, id |-> db.sequence + 1]]
        /\ db' = [db EXCEPT !.sequence = db.sequence + 1]
  BY DEF Begin
<1>1. PICK to \in Outcomes(db.jobs[j]) :
        /\ Unlocked(j)
        /\ tx' = [tx EXCEPT ![w] = [job |-> j, to |-> to, id |-> db.sequence + 1]]
        /\ db' = [db EXCEPT !.sequence = db.sequence + 1]
  BY <1>0
<1>2. db \in Tables /\ tx \in [Writers -> Transaction] /\ DOMAIN client = Clients
  BY DEF RemoteInv, RemoteTypeOK
<1>3. j \in Nat /\ db.sequence \in Nat /\ db.jobs[j] \in RemoteJob
  BY <1>2, JobRows
<1>4. db' \in Tables /\ db'.jobs = db.jobs
  <2>. DEFINE n == db.sequence + 1
  <2>1. n \in Nat
    BY <1>3
  <2>. HIDE DEF n
  <2>2. db' = [db EXCEPT !.sequence = n]
    BY <1>1 DEF n
  <2>. QED  BY <1>2, <2>1, <2>2 DEF Tables
<1>5. DbStep(db')
  BY <1>4, SameJobs
<1>6. to \in RemoteState
  BY <1>1 DEF Outcomes, RemoteState, Terminal
<1>7. TxGood(tx', db')
  <2>. DEFINE t == [job |-> j, to |-> to, id |-> db.sequence + 1]
  <2>1. t \in Transaction /\ t.job = j /\ t.to = to
    BY <1>3, <1>6 DEF Transaction
  <2>. HIDE DEF t
  <2>2. tx' = [tx EXCEPT ![w] = t]
    BY <1>1 DEF t
  <2>3. tx'[w] = t /\ \A v \in Writers : v # w => tx'[v] = tx[v]
    BY <1>2, <2>2
  <2>4. tx' \in [Writers -> Transaction]
    BY <1>2, <2>1, <2>2
  <2>5. \A v \in Writers : tx'[v] # NoTx =>
            tx'[v].job \in DOMAIN db.jobs /\ tx'[v].to \in Outcomes(db.jobs[tx'[v].job])
    BY <1>1, <2>1, <2>3 DEF RemoteInv, TxSound
  <2>6. \A v, u \in Writers : tx'[v].job = tx'[u].job /\ tx'[v] # NoTx => v = u
    BY <1>1, <2>1, <2>3 DEF RemoteInv, TxSound, Unlocked
  <2>. QED  BY <1>4, <2>4, <2>5, <2>6 DEF TxGood
<1>. QED  BY <1>2, <1>5, <1>7, Keeps DEF Begin

\* The row that a transaction leaves is one that its outcome allows.
LEMMA CommitStep ==
    ASSUME RemoteInv, NEW w \in Writers, Commit(w)
    PROVE  RemoteInv'
<1>. DEFINE j == tx[w].job
            to == tx[w].to
            n == db.jobs[j].tries + (IF to = "running" THEN 1 ELSE 0)
            row == [db.jobs[j] EXCEPT !.state = to, !.tries = n]
            q == [db.jobs EXCEPT ![j] = row]
            E == db.events \cup {[job |-> j, id |-> tx[w].id]}
<1>1. db \in Tables /\ tx \in [Writers -> Transaction] /\ DOMAIN client = Clients
  BY DEF RemoteInv, RemoteTypeOK
<1>2. j \in DOMAIN db.jobs /\ to \in Outcomes(db.jobs[j])
  BY DEF RemoteInv, TxSound, Commit
<1>3. /\ db.jobs[j] \in RemoteJob /\ j \in Nat /\ db.jobs \in Seq(RemoteJob)
      /\ DOMAIN db.jobs = 1..Len(db.jobs) /\ db.events \subseteq [job : Nat, id : Nat]
  BY <1>1, <1>2, JobRows
<1>4. db' = [db EXCEPT !.jobs = q, !.events = E]
  <2>1. db' = [db EXCEPT !.jobs[j].state = to,
                         !.jobs[j].tries = @ + (IF to = "running" THEN 1 ELSE 0),
                         !.events = @ \cup {[job |-> j, id |-> tx[w].id]}]
    BY DEF Commit
  <2>. HIDE DEF j, to
  <2>. QED  BY <1>1, <1>2, <1>3, <2>1 DEF Tables, RemoteJob
<1>5. tx[w].id \in Nat
  BY <1>1 DEF Transaction
<1>6. E \subseteq [job : Nat, id : Nat]
  BY <1>3, <1>5
<1>7. /\ to \in RemoteState /\ db.jobs[j].state # "succeeded"
      /\ db.jobs[j].cancel => to \in {"running", "cancelled"}
  <2>1. db.jobs[j].cancel => db.jobs[j].state # "queued"
    BY <1>2 DEF RemoteInv, FlagsSound
  <2>. QED  BY <1>2, <1>3, <2>1 DEF Outcomes, RemoteState, Terminal, RemoteJob
<1>. HIDE DEF j, to, E
<1>8. n \in Nat
  BY <1>3 DEF RemoteJob
<1>. HIDE DEF n
<1>9. row \in RemoteJob /\ row.ns = db.jobs[j].ns /\ row.request = db.jobs[j].request
      /\ row.cancel = db.jobs[j].cancel /\ row.state = to
  BY <1>3, <1>7, <1>8 DEF RemoteJob
<1>. HIDE DEF row
<1>10. q \in Seq(RemoteJob)
  BY <1>2, <1>3, <1>9, ExceptSeq
<1>11. db' \in Tables /\ db'.jobs = q
  <2>. HIDE DEF q
  <2>. QED  BY <1>1, <1>4, <1>6, <1>10 DEF Tables
<1>12. /\ DbStep(db')
       /\ \A k \in DOMAIN db.jobs : k # j => db'.jobs[k] = db.jobs[k]
  BY <1>2, <1>7, <1>9, <1>11, RowReplaced
<1>13. TxGood(tx', db')
  <2>1. tx' = [tx EXCEPT ![w] = NoTx]
    BY DEF Commit
  <2>2. NoTx \in Transaction
    BY DEF NoTx, Transaction, None
  <2>. HIDE DEF NoTx
  <2>3. tx'[w] = NoTx /\ \A v \in Writers : v # w => tx'[v] = tx[v]
    BY <1>1, <2>1
  <2>4. tx' \in [Writers -> Transaction]
    BY <1>1, <2>1, <2>2
  <2>5. \A v \in Writers : v # w /\ tx[v] # NoTx => tx[v].job # j
    BY DEF RemoteInv, TxSound, j
  <2>6. \A v \in Writers : tx'[v] # NoTx =>
            tx'[v].job \in DOMAIN db'.jobs /\ tx'[v].to \in Outcomes(db'.jobs[tx'[v].job])
    BY <1>12, <2>3, <2>5 DEF RemoteInv, TxSound, DbStep
  <2>7. \A v, u \in Writers : tx'[v].job = tx'[u].job /\ tx'[v] # NoTx => v = u
    <3>1. NoTx.job = None /\ None \notin DOMAIN db.jobs
      BY <1>1, JobRows DEF NoTx
    <3>. QED  BY <2>3, <3>1 DEF RemoteInv, TxSound
  <2>. QED  BY <2>4, <2>6, <2>7 DEF TxGood
<1>. QED  BY <1>1, <1>12, <1>13, Keeps DEF Commit

LEMMA AbortStep ==
    ASSUME RemoteInv, NEW w \in Writers, Abort(w)
    PROVE  RemoteInv'
<1>1. db \in Tables /\ tx \in [Writers -> Transaction] /\ DOMAIN client = Clients
  BY DEF RemoteInv, RemoteTypeOK
<1>2. NoTx \in Transaction /\ NoTx.job = None /\ None \notin DOMAIN db.jobs
  BY <1>1, JobRows DEF NoTx, Transaction, None
<1>3. tx' \in [Writers -> Transaction] /\ tx'[w] = NoTx
      /\ \A v \in Writers : v # w => tx'[v] = tx[v]
  <2>. HIDE DEF NoTx
  <2>. QED  BY <1>1, <1>2 DEF Abort
<1>4. db' = db
  BY DEF Abort
<1>5. TxGood(tx', db)
  BY <1>2, <1>3 DEF TxGood, RemoteInv, TxSound
<1>6. DbStep(db)
  BY <1>1, SameJobs
<1>. QED  BY <1>1, <1>4, <1>5, <1>6, Keeps DEF Abort

\* A step that leaves tables and transactions alone.
LEMMA QuietStep ==
    ASSUME RemoteInv
    PROVE  DbStep(db) /\ TxGood(tx, db) /\ DOMAIN client = Clients
  BY SameJobs, TxKept DEF RemoteInv, RemoteTypeOK

LEMMA RetireStep ==
    ASSUME RemoteInv, Retire
    PROVE  RemoteInv'
  BY QuietStep, Keeps DEF Retire

-----------------------------------------------------------------------------
(* The steps of the clients *)

\* A client that gives up or ends keeps its job.
LEMMA FailedGood ==
    ASSUME RemoteInv, NEW c \in Clients, client[c].pc # "ended", NEW d, DbStep(d), NEW f
    PROVE  /\ Good(c, Failed(c), d, f) /\ Good(c, Ended(c), d, f) /\ Good(c, Refused(c), d, f)
           /\ Ended(c).job = client[c].job /\ DOMAIN Ended(c) = DOMAIN Fresh
           /\ Ended(c).pc = "ended" /\ ~Ended(c).told /\ Ended(c).got = NoFile
<1>1. DOMAIN client[c] = DOMAIN Fresh
  BY GoodClient DEF Good
<1>2. DOMAIN Fresh = {"pc", "job", "cursor", "seen", "polls", "part", "told", "got", "refused"}
  BY DEF Fresh
<1>3. /\ DOMAIN Failed(c) = DOMAIN Fresh /\ Failed(c).pc = "failed"
      /\ Failed(c).job = client[c].job /\ Failed(c).told = client[c].told
      /\ Failed(c).got = client[c].got
  BY <1>1, <1>2 DEF Failed
<1>4. /\ DOMAIN Ended(c) = DOMAIN Fresh /\ Ended(c).pc = "ended"
      /\ Ended(c).job = client[c].job /\ Ended(c).told = client[c].told
      /\ Ended(c).got = client[c].got
  <2>. HIDE DEF Failed
  <2>. QED  BY <1>2, <1>3 DEF Ended
<1>5. /\ DOMAIN Refused(c) = DOMAIN Fresh /\ Refused(c).pc = "failed"
      /\ Refused(c).job = client[c].job /\ Refused(c).told = client[c].told
      /\ Refused(c).got = client[c].got
  BY <1>2, <1>3 DEF Refused
<1>6. Good(c, Failed(c), d, f)
  BY <1>3, Moved
<1>7. Good(c, Ended(c), d, f) /\ ~Ended(c).told /\ Ended(c).got = NoFile
  BY <1>4, Moved
<1>8. Good(c, Refused(c), d, f)
  BY <1>5, Moved
<1>. QED  BY <1>4, <1>6, <1>7, <1>8

\* What a client asks for is sound.
LEMMA RequestIsSound ==
    ASSUME RemoteInv, NEW c \in Clients, client[c].pc \in Asking
    PROVE  /\ client[c].pc \in {"submit", "cancel"} => LateGood(Request(c), db)
           /\ RequestSound(Request(c))
           /\ Request(c).kind = client[c].pc /\ Request(c).job = client[c].job
           /\ Request(c).ns = command[c].ns /\ Request(c).request = command[c].request
           /\ Request(c).token = command[c].token
<1>1. /\ Request(c).kind = client[c].pc /\ Request(c).job = client[c].job
      /\ Request(c).ns = command[c].ns /\ Request(c).request = command[c].request
      /\ Request(c).token = command[c].token
  BY DEF Request
<1>2. command[c] \in Command
  BY DEF RemoteInv, RemoteTypeOK
<1>3. command[c].ns \in Namespaces /\ command[c].request \in Requests
  BY <1>2 DEF Command
<1>4. client[c].pc # "submit" => client[c].job \in DOMAIN db.jobs
  BY GoodClient DEF Good, Asking
<1>. QED  BY <1>1, <1>3, <1>4 DEF RequestSound, LateGood

\* What a client makes of an answer.
LEMMA AnswerGood ==
    ASSUME RemoteInv, NEW c \in Clients, client[c].pc \in Asking, NEW e,
           DbStep(e.db), e.ok,
           client[c].pc = "submit" =>
                /\ e.answer \in DOMAIN e.db.jobs
                /\ e.db.jobs[e.answer].ns = command[c].ns
                /\ e.db.jobs[e.answer].request = command[c].request
                /\ command[c].token = command[c].ns,
           client[c].pc = "cancel" => e.answer = e.db.jobs[client[c].job].cancel,
           client[c].pc = "status" => e.answer = e.db.jobs[client[c].job].state,
           client[c].pc = "download" => e.db = db /\ e.answer = Visible(client[c].job)
    PROVE  Good(c, Answered(c, e.answer), e.db, file)
<1>. DEFINE a == e.answer
            d == e.db
<1>1. Good(c, client[c], d, file) /\ client[c].pc # "ended"
  BY GoodKept DEF Asking
<1>2. DOMAIN client[c] = DOMAIN Fresh
  BY <1>1 DEF Good
<1>3. DOMAIN Fresh = {"pc", "job", "cursor", "seen", "polls", "part", "told", "got", "refused"}
  BY DEF Fresh
<1>4. ~client[c].told /\ client[c].got = NoFile
  BY <1>1 DEF Good
<1>5. /\ Good(c, Failed(c), d, file) /\ Good(c, Ended(c), d, file)
      /\ Ended(c).job = client[c].job /\ DOMAIN Ended(c) = DOMAIN Fresh
      /\ Ended(c).pc = "ended" /\ ~Ended(c).told /\ Ended(c).got = NoFile
  BY <1>1, FailedGood
<1>6. client[c].pc # "submit" => client[c].job # None
  BY <1>1 DEF Good, Asking
<1>. HIDE DEF Failed, Ended
<1>7. CASE client[c].pc = "submit"
  <2>1. Answered(c, a) = Submitted(c, a)
    BY <1>7 DEF Answered
  <2>2. /\ DOMAIN Submitted(c, a) = DOMAIN Fresh /\ Submitted(c, a).pc = "events"
        /\ Submitted(c, a).job = a /\ Submitted(c, a).told = client[c].told
        /\ Submitted(c, a).got = client[c].got
    BY <1>2, <1>3 DEF Submitted
  <2>3. a # None
    BY <1>7, JobRows DEF DbStep
  <2>. QED  BY <1>4, <1>7, <2>1, <2>2, <2>3 DEF Good, Asking
<1>8. CASE client[c].pc = "events"
  <2>1. Answered(c, a) = Followed(c, a)
    BY <1>8 DEF Answered
  <2>2. /\ DOMAIN Followed(c, a) = DOMAIN Fresh /\ Followed(c, a).pc = "status"
        /\ Followed(c, a).job = client[c].job /\ Followed(c, a).told = client[c].told
        /\ Followed(c, a).got = client[c].got
    BY <1>2, <1>3 DEF Followed
  <2>. QED  BY <1>1, <1>6, <1>8, <2>1, <2>2, Moved DEF Asking
<1>9. CASE client[c].pc = "status"
  <2>1. Answered(c, a) = Polled(c, a)
    BY <1>9 DEF Answered
  <2>2. CASE a = "succeeded"
    <3>1. Polled(c, a) = [client[c] EXCEPT !.pc = "artifacts", !.polls = 0]
      BY <2>2 DEF Polled, Terminal
    <3>2. /\ DOMAIN Polled(c, a) = DOMAIN Fresh /\ Polled(c, a).pc = "artifacts"
          /\ Polled(c, a).job = client[c].job /\ Polled(c, a).told = client[c].told
          /\ Polled(c, a).got = client[c].got
      BY <1>2, <1>3, <3>1
    <3>. QED  BY <1>1, <1>6, <1>9, <2>1, <2>2, <3>2, Moved DEF Asking
  <2>3. CASE a \in Terminal \ {"succeeded"}
    <3>1. Polled(c, a) = Ended(c)
      BY <2>3 DEF Polled
    <3>. QED  BY <1>5, <2>1, <3>1
  <2>4. CASE a \notin Terminal /\ client[c].polls + 1 = PollBound
    <3>1. Polled(c, a) = Failed(c)
      BY <2>4 DEF Polled, Terminal
    <3>. QED  BY <1>5, <2>1, <3>1
  <2>5. CASE a \notin Terminal /\ client[c].polls + 1 # PollBound
    <3>1. Polled(c, a) = [client[c] EXCEPT !.pc = "events", !.polls = client[c].polls + 1]
      BY <2>5 DEF Polled, Terminal
    <3>2. /\ DOMAIN Polled(c, a) = DOMAIN Fresh /\ Polled(c, a).pc = "events"
          /\ Polled(c, a).job = client[c].job /\ Polled(c, a).told = client[c].told
          /\ Polled(c, a).got = client[c].got
      BY <1>2, <1>3, <3>1
    <3>. QED  BY <1>1, <1>6, <1>9, <2>1, <3>2, Moved DEF Asking
  <2>. QED  BY <2>2, <2>3, <2>4, <2>5
<1>10. CASE client[c].pc = "cancel"
  <2>1. Answered(c, a) = Told(c, a)
    BY <1>10 DEF Answered
  <2>2. /\ DOMAIN Told(c, a) = DOMAIN Fresh /\ Told(c, a).pc = "ended"
        /\ Told(c, a).job = client[c].job /\ Told(c, a).told = a /\ Told(c, a).got = NoFile
    BY <1>3, <1>5 DEF Told
  <2>. QED  BY <1>1, <1>6, <1>10, <2>1, <2>2 DEF Good
<1>11. CASE client[c].pc = "artifacts"
  <2>1. Answered(c, a) = Listed(c)
    BY <1>11 DEF Answered
  <2>2. /\ DOMAIN Listed(c) = DOMAIN Fresh /\ Listed(c).pc = "download"
        /\ Listed(c).job = client[c].job /\ Listed(c).told = client[c].told
        /\ Listed(c).got = client[c].got
    BY <1>2, <1>3 DEF Listed
  <2>3. d.jobs[client[c].job].state = "succeeded"
    BY <1>1, <1>11 DEF Good
  <2>. QED  BY <1>1, <1>6, <1>11, <2>1, <2>2, <2>3, Moved DEF Asking
<1>12. CASE client[c].pc = "download"
  <2>1. Answered(c, a) = Fetched(c, a)
    BY <1>12 DEF Answered
  <2>2. d.jobs[client[c].job].state = "succeeded"
    BY <1>1, <1>12 DEF Good
  <2>3. a = {<<client[c].job, d.jobs[client[c].job].tries>>}
    BY <1>12, <2>2 DEF Visible, Artifact
  <2>4. CASE file # NoFile
    BY <1>5, <2>1, <2>4 DEF Fetched
  <2>5. CASE file = NoFile
    <3>. DEFINE p == CHOOSE x \in a : TRUE
    <3>1. p = <<client[c].job, d.jobs[client[c].job].tries>>
      BY <2>3
    <3>2. Fetched(c, a) = [client[c] EXCEPT !.pc = "publish", !.part = p]
      BY <2>5 DEF Fetched
    <3>. HIDE DEF p
    <3>3. /\ DOMAIN Fetched(c, a) = DOMAIN Fresh /\ Fetched(c, a).pc = "publish"
          /\ Fetched(c, a).job = client[c].job /\ Fetched(c, a).told = client[c].told
          /\ Fetched(c, a).got = client[c].got /\ Fetched(c, a).part = p
      BY <1>2, <1>3, <3>2
    <3>. QED  BY <1>1, <1>6, <1>12, <2>1, <2>2, <3>1, <3>3, Moved
  <2>. QED  BY <2>4, <2>5
<1>. QED  BY <1>7, <1>8, <1>9, <1>10, <1>11, <1>12 DEF Asking

\* One client moves to a sound record.
LEMMA OneMoves ==
    ASSUME RemoteInv, NEW c \in Clients, NEW r, Becomes(c, r), Good(c, r, db', file')
    PROVE  /\ DOMAIN client' = Clients
           /\ \A b \in Clients : client'[b] = client[b] \/ Good(b, client'[b], db', file')
  BY QuietStep DEF Becomes

LEMMA AskStep ==
    ASSUME RemoteInv, NEW c \in Clients, Ask(c)
    PROVE  RemoteInv'
<1>. DEFINE e == Handle(Request(c))
            r == IF e.ok THEN Answered(c, e.answer) ELSE Refused(c)
<1>1. /\ client[c].pc \in Asking /\ Executable(Request(c)) /\ db' = e.db /\ Becomes(c, r)
      /\ UNCHANGED <<command, tx, late, file>>
  BY DEF Ask
<1>2. /\ RequestSound(Request(c))
      /\ Request(c).kind = client[c].pc /\ Request(c).job = client[c].job
      /\ Request(c).ns = command[c].ns /\ Request(c).request = command[c].request
      /\ Request(c).token = command[c].token
  BY <1>1, RequestIsSound
<1>3. /\ DbStep(e.db) /\ LockedKept(e.db)
      /\ client[c].pc = "submit" /\ e.ok =>
            /\ e.answer \in DOMAIN e.db.jobs
            /\ e.db.jobs[e.answer].ns = command[c].ns
            /\ e.db.jobs[e.answer].request = command[c].request
            /\ command[c].token = command[c].ns
      /\ client[c].pc = "cancel" /\ e.ok => e.answer = e.db.jobs[client[c].job].cancel
      /\ client[c].pc = "status" /\ e.ok => e.answer = e.db.jobs[client[c].job].state
      /\ client[c].pc = "download" /\ e.ok => e.db = db /\ e.answer = Visible(client[c].job)
  <2>. HIDE DEF Request
  <2>. QED  BY <1>1, <1>2, HandleStep
<1>. HIDE DEF e
<1>4. CASE e.ok
  BY <1>1, <1>3, <1>4, AnswerGood, OneMoves, TxKept, Keeps
<1>5. CASE ~e.ok
  <2>1. Good(c, Refused(c), db', file')
    BY <1>1, <1>3, FailedGood DEF Asking
  <2>. QED  BY <1>1, <1>3, <1>5, <2>1, OneMoves, TxKept, Keeps
<1>. QED  BY <1>4, <1>5

LEMMA TransportFailsStep ==
    ASSUME RemoteInv, NEW c \in Clients, TransportFails(c)
    PROVE  RemoteInv'
<1>1. /\ client[c].pc \in Asking /\ Becomes(c, Failed(c)) /\ UNCHANGED <<command, tx, file>>
      /\ \/ UNCHANGED <<db, late>>
         \/ /\ Executable(Request(c)) /\ db' = Handle(Request(c)).db /\ UNCHANGED late
         \/ /\ client[c].pc \in {"submit", "cancel"}
            /\ late' = late \cup {Request(c)} /\ UNCHANGED db
  BY DEF TransportFails
<1>2. /\ client[c].pc \in {"submit", "cancel"} => LateGood(Request(c), db)
      /\ RequestSound(Request(c)) /\ Request(c).kind = client[c].pc
  BY <1>1, RequestIsSound
<1>. HIDE DEF Request
<1>3. DbStep(db') /\ LockedKept(db')
  <2>1. DbStep(db) /\ LockedKept(db)
    BY SameJobs DEF RemoteInv, RemoteTypeOK
  <2>2. CASE db' = db
    BY <2>1, <2>2
  <2>3. CASE Executable(Request(c)) /\ db' = Handle(Request(c)).db
    BY <1>1, <1>2, <2>3, HandleStep
  <2>. QED  BY <1>1, <2>2, <2>3
<1>4. \A req \in late' : req \in late \/ LateGood(req, db)
  BY <1>1, <1>2
<1>5. Good(c, Failed(c), db', file')
  BY <1>1, <1>3, FailedGood DEF Asking
<1>. QED  BY <1>1, <1>3, <1>4, <1>5, OneMoves, TxKept, Keeps

LEMMA ArrivesLateStep ==
    ASSUME RemoteInv, ArrivesLate
    PROVE  RemoteInv'
<1>1. PICK req \in late : Executable(req) /\ db' = Handle(req).db /\ late' = late \ {req}
  BY DEF ArrivesLate
<1>2. RequestSound(req) /\ req.kind \in Asking
  BY DEF RemoteInv, Asking
<1>3. DbStep(db') /\ LockedKept(db')
  BY <1>1, <1>2, HandleStep
<1>. QED  BY <1>1, <1>3, QuietStep, TxKept, Keeps DEF ArrivesLate

LEMMA HostInterruptsStep ==
    ASSUME RemoteInv, NEW c \in Clients, HostInterrupts(c)
    PROVE  RemoteInv'
<1>. DEFINE r == [client[c] EXCEPT !.pc = "cancel"]
<1>1. client[c].pc = "events" /\ Becomes(c, r) /\ UNCHANGED <<command, db, tx, late, file>>
  BY DEF HostInterrupts
<1>2. DOMAIN client[c] = DOMAIN Fresh /\ client[c].job # None
  BY <1>1, GoodClient DEF Good
<1>3. DOMAIN Fresh = {"pc", "job", "cursor", "seen", "polls", "part", "told", "got", "refused"}
  BY DEF Fresh
<1>4. /\ DOMAIN r = DOMAIN Fresh /\ r.pc = "cancel" /\ r.job = client[c].job
      /\ r.told = client[c].told /\ r.got = client[c].got
  BY <1>2, <1>3
<1>. HIDE DEF r
<1>5. Good(c, r, db, file)
  BY <1>1, <1>2, <1>4, QuietStep, Moved DEF Asking
<1>. QED  BY <1>1, <1>5, OneMoves, QuietStep, Keeps

\* The link is made only when the target is free, so that nobody else's file is
\* replaced, and with the bytes of the client's own artifact.
LEMMA PublishStep ==
    ASSUME RemoteInv, NEW c \in Clients, Publish(c)
    PROVE  RemoteInv'
<1>1. client[c].pc = "publish" /\ UNCHANGED <<command, db, tx, late>>
  BY DEF Publish
<1>2. PICK body \in Streamed(c) :
        IF Intact(c, body) THEN Link(c, body)
        ELSE Becomes(c, Failed(c)) /\ losses' = losses + 1 /\ UNCHANGED file
  BY DEF Publish
<1>3. \A f : /\ Good(c, Failed(c), db, f)
             /\ Ended(c).job = client[c].job /\ DOMAIN Ended(c) = DOMAIN Fresh
             /\ Ended(c).pc = "ended" /\ ~Ended(c).told
  BY <1>1, QuietStep, FailedGood
<1>4. /\ client[c].part = <<client[c].job, db.jobs[client[c].job].tries>>
      /\ db.jobs[client[c].job].state = "succeeded" /\ client[c].job # None
      /\ Good(c, client[c], db, file)
  BY <1>1, GoodClient DEF Good
<1>5. CASE Becomes(c, Failed(c)) /\ (file' = file \/ file = NoFile)
  BY <1>1, <1>3, <1>5, OneMoves, QuietStep, Keeps
<1>6. CASE Intact(c, body) /\ file = NoFile /\ file' = body
           /\ Becomes(c, [Ended(c) EXCEPT !.got = body])
  <2>. DEFINE r == [Ended(c) EXCEPT !.got = body]
  <2>1. DOMAIN Fresh = {"pc", "job", "cursor", "seen", "polls", "part", "told", "got", "refused"}
    BY DEF Fresh
  <2>2. /\ DOMAIN r = DOMAIN Fresh /\ r.pc = "ended" /\ r.job = client[c].job
        /\ ~r.told /\ r.got = body
    BY <1>3, <2>1
  <2>. HIDE DEF r
  <2>3. body = <<client[c].job, db.jobs[client[c].job].tries>>
    BY <1>4, <1>6 DEF Intact
  <2>4. Good(c, r, db, body)
    BY <1>4, <2>2, <2>3 DEF Good
  <2>5. Becomes(c, r)
    BY <1>6 DEF r
  <2>. QED  BY <1>1, <1>6, <2>4, <2>5, OneMoves, QuietStep, Keeps
<1>. QED  BY <1>2, <1>5, <1>6 DEF Link

LEMMA RestartStep ==
    ASSUME RemoteInv, NEW c \in Clients, Restart(c)
    PROVE  RemoteInv'
<1>. DEFINE r == [Fresh EXCEPT !.pc = "events", !.job = client[c].job]
<1>1. client[c].pc = "failed" /\ UNCHANGED <<command, db, tx, late, file>>
  BY DEF Restart
<1>2. CASE Becomes(c, Fresh)
  <2>1. Good(c, Fresh, db, file)
    BY DEF Good, Fresh, Asking, None, NoFile
  <2>. QED  BY <1>1, <1>2, <2>1, OneMoves, QuietStep, Keeps
<1>3. CASE client[c].job # None /\ Becomes(c, r)
  <2>1. /\ DOMAIN r = DOMAIN Fresh /\ r.pc = "events" /\ r.job = client[c].job
        /\ r.told = FALSE /\ r.got = NoFile
    BY DEF Fresh
  <2>. HIDE DEF r
  <2>2. Good(c, r, db, file)
    BY <1>3, <2>1, GoodClient DEF Good, Asking
  <2>. QED  BY <1>1, <1>3, <2>2, OneMoves, QuietStep, Keeps
<1>. QED  BY <1>2, <1>3 DEF Restart

-----------------------------------------------------------------------------
(* The theorems *)

LEMMA RemoteInitial == RemoteInit => RemoteInv
<1>. SUFFICES ASSUME RemoteInit
              PROVE  RemoteInv
  OBVIOUS
<1>1. db.jobs = <<>> /\ DOMAIN db.jobs = {} /\ db \in Tables
  BY EmptySeq DEF RemoteInit, Tables
<1>2. \A c \in Clients : client[c] = Fresh
  BY DEF RemoteInit
<1>3. /\ Fresh.job = None /\ Fresh.pc = "submit" /\ Fresh.told = FALSE /\ Fresh.got = NoFile
  BY DEF Fresh
<1>4. \A w \in Writers : tx[w] = NoTx
  BY DEF RemoteInit
<1>5. tx \in [Writers -> Transaction]
  BY DEF RemoteInit, NoTx, Transaction, None
<1>6. RemoteTypeOK
  BY <1>1, <1>5 DEF RemoteTypeOK, RemoteInit
<1>7. AcceptedIsMine
  BY <1>1, <1>2, <1>3 DEF AcceptedIsMine
<1>8. DownloadIsMine
  BY <1>2, <1>3 DEF DownloadIsMine
<1>9. FlagsSound(db) /\ TxSound
  BY <1>1, <1>4 DEF FlagsSound, TxSound
<1>10. \A c \in Clients : ClientSound(c)
  BY <1>2, <1>3 DEF ClientSound, Asking
<1>11. late = {}
  BY DEF RemoteInit
<1>. QED  BY <1>6, <1>7, <1>8, <1>9, <1>10, <1>11 DEF RemoteInv

LEMMA RemoteStep == RemoteInv /\ [RemoteNext]_remoteVars => RemoteInv'
<1>. SUFFICES ASSUME RemoteInv, [RemoteNext]_remoteVars
              PROVE  RemoteInv'
  OBVIOUS
<1>1. ASSUME NEW w \in Writers, Begin(w)  PROVE RemoteInv'
  BY <1>1, BeginStep
<1>2. ASSUME NEW w \in Writers, Commit(w)  PROVE RemoteInv'
  BY <1>2, CommitStep
<1>3. ASSUME NEW w \in Writers, Abort(w)  PROVE RemoteInv'
  BY <1>3, AbortStep
<1>4. ASSUME NEW c \in Clients, Ask(c)  PROVE RemoteInv'
  BY <1>4, AskStep
<1>5. ASSUME NEW c \in Clients, TransportFails(c)  PROVE RemoteInv'
  BY <1>5, TransportFailsStep
<1>6. ASSUME NEW c \in Clients, HostInterrupts(c)  PROVE RemoteInv'
  BY <1>6, HostInterruptsStep
<1>7. ASSUME NEW c \in Clients, Publish(c)  PROVE RemoteInv'
  BY <1>7, PublishStep
<1>8. ASSUME NEW c \in Clients, Restart(c)  PROVE RemoteInv'
  BY <1>8, RestartStep
<1>9. CASE ArrivesLate
  BY <1>9, ArrivesLateStep
<1>10. CASE Retire
  BY <1>10, RetireStep
<1>11. CASE UNCHANGED remoteVars
  BY <1>11, QuietStep, Keeps DEF remoteVars
<1>. QED
  BY <1>1, <1>2, <1>3, <1>4, <1>5, <1>6, <1>7, <1>8, <1>9, <1>10, <1>11 DEF RemoteNext

\* RemoteInv holds of the API and its clients, however requests are lost, repeated
\* and executed late and whatever the workers do to the jobs meanwhile.
THEOREM RemoteInvariance == RemoteSpec => []RemoteInv
  BY RemoteInitial, RemoteStep, PTL DEF RemoteSpec

\* Whoever is given a job asked for exactly that, with a token for its namespace,
\* and a namespace has one job for the key (create_job, allows_namespace).
THEOREM AcceptedJobsAreMine == RemoteSpec => []AcceptedIsMine
<1>1. RemoteInv => AcceptedIsMine
  BY DEF RemoteInv
<1>. QED  BY <1>1, RemoteInvariance, PTL

\* A client that was given a file finds the whole artifact of its own job in it,
\* whoever else downloads to that name (RemoteClient.download, os.link).
THEOREM DownloadsAreMine == RemoteSpec => []DownloadIsMine
<1>1. RemoteInv => DownloadIsMine
  BY DEF RemoteInv
<1>. QED  BY <1>1, RemoteInvariance, PTL

\* A job whose cancellation was acknowledged is still being cancelled, or is
\* cancelled, whatever transactions were open when the request arrived
\* (request_cancel and the row lock).
THEOREM CancellationsKept == RemoteSpec => []CancelIsKept
<1>1. RemoteInv => CancelIsKept
  <2>. SUFFICES ASSUME RemoteInv, NEW c \in Clients, client[c].told
                PROVE  db.jobs[client[c].job].state \notin {"queued", "succeeded", "failed"}
    BY DEF CancelIsKept
  <2>1. client[c].job \in DOMAIN db.jobs /\ db.jobs[client[c].job].cancel
    BY GoodClient DEF Good
  <2>2. db.jobs[client[c].job].state \in {"running", "cancelled"}
    BY <2>1 DEF RemoteInv, FlagsSound
  <2>. QED  BY <2>2
<1>. QED  BY <1>1, RemoteInvariance, PTL

-----------------------------------------------------------------------------
(* The order of the events: what Ascending returns *)

LEMMA RankMember ==
    ASSUME NEW ids \in SUBSET Nat, IsFiniteSet(ids), NEW i \in ids
    PROVE  Rank(ids, i) \in 1..Cardinality(ids)
<1>. DEFINE T == {k \in ids : k <= i}
<1>1. IsFiniteSet(T) /\ Cardinality(T) <= Cardinality(ids) /\ T # {}
  BY FS_Subset
<1>2. Cardinality(T) \in Nat /\ Cardinality(T) # 0 /\ Cardinality(ids) \in Nat
  BY <1>1, FS_CardinalityType, FS_EmptySet
<1>. QED  BY <1>1, <1>2 DEF Rank

LEMMA RankGrows ==
    ASSUME NEW ids \in SUBSET Nat, IsFiniteSet(ids), NEW i \in ids, NEW k \in ids, i < k
    PROVE  Rank(ids, i) < Rank(ids, k)
<1>. DEFINE T == {x \in ids : x <= i}
            U == {x \in ids : x <= k}
<1>1. T \in SUBSET U /\ T # U
  <2>1. T \subseteq U
    <3>1. \A x \in ids : x \in Nat /\ (x <= i => x <= k)
      OBVIOUS
    <3>. QED  BY <3>1
  <2>2. k \in U /\ k \notin T
    BY i \in Nat, k \in Nat
  <2>. QED  BY <2>1, <2>2
<1>2. IsFiniteSet(U)
  BY FS_Subset
<1>3. Cardinality(T) <= Cardinality(U) /\ Cardinality(U) # Cardinality(T)
  BY <1>1, <1>2, FS_Subset
<1>4. Cardinality(T) \in Nat /\ Cardinality(U) \in Nat
  BY <1>1, <1>2, FS_Subset, FS_CardinalityType
<1>. QED  BY <1>3, <1>4 DEF Rank

\* Ranks are different and there are as many as members, so each one is taken.
LEMMA RankReached ==
    ASSUME NEW ids \in SUBSET Nat, IsFiniteSet(ids), NEW n \in 1..Cardinality(ids)
    PROVE  \E i \in ids : Rank(ids, i) = n
<1>. DEFINE N == Cardinality(ids)
            f == [i \in ids |-> Rank(ids, i)]
<1>1. N \in Nat
  BY FS_CardinalityType
<1>2. f \in [ids -> 1..N]
  BY RankMember
<1>3. ASSUME NEW i \in ids, NEW k \in ids, f[i] = f[k]  PROVE i = k
  <2>1. i \in Nat /\ k \in Nat /\ Rank(ids, i) = Rank(ids, k) /\ Rank(ids, i) \in Nat
    BY <1>3, RankMember
  <2>2. ~(i < k) /\ ~(k < i)
    <3>1. ASSUME i < k  PROVE FALSE
      BY <2>1, <3>1, RankGrows
    <3>2. ASSUME k < i  PROVE FALSE
      BY <2>1, <3>2, RankGrows
    <3>. QED  BY <3>1, <3>2
  <2>. QED  BY <2>1, <2>2
<1>4. f \in Injection(ids, 1..N)
  <2>. HIDE DEF f
  <2>. QED  BY <1>2, <1>3 DEF Injection, IsInjective
<1>5. IsFiniteSet(1..N) /\ Cardinality(1..N) = N
  BY <1>1, FS_Interval
<1>6. f \in Surjection(ids, 1..N)
  <2>. HIDE DEF f
  <2>. QED  BY <1>4, <1>5, FS_Injection
<1>7. \E i \in ids : f[i] = n
  <2>. HIDE DEF f
  <2>. QED  BY <1>6 DEF Surjection
<1>. QED  BY <1>7

\* A member is found at its rank.
LEMMA AscendingIs ==
    ASSUME NEW ids \in SUBSET Nat, IsFiniteSet(ids)
    PROVE  /\ Cardinality(ids) \in Nat
           /\ Ascending(ids) \in Seq(Nat) /\ Len(Ascending(ids)) = Cardinality(ids)
           /\ \A n \in 1..Cardinality(ids) :
                Ascending(ids)[n] \in ids /\ Rank(ids, Ascending(ids)[n]) = n
           /\ \A i \in ids : Ascending(ids)[Rank(ids, i)] = i
<1>. DEFINE N == Cardinality(ids)
            at(n) == CHOOSE i \in ids : Rank(ids, i) = n
<1>1. N \in Nat
  BY FS_CardinalityType
<1>2. \A n \in 1..N : at(n) \in ids /\ Rank(ids, at(n)) = n
  BY RankReached
<1>. HIDE DEF at
<1>3. Ascending(ids) = [n \in 1..N |-> at(n)]
  BY DEF Ascending, at
<1>4. Ascending(ids) \in [1..N -> Nat]
  BY <1>2, <1>3
<1>5. Ascending(ids) \in Seq(Nat) /\ Len(Ascending(ids)) = N
  BY <1>1, <1>4, SeqDef, LenProperties
<1>6. \A n \in 1..N : Ascending(ids)[n] \in ids /\ Rank(ids, Ascending(ids)[n]) = n
  BY <1>2, <1>3
<1>7. ASSUME NEW i \in ids  PROVE Ascending(ids)[Rank(ids, i)] = i
  <2>. DEFINE k == Ascending(ids)[Rank(ids, i)]
  <2>1. Rank(ids, i) \in 1..N
    BY RankMember
  <2>2. k \in ids /\ Rank(ids, k) = Rank(ids, i)
    BY <1>6, <2>1
  <2>. HIDE DEF k
  <2>3. i \in Nat /\ k \in Nat /\ Rank(ids, i) \in Nat
    BY <2>1, <2>2
  <2>4. ASSUME i < k  PROVE FALSE
    BY <2>2, <2>3, <2>4, RankGrows
  <2>5. ASSUME k < i  PROVE FALSE
    BY <2>2, <2>3, <2>5, RankGrows
  <2>6. i = k
    BY <2>3, <2>4, <2>5
  <2>. QED  BY <2>6 DEF k
<1>. QED  BY <1>1, <1>5, <1>6, <1>7

\* A page of what is newer than the cursor continues what was read up to there.
LEMMA PageContinues ==
    ASSUME NEW ids \in SUBSET Nat, IsFiniteSet(ids), NEW c \in Nat,
           NEW m \in 1..Cardinality({i \in ids : i > c})
    PROVE  LET next == Ascending({i \in ids : i > c})
           IN  /\ next[m] \in ids /\ next[m] > c
               /\ Ascending({i \in ids : i <= c}) \o SubSeq(next, 1, m)
                    = Ascending({i \in ids : i <= next[m]})
<1>. DEFINE old == {i \in ids : i <= c}
            newer == {i \in ids : i > c}
            a == Ascending(newer)
            s == Ascending(old)
            p == SubSeq(a, 1, m)
            upto == {i \in ids : i <= a[m]}
            t == Ascending(upto)
            O == Cardinality(old)
<1>1. /\ IsFiniteSet(old) /\ IsFiniteSet(newer) /\ IsFiniteSet(upto)
      /\ old \in SUBSET Nat /\ newer \in SUBSET Nat /\ upto \in SUBSET Nat
  BY FS_Subset
<1>2. /\ O \in Nat /\ s \in Seq(Nat) /\ Len(s) = O
      /\ \A n \in 1..O : s[n] \in old /\ Rank(old, s[n]) = n
  BY <1>1, AscendingIs
<1>3. /\ Cardinality(newer) \in Nat
      /\ \A n \in 1..Cardinality(newer) : a[n] \in newer /\ Rank(newer, a[n]) = n
  BY <1>1, AscendingIs
<1>4. /\ t \in Seq(Nat) /\ Len(t) = Cardinality(upto)
      /\ \A i \in upto : t[Rank(upto, i)] = i
  BY <1>1, AscendingIs
<1>5. /\ m \in Nat /\ m >= 1 /\ \A n \in 1..m : n \in 1..Cardinality(newer) /\ n \in Nat
  BY <1>3
<1>. HIDE DEF a
<1>6. a[m] \in newer /\ Rank(newer, a[m]) = m
  BY <1>3, <1>5
<1>7. a[m] \in ids /\ a[m] > c /\ a[m] \in Nat
  BY <1>6
<1>8. \A n \in 1..m : a[n] <= a[m]
  <2>. TAKE n \in 1..m
  <2>1. a[n] \in newer /\ Rank(newer, a[n]) = n /\ a[n] \in Nat
    BY <1>3, <1>5
  <2>2. ASSUME a[m] < a[n]  PROVE FALSE
    <3>1. Rank(newer, a[m]) < Rank(newer, a[n])
      BY <1>1, <1>6, <2>1, <2>2, RankGrows
    <3>. QED  BY <1>5, <1>6, <2>1, <3>1
  <2>. QED  BY <1>7, <2>1, <2>2
<1>9. ASSUME NEW i \in old  PROVE i \in upto /\ Rank(upto, i) = Rank(old, i)
  <2>1. \A k \in ids : k \in Nat /\ (k <= i => k <= c /\ k <= a[m])
    BY <1>7
  <2>2. i \in upto
    BY <2>1
  <2>3. {k \in upto : k <= i} = {k \in old : k <= i}
    BY <2>1
  <2>. QED  BY <2>2, <2>3 DEF Rank
<1>10. ASSUME NEW i \in newer, i <= a[m]
       PROVE  i \in upto /\ Rank(upto, i) = O + Rank(newer, i)
  <2>. DEFINE B == {k \in newer : k <= i}
  <2>0. \A k \in ids : /\ k \in Nat /\ (k <= i => k <= a[m]) /\ (k <= c => k <= i)
                       /\ (k <= c <=> ~(k > c))
    BY <1>7, <1>10
  <2>1. i \in upto /\ {k \in upto : k <= i} = old \cup B /\ old \cap B = {}
    <3>1. i \in upto
      BY <1>10
    <3>2. {k \in upto : k <= i} = old \cup B
      <4>1. \A k \in ids : (k <= a[m] /\ k <= i) <=> (k <= c \/ (k > c /\ k <= i))
        BY <2>0
      <4>. QED  BY <4>1 DEF old, upto, newer, B
    <3>3. old \cap B = {}
      BY <2>0 DEF old, newer, B
    <3>. QED  BY <3>1, <3>2, <3>3
  <2>2. IsFiniteSet(B)
    BY <1>1, FS_Subset
  <2>3. Cardinality(B) \in Nat
    BY <2>2, FS_CardinalityType
  <2>. HIDE DEF B, old
  <2>4. Cardinality(old \cup B) = O + Cardinality(B) - Cardinality({})
    BY <1>1, <2>1, <2>2, FS_Union
  <2>5. Cardinality(old \cup B) = O + Cardinality(B)
    BY <1>2, <2>3, <2>4, FS_EmptySet
  <2>. QED  BY <2>1, <2>5 DEF Rank, B
<1>11. Cardinality(upto) = O + m
  <2>1. Rank(upto, a[m]) = O + m
    BY <1>6, <1>7, <1>10
  <2>2. {k \in upto : k <= a[m]} = upto
    OBVIOUS
  <2>. QED  BY <2>1, <2>2 DEF Rank
<1>. HIDE DEF old, newer, upto, s, t, O
<1>12. /\ p \in Seq(Nat) /\ Len(p) = m
       /\ \A n \in 1..m : p[n] = a[n]
  <2>1. \A n \in 1..m : a[n] \in Nat
    BY <1>1, <1>3, <1>5
  <2>2. /\ p \in Seq(Nat) /\ Len(p) = (IF 1 <= m THEN m - 1 + 1 ELSE 0)
        /\ \A n \in 1..(m - 1 + 1) : p[n] = a[1 + n - 1]
    BY <1>5, <2>1, SubSeqProperties
  <2>. QED  BY <1>5, <2>2
<1>. HIDE DEF p
<1>13. /\ s \o p \in Seq(Nat) /\ Len(s \o p) = O + m
       /\ \A n \in 1..(O + m) : (s \o p)[n] = IF n <= O THEN s[n] ELSE p[n - O]
  BY <1>2, <1>12, ConcatProperties
<1>14. ASSUME NEW n \in 1..(O + m)  PROVE (s \o p)[n] = t[n]
  <2>1. CASE n <= O
    <3>1. n \in 1..O
      BY <1>2, <1>5, <2>1
    <3>2. s[n] \in old /\ Rank(old, s[n]) = n
      BY <1>2, <3>1
    <3>3. t[n] = s[n]
      BY <1>4, <1>9, <3>2
    <3>. QED  BY <1>13, <2>1, <3>3
  <2>2. CASE ~(n <= O)
    <3>. DEFINE q == n - O
    <3>1. q \in 1..m /\ O + q = n
      BY <1>2, <1>5, <2>2
    <3>. HIDE DEF q
    <3>2. a[q] \in newer /\ Rank(newer, a[q]) = q /\ a[q] <= a[m]
      BY <1>3, <1>5, <1>8, <3>1
    <3>3. t[n] = a[q]
      BY <1>4, <1>10, <3>1, <3>2
    <3>4. p[q] = a[q]
      BY <1>12, <3>1
    <3>. QED  BY <1>13, <2>2, <3>3, <3>4 DEF q
  <2>. QED  BY <2>1, <2>2
<1>15. s \o p = t
  BY <1>4, <1>11, <1>13, <1>14, SeqEqual
<1>. QED  BY <1>7, <1>15 DEF a, s, p, t, old, newer, upto

-----------------------------------------------------------------------------
(* EventInv, by the values it speaks of *)

\* The log of tables d next to the open transactions t.
EventsGood(d, t) ==
    /\ \A e \in d.events : e.id \in 1..d.sequence /\ e.job \in DOMAIN d.jobs
    /\ \A w \in Writers : t[w] # NoTx =>
        /\ t[w].id \in 1..d.sequence
        /\ \A e \in d.events : e.job = t[w].job => e.id < t[w].id

\* The ids of the events of job j up to c.
UpTo(d, j, c) == {e.id : e \in {x \in d.events : x.job = j /\ x.id <= c}}

\* What client record r has read of tables d.
ReadGood(r, d) ==
    /\ r.cursor = 0 \/ [job |-> r.job, id |-> r.cursor] \in d.events
    /\ r.pc = "submit" => r.job = None /\ r.seen = <<>>
    /\ r.job # None => r.seen = Ascending(UpTo(d, r.job, r.cursor))

\* The log of tables d continues the present one: what is added to a job is newer
\* than all that the job had.
LogStep(d) ==
    /\ db.events \subseteq d.events
    /\ \A e \in d.events : e \notin db.events =>
        e.id > 0 /\ \A x \in db.events : x.job = e.job => x.id < e.id

LEMMA EventParts ==
    EventInv <=> EventsGood(db, tx) /\ \A c \in Clients : ReadGood(client[c], db)
  BY DEF EventInv, EventsGood, ReadGood, EventsExactlyOnce, UpTo

\* Nothing is added at or below a cursor.
LEMMA ReadKept ==
    ASSUME RemoteInv, NEW r, ReadGood(r, db), NEW d, d \in Tables, LogStep(d)
    PROVE  ReadGood(r, d)
<1>1. ASSUME NEW e \in d.events, e \notin db.events, e.job = r.job, e.id <= r.cursor
      PROVE  FALSE
  <2>1. e.id \in Nat /\ e.id > 0
    BY <1>1, JobRows DEF LogStep
  <2>2. CASE r.cursor = 0
    BY <1>1, <2>1, <2>2
  <2>3. CASE [job |-> r.job, id |-> r.cursor] \in db.events
    <3>1. r.cursor < e.id
      BY <1>1, <2>3 DEF LogStep
    <3>2. r.cursor \in Nat
      BY <2>3, JobRows DEF RemoteInv, RemoteTypeOK
    <3>. QED  BY <1>1, <2>1, <3>1, <3>2
  <2>. QED  BY <2>2, <2>3 DEF ReadGood
<1>2. {x \in d.events : x.job = r.job /\ x.id <= r.cursor}
        = {x \in db.events : x.job = r.job /\ x.id <= r.cursor}
  BY <1>1 DEF LogStep
<1>3. UpTo(d, r.job, r.cursor) = UpTo(db, r.job, r.cursor)
  BY <1>2 DEF UpTo
<1>. QED  BY <1>3 DEF ReadGood, LogStep

LEMMA EventKeeps ==
    ASSUME RemoteInv, EventInv, db' \in Tables, LogStep(db'), EventsGood(db', tx'),
           \A c \in Clients : client'[c] = client[c] \/ ReadGood(client'[c], db')
    PROVE  EventInv'
<1>1. \A c \in Clients : ReadGood(client[c], db)
  BY EventParts
<1>2. \A c \in Clients : ReadGood(client'[c], db')
  BY <1>1, ReadKept
<1>. QED  BY <1>2 DEF EventInv, EventsGood, ReadGood, EventsExactlyOnce, UpTo

\* A step that leaves the log alone.
LEMMA SameLog ==
    ASSUME EventInv
    PROVE  LogStep(db) /\ EventsGood(db, tx)
  BY EventParts DEF LogStep

\* An event with the next id is added to a job that no transaction holds.
LEMMA NewEvent ==
    ASSUME RemoteInv, EventInv, NEW d, DbStep(d), NEW j \in DOMAIN d.jobs, Unlocked(j),
           d.events = db.events \cup {[job |-> j, id |-> db.sequence + 1]},
           d.sequence = db.sequence + 1
    PROVE  LogStep(d) /\ EventsGood(d, tx)
<1>. DEFINE n == db.sequence + 1
            new == [job |-> j, id |-> n]
<1>1. EventsGood(db, tx)
  BY EventParts
<1>2. db.sequence \in Nat /\ n \in Nat /\ n > 0 /\ \A i \in 1..db.sequence : i \in 1..n /\ i < n
  BY JobRows DEF RemoteInv, RemoteTypeOK
<1>3. new.job = j /\ new.id = n
  OBVIOUS
<1>4. d.events = db.events \cup {new} /\ d.sequence = n
  OBVIOUS
<1>. HIDE DEF new, n
<1>5. n \in 1..n
  BY <1>2
<1>6. LogStep(d)
  BY <1>1, <1>2, <1>3, <1>4 DEF LogStep, EventsGood
<1>7. \A e \in d.events : e.id \in 1..n /\ e.job \in DOMAIN d.jobs
  BY <1>1, <1>2, <1>3, <1>4, <1>5 DEF EventsGood, DbStep
<1>8. \A w \in Writers : tx[w] # NoTx =>
        /\ tx[w].id \in 1..n
        /\ \A e \in d.events : e.job = tx[w].job => e.id < tx[w].id
  BY <1>1, <1>2, <1>3, <1>4 DEF EventsGood, Unlocked
<1>. QED  BY <1>4, <1>6, <1>7, <1>8 DEF EventsGood

\* What a request does to the log.
LEMMA HandleLog ==
    ASSUME RemoteInv, EventInv, NEW req, RequestSound(req), req.kind \in Asking, Executable(req)
    PROVE  LET e == Handle(req)
           IN  /\ LogStep(e.db) /\ EventsGood(e.db, tx)
               /\ req.kind = "events" /\ e.ok => e.answer = Page(req.job, req.cursor)
<1>1. LogStep(db) /\ EventsGood(db, tx)
  BY SameLog
<1>2. DbStep(Handle(req).db)
  BY HandleStep
<1>3. Refusal.db = db /\ Refusal.ok = FALSE
  BY DEF Refusal
<1>4. \A d, x : Effect(d, x).db = d /\ Effect(d, x).answer = x
  BY DEF Effect
<1>5. db \in Tables /\ Len(db.jobs) \in Nat /\ DOMAIN db.jobs = 1..Len(db.jobs)
  BY JobRows DEF RemoteInv, RemoteTypeOK
<1>6. CASE req.kind = "submit"
  <2>. DEFINE j == Len(db.jobs) + 1
              row == [ns |-> req.ns, request |-> req.request, state |-> "queued",
                      cancel |-> FALSE, tries |-> 0]
              f == [db EXCEPT !.jobs = Append(db.jobs, row)]
              new == WithEvent(f, j)
  <2>1. Handle(req).db \in {db, new}
    <3>1. CreateJob(req) = Refusal \/ (\E k : CreateJob(req) = Effect(db, k))
          \/ CreateJob(req) = Effect(new, j)
      BY DEF CreateJob
    <3>2. Handle(req) \in {CreateJob(req), Refusal}
      BY <1>6 DEF Handle, Submit
    <3>. HIDE DEF new, j
    <3>. QED  BY <1>3, <1>4, <3>1, <3>2
  <2>2. CASE Handle(req).db = db
    BY <1>1, <1>6, <2>2
  <2>3. CASE Handle(req).db = new
    <3>1. f.events = db.events /\ f.sequence = db.sequence /\ f.jobs = Append(db.jobs, row)
          /\ DOMAIN f = {"jobs", "events", "sequence"}
      BY <1>5 DEF Tables
    <3>2. /\ new.events = db.events \cup {[job |-> j, id |-> db.sequence + 1]}
          /\ new.sequence = db.sequence + 1 /\ new.jobs = Append(db.jobs, row)
      <4>. HIDE DEF f, j
      <4>. QED  BY <3>1 DEF WithEvent
    <3>3. j \in DOMAIN new.jobs
      <4>1. Append(db.jobs, row) \in Seq(RemoteJob \cup {row})
            /\ Len(Append(db.jobs, row)) = j
        <5>. HIDE DEF row
        <5>1. db.jobs \in Seq(RemoteJob \cup {row})
          BY <1>5, JobRows, SeqMonotonic
        <5>. QED  BY <5>1, AppendProperties
      <4>2. DOMAIN Append(db.jobs, row) = 1..j
        BY <4>1, LenProperties
      <4>. QED  BY <1>5, <3>2, <4>2
    <3>4. Unlocked(j)
      <4>1. j \notin DOMAIN db.jobs /\ j # None
        BY <1>5 DEF None
      <4>. HIDE DEF j
      <4>. QED  BY <4>1 DEF RemoteInv, TxSound, Unlocked, NoTx
    <3>. HIDE DEF new, j, f, row
    <3>5. DbStep(new)
      BY <1>2, <2>3
    <3>6. LogStep(new) /\ EventsGood(new, tx)
      BY <3>2, <3>3, <3>4, <3>5, NewEvent
    <3>. QED  BY <1>6, <2>3, <3>6
  <2>. QED  BY <2>1, <2>2, <2>3
<1>7. CASE req.kind # "submit" /\ ~Owned(req)
  <2>1. Handle(req) = Refusal
    BY <1>7 DEF Handle
  <2>. QED  BY <1>1, <1>3, <2>1
<1>8. CASE req.kind = "cancel" /\ Owned(req)
  <2>. DEFINE j == req.job
              f == [db EXCEPT !.jobs[j].cancel = TRUE,
                              !.jobs[j].state = IF @ = "queued" THEN "cancelled" ELSE @]
              new == WithEvent(f, j)
  <2>1. Handle(req) = RequestCancel(j)
    BY <1>8 DEF Handle, Cancel
  <2>2. Unlocked(j) /\ j \in DOMAIN db.jobs
    BY <1>8 DEF Executable, RequestSound
  <2>3. Handle(req).db \in {db, new}
    BY <2>1 DEF RequestCancel, Effect
  <2>4. CASE Handle(req).db = db
    BY <1>1, <1>8, <2>4
  <2>5. CASE Handle(req).db = new
    <3>1. f.events = db.events /\ f.sequence = db.sequence
          /\ DOMAIN f = {"jobs", "events", "sequence"}
      BY <1>5 DEF Tables
    <3>. HIDE DEF f, j
    <3>2. /\ new.events = db.events \cup {[job |-> j, id |-> db.sequence + 1]}
          /\ new.sequence = db.sequence + 1
      BY <3>1 DEF WithEvent
    <3>. HIDE DEF new
    <3>3. DbStep(new)
      BY <1>2, <2>5
    <3>4. j \in DOMAIN new.jobs
      BY <2>2, <3>3 DEF DbStep
    <3>5. LogStep(new) /\ EventsGood(new, tx)
      BY <2>2, <3>2, <3>3, <3>4, NewEvent
    <3>. QED  BY <1>8, <2>5, <3>5
  <2>. QED  BY <2>3, <2>4, <2>5
<1>9. CASE req.kind = "events" /\ Owned(req)
  <2>1. Handle(req) = Effect(db, Page(req.job, req.cursor))
    BY <1>9 DEF Handle, GetEvents
  <2>. QED  BY <1>1, <1>4, <2>1
<1>10. CASE req.kind \in {"status", "artifacts", "download"} /\ Owned(req)
  <2>1. \E x : Handle(req) = Effect(db, x)
    BY <1>10 DEF Handle, GetJob, GetArtifacts
  <2>. QED  BY <1>1, <1>4, <1>10, <2>1
<1>. QED  BY <1>6, <1>7, <1>8, <1>9, <1>10 DEF Asking

-----------------------------------------------------------------------------
(* No event is missed or repeated *)

\* The ids of a job's events, and the parts of them below and above a cursor.
LEMMA JobIds ==
    ASSUME RemoteInv, EventInv, NEW j, NEW c \in Nat
    PROVE  LET ids == {e.id : e \in {x \in db.events : x.job = j}}
           IN  /\ ids \in SUBSET Nat /\ IsFiniteSet(ids)
               /\ UpTo(db, j, c) = {i \in ids : i <= c}
               /\ Newer(j, c) = {i \in ids : i > c}
               /\ \A i \in ids : [job |-> j, id |-> i] \in db.events
<1>. DEFINE ids == {e.id : e \in {x \in db.events : x.job = j}}
<1>1. db \in Tables /\ db.sequence \in Nat /\ db.events \subseteq [job : Nat, id : Nat]
  BY JobRows DEF RemoteInv, RemoteTypeOK
<1>2. \A e \in db.events : e.id \in Nat /\ e.id <= db.sequence
  BY <1>1, EventParts DEF EventsGood
<1>3. ids \in SUBSET Nat /\ \A i \in ids : i <= db.sequence
  BY <1>2
<1>4. IsFiniteSet(ids)
  <2>. HIDE DEF ids
  <2>. QED  BY <1>1, <1>3, FS_BoundedSetOfNaturals
<1>5. UpTo(db, j, c) = {i \in ids : i <= c}
  BY DEF UpTo
<1>6. Newer(j, c) = {i \in ids : i > c}
  BY DEF Newer
<1>7. \A i \in ids : [job |-> j, id |-> i] \in db.events
  <2>1. \A e \in db.events : e = [job |-> e.job, id |-> e.id]
    BY <1>1
  <2>. QED  BY <2>1
<1>. QED  BY <1>3, <1>4, <1>5, <1>6, <1>7

\* Before the first event there is nothing to read.
LEMMA NothingRead ==
    ASSUME NEW d, \A e \in d.events : e.id \in Nat /\ e.id > 0, NEW j
    PROVE  Ascending(UpTo(d, j, 0)) = <<>>
<1>1. UpTo(d, j, 0) = {}
  BY DEF UpTo
<1>2. Ascending({}) \in Seq(Nat) /\ Len(Ascending({})) = 0
  BY AscendingIs, FS_EmptySet
<1>. QED  BY <1>1, <1>2, EmptySeq

\* RemoteWaitNode after its next page.
LEMMA FollowedReads ==
    ASSUME RemoteInv, EventInv, NEW c \in Clients, client[c].job # None,
           client[c].pc = "events"
    PROVE  ReadGood(Followed(c, Page(client[c].job, client[c].cursor)), db)
<1>. DEFINE j == client[c].job
            k == client[c].cursor
            ids == {e.id : e \in {x \in db.events : x.job = j}}
            a == Ascending(Newer(j, k))
            m == IF Len(a) < PageLimit THEN Len(a) ELSE PageLimit
            page == SubSeq(a, 1, m)
            r == Followed(c, page)
<1>1. ReadGood(client[c], db)
  BY EventParts
<1>2. k \in Nat
  <2>1. db.events \subseteq [job : Nat, id : Nat]
    BY JobRows DEF RemoteInv, RemoteTypeOK
  <2>. QED  BY <1>1, <2>1 DEF ReadGood
<1>3. /\ ids \in SUBSET Nat /\ IsFiniteSet(ids)
      /\ UpTo(db, j, k) = {i \in ids : i <= k} /\ Newer(j, k) = {i \in ids : i > k}
      /\ \A i \in ids : [job |-> j, id |-> i] \in db.events
      /\ \A i \in Nat : UpTo(db, j, i) = {x \in ids : x <= i}
  BY <1>2, JobIds
<1>4. Page(j, k) = page
  BY DEF Page
<1>5. DOMAIN client[c] = {"pc", "job", "cursor", "seen", "polls", "part", "told", "got", "refused"}
  BY GoodClient DEF Good, Fresh
<1>. HIDE DEF ids
<1>6. IsFiniteSet(Newer(j, k)) /\ Newer(j, k) \in SUBSET Nat
  BY <1>3, FS_Subset
<1>7. /\ Cardinality(Newer(j, k)) \in Nat /\ a \in Seq(Nat) /\ Len(a) = Cardinality(Newer(j, k))
      /\ \A n \in 1..Len(a) : a[n] \in Nat
  BY <1>6, AscendingIs, ElementOfSeq
<1>. HIDE DEF a
<1>8. m \in Nat /\ m <= Len(a)
  BY <1>7, RemoteAssumption DEF RemoteAssumption
<1>. HIDE DEF m
<1>9. page \in Seq(Nat) /\ Len(page) = m /\ \A n \in 1..m : page[n] = a[n]
  <2>1. \A n \in 1..m : a[n] \in Nat
    BY <1>7, <1>8
  <2>2. /\ page \in Seq(Nat) /\ Len(page) = (IF 1 <= m THEN m - 1 + 1 ELSE 0)
        /\ \A n \in 1..(m - 1 + 1) : page[n] = a[1 + n - 1]
    BY <1>8, <2>1, SubSeqProperties
  <2>. QED  BY <1>8, <2>2
<1>. HIDE DEF page
<1>10. /\ r.pc = "status" /\ r.job = j /\ r.seen = client[c].seen \o page
       /\ r.cursor = IF page = <<>> THEN k ELSE Last(page)
  BY <1>5 DEF Followed
<1>. HIDE DEF r
<1>11. client[c].seen = Ascending(UpTo(db, j, k))
  BY <1>1 DEF ReadGood
<1>12. CASE m = 0
  <2>1. page = <<>>
    BY <1>9, <1>12, EmptySeq
  <2>2. client[c].seen \in Seq(Nat)
    <3>1. IsFiniteSet(UpTo(db, j, k)) /\ UpTo(db, j, k) \in SUBSET Nat
      BY <1>3, FS_Subset
    <3>. QED  BY <1>11, <3>1, AscendingIs
  <2>3. r.seen = client[c].seen /\ r.cursor = k
    BY <1>10, <2>1, <2>2, ConcatEmptySeq
  <2>. QED  BY <1>1, <1>4, <1>10, <1>11, <2>3 DEF ReadGood, r
<1>13. CASE m # 0
  <2>1. page # <<>> /\ Last(page) = a[m]
    BY <1>8, <1>9, <1>13, EmptySeq DEF Last
  <2>2. m \in 1..Cardinality({i \in ids : i > k})
    BY <1>3, <1>7, <1>8, <1>13
  <2>3. /\ a[m] \in ids /\ a[m] > k
        /\ Ascending({i \in ids : i <= k}) \o page = Ascending({i \in ids : i <= a[m]})
    <3>1. LET next == Ascending({i \in ids : i > k})
          IN  /\ next[m] \in ids /\ next[m] > k
              /\ Ascending({i \in ids : i <= k}) \o SubSeq(next, 1, m)
                    = Ascending({i \in ids : i <= next[m]})
      <4>. HIDE DEF k, j
      <4>. QED  BY <1>2, <1>3, <2>2, PageContinues
    <3>2. a = Ascending({i \in ids : i > k})
      BY <1>3 DEF a
    <3>. QED  BY <3>1, <3>2 DEF page
  <2>4. r.seen = Ascending(UpTo(db, j, a[m])) /\ r.cursor = a[m]
    BY <1>3, <1>10, <1>11, <2>1, <2>3
  <2>5. [job |-> j, id |-> a[m]] \in db.events
    BY <1>3, <2>3
  <2>6. ReadGood(r, db)
    BY <1>10, <2>4, <2>5 DEF ReadGood
  <2>. QED  BY <1>4, <2>6 DEF r
<1>. QED  BY <1>12, <1>13

\* A client that moves and reads nothing.
LEMMA ReadMoved ==
    ASSUME RemoteInv, EventInv, NEW c \in Clients, NEW d \in Tables, LogStep(d), NEW r,
           r.job = client[c].job, r.cursor = client[c].cursor, r.seen = client[c].seen,
           r.pc # "submit"
    PROVE  ReadGood(r, d)
<1>1. ReadGood(client[c], d)
  BY EventParts, ReadKept
<1>. QED  BY <1>1 DEF ReadGood

LEMMA FailedReads ==
    ASSUME RemoteInv, EventInv, NEW c \in Clients, NEW d \in Tables, LogStep(d)
    PROVE  /\ ReadGood(Failed(c), d) /\ ReadGood(Ended(c), d) /\ ReadGood(Refused(c), d)
           /\ \A x : ReadGood(Told(c, x), d) /\ ReadGood([Ended(c) EXCEPT !.got = x], d)
<1>1. DOMAIN client[c] = {"pc", "job", "cursor", "seen", "polls", "part", "told", "got", "refused"}
  BY GoodClient DEF Good, Fresh
<1>2. /\ Failed(c).job = client[c].job /\ Failed(c).cursor = client[c].cursor
      /\ Failed(c).seen = client[c].seen /\ Failed(c).pc = "failed"
      /\ DOMAIN Failed(c) = DOMAIN client[c]
  BY <1>1 DEF Failed
<1>3. /\ Ended(c).job = client[c].job /\ Ended(c).cursor = client[c].cursor
      /\ Ended(c).seen = client[c].seen /\ Ended(c).pc = "ended"
      /\ DOMAIN Ended(c) = DOMAIN client[c]
  BY <1>1, <1>2 DEF Ended
<1>4. /\ Refused(c).job = client[c].job /\ Refused(c).cursor = client[c].cursor
      /\ Refused(c).seen = client[c].seen /\ Refused(c).pc = "failed"
  BY <1>1, <1>2 DEF Refused
<1>5. ASSUME NEW x
      PROVE  /\ Told(c, x).job = client[c].job /\ Told(c, x).cursor = client[c].cursor
             /\ Told(c, x).seen = client[c].seen /\ Told(c, x).pc = "ended"
  BY <1>1, <1>3 DEF Told
<1>6. ASSUME NEW x
      PROVE  LET g == [Ended(c) EXCEPT !.got = x]
             IN  /\ g.job = client[c].job /\ g.cursor = client[c].cursor
                 /\ g.seen = client[c].seen /\ g.pc = "ended"
  BY <1>1, <1>3
<1>7. ReadGood(Failed(c), d) /\ ReadGood(Ended(c), d) /\ ReadGood(Refused(c), d)
  BY <1>2, <1>3, <1>4, ReadMoved
<1>8. ASSUME NEW x  PROVE ReadGood(Told(c, x), d)
  BY <1>5, ReadMoved
<1>9. ASSUME NEW x  PROVE ReadGood([Ended(c) EXCEPT !.got = x], d)
  BY <1>6, ReadMoved
<1>. QED  BY <1>7, <1>8, <1>9

\* A client after an answer.
LEMMA AnswerReads ==
    ASSUME RemoteInv, EventInv, NEW c \in Clients, client[c].pc \in Asking, NEW e,
           e.db \in Tables, LogStep(e.db), EventsGood(e.db, tx),
           client[c].pc = "events" =>
                e.db = db /\ e.answer = Page(client[c].job, client[c].cursor)
    PROVE  ReadGood(Answered(c, e.answer), e.db)
<1>. DEFINE a == e.answer
            d == e.db
<1>1. DOMAIN client[c] = {"pc", "job", "cursor", "seen", "polls", "part", "told", "got", "refused"}
  BY GoodClient DEF Good, Fresh
<1>2. /\ ReadGood(Failed(c), d) /\ ReadGood(Ended(c), d) /\ ReadGood(Told(c, a), d)
  BY FailedReads
<1>3. CASE client[c].pc = "submit"
  <2>1. Answered(c, a) = Submitted(c, a)
    BY <1>3 DEF Answered
  <2>2. /\ Submitted(c, a).pc = "events" /\ Submitted(c, a).job = a
        /\ Submitted(c, a).cursor = client[c].cursor /\ Submitted(c, a).seen = client[c].seen
    BY <1>1 DEF Submitted
  <2>3. client[c].cursor = 0 /\ client[c].seen = <<>>
    <3>1. ReadGood(client[c], db) /\ EventsGood(db, tx)
      BY EventParts
    <3>2. None \notin DOMAIN db.jobs
      BY JobRows DEF RemoteInv, RemoteTypeOK
    <3>3. \A i : [job |-> None, id |-> i] \notin db.events
      BY <3>1, <3>2 DEF EventsGood
    <3>. QED  BY <1>3, <3>1, <3>3 DEF ReadGood
  <2>4. Ascending(UpTo(d, a, 0)) = <<>>
    <3>1. \A i \in d.events : i.id \in Nat /\ i.id > 0
      BY JobRows DEF EventsGood
    <3>. QED  BY <3>1, NothingRead
  <2>. QED  BY <2>1, <2>2, <2>3, <2>4 DEF ReadGood
<1>4. CASE client[c].pc = "events"
  <2>1. Answered(c, a) = Followed(c, a)
    BY <1>4 DEF Answered
  <2>2. client[c].job # None
    BY <1>4, GoodClient DEF Good
  <2>. QED  BY <1>4, <2>1, <2>2, FollowedReads
<1>5. CASE client[c].pc = "status"
  <2>1. Answered(c, a) = Polled(c, a)
    BY <1>5 DEF Answered
  <2>2. \/ Polled(c, a) \in {Failed(c), Ended(c)}
        \/ Polled(c, a) = [client[c] EXCEPT !.pc = "artifacts", !.polls = 0]
        \/ Polled(c, a) = [client[c] EXCEPT !.pc = "events", !.polls = client[c].polls + 1]
    BY DEF Polled, Terminal
  <2>3. CASE Polled(c, a) = [client[c] EXCEPT !.pc = "artifacts", !.polls = 0]
    <3>1. /\ Polled(c, a).pc = "artifacts" /\ Polled(c, a).job = client[c].job
          /\ Polled(c, a).cursor = client[c].cursor /\ Polled(c, a).seen = client[c].seen
      BY <1>1, <2>3
    <3>. QED  BY <2>1, <3>1, ReadMoved
  <2>4. CASE Polled(c, a) = [client[c] EXCEPT !.pc = "events", !.polls = client[c].polls + 1]
    <3>1. /\ Polled(c, a).pc = "events" /\ Polled(c, a).job = client[c].job
          /\ Polled(c, a).cursor = client[c].cursor /\ Polled(c, a).seen = client[c].seen
      BY <1>1, <2>4
    <3>. QED  BY <2>1, <3>1, ReadMoved
  <2>. QED  BY <1>2, <2>1, <2>2, <2>3, <2>4
<1>6. CASE client[c].pc = "cancel"
  BY <1>2, <1>6 DEF Answered
<1>7. CASE client[c].pc = "artifacts"
  <2>1. Answered(c, a) = Listed(c)
    BY <1>7 DEF Answered
  <2>2. /\ Listed(c).pc = "download" /\ Listed(c).job = client[c].job
        /\ Listed(c).cursor = client[c].cursor /\ Listed(c).seen = client[c].seen
    BY <1>1 DEF Listed
  <2>. QED  BY <2>1, <2>2, ReadMoved
<1>8. CASE client[c].pc = "download"
  <2>1. Answered(c, a) = Fetched(c, a)
    BY <1>8 DEF Answered
  <2>2. CASE file # NoFile
    BY <1>2, <2>1, <2>2 DEF Fetched
  <2>3. CASE file = NoFile
    <3>1. /\ Fetched(c, a).pc = "publish" /\ Fetched(c, a).job = client[c].job
          /\ Fetched(c, a).cursor = client[c].cursor /\ Fetched(c, a).seen = client[c].seen
      BY <1>1, <2>3 DEF Fetched
    <3>. QED  BY <2>1, <3>1, ReadMoved
  <2>. QED  BY <2>2, <2>3
<1>. QED  BY <1>3, <1>4, <1>5, <1>6, <1>7, <1>8 DEF Asking

-----------------------------------------------------------------------------
(* EventInv, action by action *)

\* The id that a transaction takes is newer than all.
LEMMA BeginEvents ==
    ASSUME RemoteInv, EventInv, db' \in Tables, NEW w \in Writers, Begin(w)
    PROVE  EventInv'
<1>. DEFINE n == db.sequence + 1
<1>0. PICK j \in DOMAIN db.jobs : \E to \in Outcomes(db.jobs[j]) :
        /\ tx' = [tx EXCEPT ![w] = [job |-> j, to |-> to, id |-> n]]
        /\ db' = [db EXCEPT !.sequence = n]
  BY DEF Begin
<1>1. PICK to : /\ tx' = [tx EXCEPT ![w] = [job |-> j, to |-> to, id |-> n]]
                /\ db' = [db EXCEPT !.sequence = n]
  BY <1>0
<1>2. db \in Tables /\ tx \in [Writers -> Transaction] /\ client' = client
  BY DEF RemoteInv, RemoteTypeOK, Begin
<1>3. db.sequence \in Nat /\ n \in Nat /\ n \in 1..n /\ \A i \in 1..db.sequence : i \in 1..n /\ i < n
  BY <1>2, JobRows
<1>. DEFINE t == [job |-> j, to |-> to, id |-> n]
<1>4. t.job = j /\ t.id = n
  OBVIOUS
<1>. HIDE DEF n
<1>5. db'.events = db.events /\ db'.jobs = db.jobs /\ db'.sequence = n
  BY <1>1, <1>2 DEF Tables
<1>6. tx'[w] = t /\ \A v \in Writers : v # w => tx'[v] = tx[v]
  BY <1>1, <1>2
<1>. HIDE DEF t
<1>7. EventsGood(db, tx) /\ LogStep(db')
  BY <1>5, EventParts DEF LogStep
<1>8. EventsGood(db', tx')
  BY <1>3, <1>4, <1>5, <1>6, <1>7 DEF EventsGood
<1>. QED  BY <1>2, <1>7, <1>8, EventKeeps

\* The event of a transaction becomes visible: it is the newest of its job, which
\* no other open transaction holds.
LEMMA CommitEvents ==
    ASSUME RemoteInv, EventInv, RemoteInv', NEW w \in Writers, Commit(w)
    PROVE  EventInv'
<1>. DEFINE new == [job |-> tx[w].job, id |-> tx[w].id]
<1>1. /\ db \in Tables /\ tx \in [Writers -> Transaction] /\ client' = client
      /\ tx[w] # NoTx /\ tx' = [tx EXCEPT ![w] = NoTx] /\ db' \in Tables
  BY DEF RemoteInv, RemoteTypeOK, Commit
<1>2. db'.events = db.events \cup {new} /\ db'.sequence = db.sequence
      /\ DOMAIN db'.jobs = DOMAIN db.jobs
  <2>. DEFINE j == tx[w].job
  <2>1. db' = [db EXCEPT !.jobs[j].state = tx[w].to,
                         !.jobs[j].tries = @ + (IF tx[w].to = "running" THEN 1 ELSE 0),
                         !.events = @ \cup {new}]
    BY DEF Commit
  <2>. HIDE DEF j, new
  <2>. QED  BY <1>1, <2>1 DEF Tables
<1>3. new.job = tx[w].job /\ new.id = tx[w].id
  OBVIOUS
<1>. HIDE DEF new
<1>4. tx'[w] = NoTx /\ \A v \in Writers : v # w => tx'[v] = tx[v]
  <2>. HIDE DEF NoTx
  <2>. QED  BY <1>1
<1>5. EventsGood(db, tx)
  BY EventParts
<1>6. /\ tx[w].id \in 1..db.sequence /\ tx[w].job \in DOMAIN db.jobs
      /\ \A x \in db.events : x.job = tx[w].job => x.id < tx[w].id
  BY <1>1, <1>5 DEF EventsGood, RemoteInv, TxSound
<1>7. \A v \in Writers : v # w /\ tx[v] # NoTx => tx[v].job # tx[w].job
  BY DEF RemoteInv, TxSound
<1>8. LogStep(db')
  <2>1. tx[w].id > 0
    BY <1>1, <1>6, JobRows
  <2>. QED  BY <1>2, <1>3, <1>6, <2>1 DEF LogStep
<1>9. EventsGood(db', tx')
  BY <1>2, <1>3, <1>4, <1>5, <1>6, <1>7 DEF EventsGood
<1>. QED  BY <1>1, <1>8, <1>9, EventKeeps

LEMMA AbortEvents ==
    ASSUME RemoteInv, EventInv, NEW w \in Writers, Abort(w)
    PROVE  EventInv'
<1>1. /\ db \in Tables /\ tx \in [Writers -> Transaction] /\ client' = client
      /\ tx' = [tx EXCEPT ![w] = NoTx] /\ db' = db
  BY DEF RemoteInv, RemoteTypeOK, Abort
<1>2. tx'[w] = NoTx /\ \A v \in Writers : v # w => tx'[v] = tx[v]
  <2>. HIDE DEF NoTx
  <2>. QED  BY <1>1
<1>3. LogStep(db) /\ EventsGood(db, tx)
  BY SameLog
<1>4. EventsGood(db, tx')
  BY <1>2, <1>3 DEF EventsGood
<1>. QED  BY <1>1, <1>3, <1>4, EventKeeps

\* One client moves.
LEMMA OneReads ==
    ASSUME RemoteInv, EventInv, db' \in Tables, LogStep(db'), EventsGood(db', tx), tx' = tx,
           NEW c \in Clients, NEW r, Becomes(c, r), ReadGood(r, db')
    PROVE  EventInv'
<1>1. \A b \in Clients : client'[b] = client[b] \/ ReadGood(client'[b], db')
  BY DEF Becomes, RemoteInv, RemoteTypeOK
<1>. QED  BY <1>1, EventKeeps

LEMMA AskEvents ==
    ASSUME RemoteInv, EventInv, db' \in Tables, NEW c \in Clients, Ask(c)
    PROVE  EventInv'
<1>. DEFINE e == Handle(Request(c))
            r == IF e.ok THEN Answered(c, e.answer) ELSE Refused(c)
<1>1. client[c].pc \in Asking /\ Executable(Request(c)) /\ db' = e.db /\ Becomes(c, r) /\ tx' = tx
  BY DEF Ask
<1>2. /\ RequestSound(Request(c)) /\ Request(c).kind = client[c].pc
      /\ Request(c).job = client[c].job
  BY <1>1, RequestIsSound
<1>3. Request(c).cursor = client[c].cursor
  BY DEF Request
<1>4. /\ LogStep(e.db) /\ EventsGood(e.db, tx)
      /\ client[c].pc = "events" /\ e.ok =>
            e.db = db /\ e.answer = Page(client[c].job, client[c].cursor)
  <2>1. /\ LogStep(e.db) /\ EventsGood(e.db, tx)
        /\ client[c].pc = "events" /\ e.ok => e.answer = Page(client[c].job, client[c].cursor)
    <3>. HIDE DEF Request
    <3>. QED  BY <1>1, <1>2, <1>3, HandleLog
  <2>2. client[c].pc = "events" => e.db = db
    BY <1>2 DEF Handle, GetEvents, Effect, Refusal
  <2>. QED  BY <2>1, <2>2
<1>. HIDE DEF e
<1>5. CASE e.ok
  <2>1. ReadGood(Answered(c, e.answer), e.db)
    BY <1>1, <1>4, <1>5, AnswerReads
  <2>. QED  BY <1>1, <1>4, <1>5, <2>1, OneReads
<1>6. CASE ~e.ok
  <2>1. ReadGood(Refused(c), e.db)
    BY <1>1, <1>4, FailedReads
  <2>. QED  BY <1>1, <1>4, <1>6, <2>1, OneReads
<1>. QED  BY <1>5, <1>6

LEMMA TransportFailsEvents ==
    ASSUME RemoteInv, EventInv, db' \in Tables, NEW c \in Clients, TransportFails(c)
    PROVE  EventInv'
<1>1. /\ client[c].pc \in Asking /\ Becomes(c, Failed(c)) /\ tx' = tx
      /\ \/ db' = db
         \/ Executable(Request(c)) /\ db' = Handle(Request(c)).db
  BY DEF TransportFails
<1>2. RequestSound(Request(c)) /\ Request(c).kind = client[c].pc
  BY <1>1, RequestIsSound
<1>. HIDE DEF Request
<1>3. LogStep(db') /\ EventsGood(db', tx)
  <2>1. CASE db' = db
    BY <2>1, SameLog
  <2>2. CASE Executable(Request(c)) /\ db' = Handle(Request(c)).db
    BY <1>1, <1>2, <2>2, HandleLog
  <2>. QED  BY <1>1, <2>1, <2>2
<1>4. ReadGood(Failed(c), db')
  BY <1>3, FailedReads
<1>. QED  BY <1>1, <1>3, <1>4, OneReads

LEMMA ArrivesLateEvents ==
    ASSUME RemoteInv, EventInv, db' \in Tables, ArrivesLate
    PROVE  EventInv'
<1>1. PICK req \in late : Executable(req) /\ db' = Handle(req).db
  BY DEF ArrivesLate
<1>2. RequestSound(req) /\ req.kind \in Asking
  BY DEF RemoteInv, Asking
<1>3. LogStep(db') /\ EventsGood(db', tx)
  BY <1>1, <1>2, HandleLog
<1>. QED  BY <1>3, EventKeeps DEF ArrivesLate

LEMMA HostInterruptsEvents ==
    ASSUME RemoteInv, EventInv, NEW c \in Clients, HostInterrupts(c)
    PROVE  EventInv'
<1>. DEFINE r == [client[c] EXCEPT !.pc = "cancel"]
<1>1. Becomes(c, r) /\ db' = db /\ tx' = tx /\ db \in Tables
  BY DEF HostInterrupts, RemoteInv, RemoteTypeOK
<1>2. DOMAIN client[c] = {"pc", "job", "cursor", "seen", "polls", "part", "told", "got", "refused"}
  BY GoodClient DEF Good, Fresh
<1>3. /\ r.pc = "cancel" /\ r.job = client[c].job
      /\ r.cursor = client[c].cursor /\ r.seen = client[c].seen
  BY <1>2
<1>. HIDE DEF r
<1>4. LogStep(db) /\ EventsGood(db, tx)
  BY SameLog
<1>5. ReadGood(r, db)
  BY <1>1, <1>3, <1>4, ReadMoved
<1>. QED  BY <1>1, <1>4, <1>5, OneReads

LEMMA PublishEvents ==
    ASSUME RemoteInv, EventInv, NEW c \in Clients, Publish(c)
    PROVE  EventInv'
<1>1. db' = db /\ tx' = tx /\ db \in Tables
  BY DEF Publish, RemoteInv, RemoteTypeOK
<1>2. Becomes(c, Failed(c)) \/ \E body : Becomes(c, [Ended(c) EXCEPT !.got = body])
  BY DEF Publish, Link
<1>3. LogStep(db) /\ EventsGood(db, tx)
  BY SameLog
<1>4. ReadGood(Failed(c), db) /\ \A body : ReadGood([Ended(c) EXCEPT !.got = body], db)
  BY <1>1, <1>3, FailedReads
<1>. QED  BY <1>1, <1>2, <1>3, <1>4, OneReads

\* A command that is run again reads its job's events from the first.
LEMMA RestartEvents ==
    ASSUME RemoteInv, EventInv, NEW c \in Clients, Restart(c)
    PROVE  EventInv'
<1>. DEFINE r == [Fresh EXCEPT !.pc = "events", !.job = client[c].job]
<1>1. db' = db /\ tx' = tx /\ db \in Tables /\ (Becomes(c, Fresh) \/ Becomes(c, r))
  BY DEF Restart, RemoteInv, RemoteTypeOK
<1>2. LogStep(db) /\ EventsGood(db, tx)
  BY SameLog
<1>3. ReadGood(Fresh, db)
  BY DEF ReadGood, Fresh
<1>4. ReadGood(r, db)
  <2>1. r.pc = "events" /\ r.job = client[c].job /\ r.cursor = 0 /\ r.seen = <<>>
    BY DEF Fresh
  <2>. HIDE DEF r
  <2>2. \A e \in db.events : e.id \in Nat /\ e.id > 0
    BY <1>1, <1>2, JobRows DEF EventsGood
  <2>3. Ascending(UpTo(db, client[c].job, 0)) = <<>>
    BY <2>2, NothingRead
  <2>. QED  BY <2>1, <2>3 DEF ReadGood
<1>. HIDE DEF r
<1>. QED  BY <1>1, <1>2, <1>3, <1>4, OneReads

LEMMA EventInitial == RemoteInit => EventInv
<1>. SUFFICES ASSUME RemoteInit
              PROVE  EventInv
  OBVIOUS
<1>1. db.events = {} /\ (\A w \in Writers : tx[w] = NoTx)
      /\ \A c \in Clients : client[c] = Fresh
  BY DEF RemoteInit
<1>2. ReadGood(Fresh, db)
  BY DEF ReadGood, Fresh
<1>3. EventsGood(db, tx)
  BY <1>1 DEF EventsGood
<1>. QED  BY <1>1, <1>2, <1>3, EventParts

LEMMA EventStep ==
    RemoteInv /\ RemoteInv' /\ EventInv /\ [RemoteNext]_remoteVars => EventInv'
<1>. SUFFICES ASSUME RemoteInv, RemoteInv', EventInv, [RemoteNext]_remoteVars
              PROVE  EventInv'
  OBVIOUS
<1>0. db' \in Tables
  BY DEF RemoteInv, RemoteTypeOK
<1>1. ASSUME NEW w \in Writers, Begin(w)  PROVE EventInv'
  BY <1>0, <1>1, BeginEvents
<1>2. ASSUME NEW w \in Writers, Commit(w)  PROVE EventInv'
  BY <1>2, CommitEvents
<1>3. ASSUME NEW w \in Writers, Abort(w)  PROVE EventInv'
  BY <1>3, AbortEvents
<1>4. ASSUME NEW c \in Clients, Ask(c)  PROVE EventInv'
  BY <1>0, <1>4, AskEvents
<1>5. ASSUME NEW c \in Clients, TransportFails(c)  PROVE EventInv'
  BY <1>0, <1>5, TransportFailsEvents
<1>6. ASSUME NEW c \in Clients, HostInterrupts(c)  PROVE EventInv'
  BY <1>6, HostInterruptsEvents
<1>7. ASSUME NEW c \in Clients, Publish(c)  PROVE EventInv'
  BY <1>7, PublishEvents
<1>8. ASSUME NEW c \in Clients, Restart(c)  PROVE EventInv'
  BY <1>8, RestartEvents
<1>9. CASE ArrivesLate
  BY <1>0, <1>9, ArrivesLateEvents
<1>10. CASE Retire \/ UNCHANGED remoteVars
  <2>1. db' = db /\ tx' = tx /\ client' = client
    BY <1>10 DEF Retire, remoteVars
  <2>. QED  BY <1>0, <2>1, SameLog, EventKeeps
<1>. QED
  BY <1>1, <1>2, <1>3, <1>4, <1>5, <1>6, <1>7, <1>8, <1>9, <1>10 DEF RemoteNext

\* Whoever follows a job by its cursor has seen every event up to there, once and
\* in order, whatever page size and however the transactions that write events
\* overlap: list_events asks for ids above the cursor, and the row lock keeps the
\* ids of one job in the order in which they become visible.
THEOREM EventsSeenOnce == RemoteSpec => []EventsExactlyOnce
<1>1. EventInv => EventsExactlyOnce
  BY DEF EventInv
<1>. QED  BY <1>1, EventInitial, EventStep, RemoteInvariance, PTL DEF RemoteSpec

=============================================================================
