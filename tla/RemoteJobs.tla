----------------------------- MODULE RemoteJobs -----------------------------
(***************************************************************************)
(* Remote clients and the job API.                                         *)
(*                                                                         *)
(* A client (the command line or the ComfyUI remote nodes, over            *)
(* RemoteClient) submits a job under an idempotency key, follows its       *)
(* events with a cursor while it polls the state, asks for cancellation    *)
(* when its host is interrupted, and downloads the artifact into a file    *)
(* that another client may be writing as well.  The API (DurableApi,       *)
(* ApplicationService, PostgresDurableRepository) answers from PostgreSQL, *)
(* where transactions of the queue move the jobs on: each holds the row    *)
(* lock of its job, takes event ids from one sequence of the whole table   *)
(* when it inserts and becomes visible when it commits.                    *)
(*                                                                         *)
(* A request may be lost before or after it was executed, or be executed   *)
(* long after its client gave up; a download may arrive damaged; a client  *)
(* may die and run the same command again.                                 *)
(***************************************************************************)
EXTENDS Naturals, Sequences, FiniteSets, SequencesExt

CONSTANTS
    Clients,        \* each with a bearer token
    Namespaces,
    Requests,       \* bodies of a submission, as canonical_request_sha256 tells them apart
    Writers,        \* connections of workers and the reaper
    MaxAttempts,    \* attempts of a job
    PageLimit,      \* events of a page (50 in RemoteWaitNode)
    PollBound,      \* RemoteOperatorConfig.max_poll_iterations
    EventBound,     \* bound on the event ids ever taken
    LossBound,      \* bound on broken transactions and lost, late or damaged messages
    RestartBound    \* bound on the commands that are run again

ASSUME RemoteAssumption ==
    /\ MaxAttempts \in Nat \ {0} /\ PageLimit \in Nat \ {0} /\ PollBound \in Nat \ {0}
    /\ EventBound \in Nat /\ LossBound \in Nat /\ RestartBound \in Nat

VARIABLES
    command,    \* command[c]: token, namespace and request; all use one idempotency key
    db,         \* committed rows: jobs, job_events and its id sequence
    tx,         \* tx[w]: the open transaction of a writer
    ready,      \* the deployment is READY
    client,     \* client[c]
    late,       \* requests that their client has given up
    file,       \* the download target
    losses, restarts

remoteVars == <<command, db, tx, ready, client, late, file, losses, restarts>>

None == 0
NoFile == <<>>
Terminal == {"succeeded", "failed", "cancelled"}
NoTx == [job |-> None, to |-> "none", id |-> 0]
Fresh == [pc |-> "submit", job |-> None, cursor |-> 0, seen |-> <<>>, polls |-> 0,
          part |-> NoFile, told |-> FALSE, got |-> NoFile, refused |-> FALSE]

\* A token is the namespace that it grants, None one that nobody granted.
Tokens == Namespaces \cup {None}

\* The body of a submission, with the namespace that the client names, and the
\* token of its header.
Command == [token : Tokens, ns : Namespaces, request : Requests]

\* The clients that wait for an answer of the API.
Asking == {"submit", "events", "status", "cancel", "artifacts", "download"}

RemoteInit ==
    /\ command \in [Clients -> Command]
    /\ db = [jobs |-> <<>>, events |-> {}, sequence |-> 0]
    /\ tx = [w \in Writers |-> NoTx]
    /\ ready = TRUE
    /\ client = [c \in Clients |-> Fresh]
    /\ late = {} /\ file = NoFile /\ losses = 0 /\ restarts = 0

-----------------------------------------------------------------------------
(* The repository.  An effect is the new content of the tables with the answer;
   a refusal (404, 409) changes nothing. *)

Effect(tables, answer) == [db |-> tables, ok |-> TRUE, answer |-> answer]
Refusal == [db |-> db, ok |-> FALSE, answer |-> None]

\* INSERT INTO job_events takes the next id of the sequence.
WithEvent(tables, j) ==
    LET id == tables.sequence + 1
    IN  [tables EXCEPT !.events = @ \cup {[job |-> j, id |-> id]}, !.sequence = id]

\* mutant: the request hash is not compared
AnySubmission(job, cmd) == TRUE

\* The comparison of request_sha256 with a row of the same key.
SameSubmission(job, cmd) == job.request = cmd.request

\* create_job: the deployment is looked at first, the key only then.
CreateJob(cmd) ==
    LET j == Len(db.jobs) + 1
        same == {k \in DOMAIN db.jobs : db.jobs[k].ns = cmd.ns}
        row == [ns |-> cmd.ns, request |-> cmd.request, state |-> "queued",
                cancel |-> FALSE, tries |-> 0]
    IN  IF ~ready THEN Refusal
        ELSE IF same # {}
        THEN LET k == CHOOSE k \in same : TRUE
             IN  IF SameSubmission(db.jobs[k], cmd) THEN Effect(db, k) ELSE Refusal
        ELSE Effect(WithEvent([db EXCEPT !.jobs = Append(@, row)], j), j)

\* request_cancel, under the row lock.
RequestCancel(j) ==
    LET job == db.jobs[j]
        flagged == [db EXCEPT !.jobs[j].cancel = TRUE,
                              !.jobs[j].state = IF @ = "queued" THEN "cancelled" ELSE @]
        after == IF job.state \in {"queued", "running"}
                 THEN WithEvent(flagged, j) ELSE db
    IN  Effect(after, after.jobs[j].cancel)

\* list_events and the page that ApplicationService.events makes of it.
Newer(j, cursor) == {e.id : e \in {x \in db.events : x.job = j /\ x.id > cursor}}
Rank(ids, i) == Cardinality({k \in ids : k <= i})
Ascending(ids) == [n \in 1..Cardinality(ids) |-> CHOOSE i \in ids : Rank(ids, i) = n]
Page(j, cursor) ==
    LET ids == Ascending(Newer(j, cursor))
    IN  SubSeq(ids, 1, IF Len(ids) < PageLimit THEN Len(ids) ELSE PageLimit)

\* The visible winner of a job, named by the job and its last attempt.
Artifact(j) == <<j, db.jobs[j].tries>>
Visible(j) == IF db.jobs[j].state = "succeeded" THEN {Artifact(j)} ELSE {}

-----------------------------------------------------------------------------
(* The queue: one transaction moves a job on.  LeaseQueue and Publication have
   the details; JobLifecycle is what they promise. *)

\* Where a transaction may take a job.
Outcomes(job) ==
    CASE job.state = "queued" /\ job.tries < MaxAttempts -> {"running"}
      [] job.state = "running" /\ job.cancel -> {"cancelled"}
      [] job.state = "running" /\ ~job.cancel ->
            {"succeeded", "failed"} \cup (IF job.tries < MaxAttempts THEN {"queued"} ELSE {})
      [] OTHER -> {}

\* mutant: the job row is read without FOR UPDATE
NeverLocked(j) == TRUE

\* SELECT ... FOR UPDATE on the job row.
Unlocked(j) == \A w \in Writers : tx[w].job # j

\* A connection of a worker or the reaper locks the row, changes it and inserts
\* its event (one stands for all the events of the transaction), ...
Begin(w) ==
    /\ tx[w] = NoTx /\ db.sequence < EventBound
    /\ \E j \in DOMAIN db.jobs : \E to \in Outcomes(db.jobs[j]) :
        /\ Unlocked(j)
        /\ tx' = [tx EXCEPT ![w] = [job |-> j, to |-> to, id |-> db.sequence + 1]]
        /\ db' = [db EXCEPT !.sequence = @ + 1]
    /\ UNCHANGED <<command, ready, client, late, file, losses, restarts>>

\* ... and commits, ...
Commit(w) ==
    /\ tx[w] # NoTx
    /\ LET j == tx[w].job IN
        db' = [db EXCEPT !.jobs[j].state = tx[w].to,
                         !.jobs[j].tries = @ + (IF tx[w].to = "running" THEN 1 ELSE 0),
                         !.events = @ \cup {[job |-> j, id |-> tx[w].id]}]
    /\ tx' = [tx EXCEPT ![w] = NoTx]
    /\ UNCHANGED <<command, ready, client, late, file, losses, restarts>>

\* ... or its connection breaks; the event id is not used again.
Abort(w) ==
    /\ tx[w] # NoTx /\ losses < LossBound
    /\ losses' = losses + 1
    /\ tx' = [tx EXCEPT ![w] = NoTx]
    /\ UNCHANGED <<command, db, ready, client, late, file, restarts>>

\* An operator retires the deployment.
Retire ==
    /\ ready /\ ready' = FALSE
    /\ UNCHANGED <<command, db, tx, client, late, file, losses, restarts>>

-----------------------------------------------------------------------------
(* DurableApi.handle: authentication, routing and ownership, then the service *)

Request(c) == [kind |-> client[c].pc, token |-> command[c].token, ns |-> command[c].ns,
               request |-> command[c].request, job |-> client[c].job, cursor |-> client[c].cursor]

\* StaticTokenAuthenticator: the principal, by what its token grants.
Authenticate(req) == req.token

\* StaticAuthorizationPolicy: the token must grant the namespace.
Allows(granted, ns) == granted = ns

\* _owned_job
Owned(req) == Allows(Authenticate(req), db.jobs[req.job].ns)

\* The transaction of a request waits for the row lock.
Executable(req) ==
    /\ req.kind = "cancel" => Unlocked(req.job)
    /\ req.kind \in {"submit", "cancel"} => db.sequence < EventBound

\* The routes of the application service.
Submit(req) == IF Allows(Authenticate(req), req.ns) THEN CreateJob(req) ELSE Refusal
Cancel(j) == RequestCancel(j)
GetJob(j) == Effect(db, db.jobs[j].state)
GetEvents(j, cursor) == Effect(db, Page(j, cursor))
GetArtifacts(j) == Effect(db, Visible(j))

Handle(req) ==
    IF req.kind = "submit" THEN Submit(req)
    ELSE IF ~Owned(req) THEN Refusal
    ELSE CASE req.kind = "cancel" -> Cancel(req.job)
           [] req.kind = "events" -> GetEvents(req.job, req.cursor)
           [] req.kind = "status" -> GetJob(req.job)
           [] req.kind \in {"artifacts", "download"} -> GetArtifacts(req.job)

-----------------------------------------------------------------------------
(* RemoteClient and the nodes *)

Failed(c) == [client[c] EXCEPT !.pc = "failed", !.polls = 0, !.part = NoFile]
Ended(c) == [Failed(c) EXCEPT !.pc = "ended"]

\* _raise_status: the command ends.  A submission may be refused although its job
\* is there.
Refused(c) ==
    [Failed(c) EXCEPT !.refused =
        /\ client[c].pc = "submit" /\ command[c].token = command[c].ns
        /\ \E k \in DOMAIN db.jobs :
            db.jobs[k].ns = command[c].ns /\ db.jobs[k].request = command[c].request]

\* RemoteSubmitNode: the job it is given.
Submitted(c, j) == [client[c] EXCEPT !.pc = "events", !.job = j]

\* The loop of RemoteWaitNode.wait: a page of events, then a slice of
\* RemoteClient.wait, at most PollBound times.
Followed(c, page) ==
    [client[c] EXCEPT !.pc = "status", !.seen = @ \o page,
                      !.cursor = IF page = <<>> THEN @ ELSE Last(page)]
Polled(c, state) ==
    CASE state = "succeeded" -> [client[c] EXCEPT !.pc = "artifacts", !.polls = 0]
      [] state \in Terminal \ {"succeeded"} -> Ended(c)
      [] state \notin Terminal /\ client[c].polls + 1 = PollBound -> Failed(c)
      [] OTHER -> [client[c] EXCEPT !.pc = "events", !.polls = @ + 1]

\* RemoteCancelNode and the cancellation of a wait: the job as the API shows it.
Told(c, cancelled) == [Ended(c) EXCEPT !.told = cancelled]

\* RemoteArtifactsNode; RemoteDownloadNode takes the only artifact of the list.
Listed(c) == [client[c] EXCEPT !.pc = "download"]

\* RemoteClient.download up to its temporary file: the target must not exist.
Fetched(c, artifacts) ==
    IF file # NoFile THEN Failed(c)
    ELSE [client[c] EXCEPT !.pc = "publish", !.part = CHOOSE a \in artifacts : TRUE]

\* What a client does with an answer.
Answered(c, answer) ==
    CASE client[c].pc = "submit" -> Submitted(c, answer)
      [] client[c].pc = "events" -> Followed(c, answer)
      [] client[c].pc = "status" -> Polled(c, answer)
      [] client[c].pc = "cancel" -> Told(c, answer)
      [] client[c].pc = "artifacts" -> Listed(c)
      [] client[c].pc = "download" -> Fetched(c, answer)

Becomes(c, record) == client' = [client EXCEPT ![c] = record]

\* A request is executed and answered.
Ask(c) ==
    /\ client[c].pc \in Asking /\ Executable(Request(c))
    /\ LET effect == Handle(Request(c)) IN
        /\ db' = effect.db
        /\ Becomes(c, IF effect.ok THEN Answered(c, effect.answer) ELSE Refused(c))
    /\ UNCHANGED <<command, tx, ready, late, file, losses, restarts>>

\* The transport fails, or the process of the client dies: the request was lost,
\* its answer was, or the request is still under way.
TransportFails(c) ==
    /\ client[c].pc \in Asking /\ losses < LossBound
    /\ losses' = losses + 1
    /\ Becomes(c, Failed(c))
    /\ \/ UNCHANGED <<db, late>>
       \/ /\ Executable(Request(c)) /\ db' = Handle(Request(c)).db /\ UNCHANGED late
       \/ /\ client[c].pc \in {"submit", "cancel"}
          /\ late' = late \cup {Request(c)} /\ UNCHANGED db
    /\ UNCHANGED <<command, tx, ready, file, restarts>>

\* A request arrives whose client does not wait any more.
ArrivesLate ==
    /\ \E req \in late :
        /\ Executable(req)
        /\ db' = Handle(req).db
        /\ late' = late \ {req}
    /\ UNCHANGED <<command, tx, ready, client, file, losses, restarts>>

\* The host is interrupted: the wait asks for cancellation before its next page.
HostInterrupts(c) ==
    /\ client[c].pc = "events"
    /\ Becomes(c, [client[c] EXCEPT !.pc = "cancel"])
    /\ UNCHANGED <<command, db, tx, ready, late, file, losses, restarts>>

\* What the client finds in its temporary file at the end of the body.
Damaged == <<None, None>>
Streamed(c) == {client[c].part} \cup (IF losses < LossBound THEN {Damaged} ELSE {})

\* mutant: the size and the digest are not compared with the headers
AnyBody(c, body) == TRUE

\* The size and the SHA-256 of the body against the headers of the answer.
Intact(c, body) == body = client[c].part

\* os.link creates the target or fails when it exists.  The process may die when
\* it has published and before it says so.
Link(c, body) ==
    \/ /\ file = NoFile /\ file' = body
       /\ \/ Becomes(c, [Ended(c) EXCEPT !.got = body]) /\ UNCHANGED losses
          \/ losses < LossBound /\ losses' = losses + 1 /\ Becomes(c, Failed(c))
    \/ file # NoFile /\ Becomes(c, Failed(c)) /\ UNCHANGED <<file, losses>>

\* The end of RemoteClient.download.
Publish(c) ==
    /\ client[c].pc = "publish"
    /\ \E body \in Streamed(c) :
        IF Intact(c, body) THEN Link(c, body)
        ELSE Becomes(c, Failed(c)) /\ losses' = losses + 1 /\ UNCHANGED file
    /\ UNCHANGED <<command, db, tx, ready, late, restarts>>

\* A client that failed, or whose process died, runs the command again, or only
\* its wait and what follows.
Restart(c) ==
    /\ client[c].pc = "failed" /\ restarts < RestartBound
    /\ restarts' = restarts + 1
    /\ \/ Becomes(c, Fresh)
       \/ /\ client[c].job # None
          /\ Becomes(c, [Fresh EXCEPT !.pc = "events", !.job = client[c].job])
    /\ UNCHANGED <<command, db, tx, ready, late, file, losses>>

RemoteNext ==
    \/ \E w \in Writers : Begin(w) \/ Commit(w) \/ Abort(w)
    \/ \E c \in Clients :
        \/ Ask(c) \/ TransportFails(c) \/ HostInterrupts(c) \/ Publish(c) \/ Restart(c)
    \/ ArrivesLate \/ Retire

RemoteSpec == RemoteInit /\ [][RemoteNext]_remoteVars

-----------------------------------------------------------------------------
(* Correctness *)

\* However often a command is submitted, also by requests that arrive after their
\* client gave up, a namespace has one job for the idempotency key, and whoever is
\* given a job asked for exactly that, with a token for its namespace (create_job,
\* ON CONFLICT and the hash, allows_namespace).
AcceptedIsMine ==
    /\ \A c \in Clients : client[c].job # None =>
        LET job == db.jobs[client[c].job]
        IN  /\ job.ns = command[c].ns /\ job.request = command[c].request
            /\ job.ns = command[c].token
    /\ \A i, j \in DOMAIN db.jobs : db.jobs[i].ns = db.jobs[j].ns => i = j

\* A client that follows the cursor has seen every event of its job up to there,
\* once and in order, although ids are taken from one sequence before they become
\* visible (list_events, the row locks of the writers).
EventsExactlyOnce ==
    \A c \in Clients : client[c].job # None =>
        client[c].seen = Ascending({e.id : e \in {x \in db.events :
                            x.job = client[c].job /\ x.id <= client[c].cursor}})

\* A client that was given a file finds the whole artifact of its own job in it,
\* whoever else downloads to the same name (RemoteClient.download).
DownloadIsMine ==
    \A c \in Clients : client[c].got # NoFile =>
        /\ file = client[c].got
        /\ client[c].got \in Visible(client[c].job)

\* A job whose cancellation was acknowledged never ends as a success or a
\* failure, though workers move it on at the same time (request_cancel).
CancelIsKept ==
    \A c \in Clients : client[c].told =>
        db.jobs[client[c].job].state \notin {"queued", "succeeded", "failed"}

\* The submission of a command that already has its job, sent again because the
\* answer was lost, is answered with that job (the recovery matrix of
\* docs/durable-operations.md; create_job looks at the deployment first).
RetryIsAnswered == \A c \in Clients : ~client[c].refused

-----------------------------------------------------------------------------
(* The inductive invariant of RemoteJobs_proofs *)

RemoteState == {"queued", "running"} \cup Terminal
RemoteJob == [ns : Namespaces, request : Requests, state : RemoteState,
              cancel : BOOLEAN, tries : Nat]
Tables == [jobs : Seq(RemoteJob), events : SUBSET [job : Nat, id : Nat], sequence : Nat]
Transaction == [job : Nat, to : RemoteState \cup {"none"}, id : Nat]

RemoteTypeOK ==
    /\ command \in [Clients -> Command]
    /\ db \in Tables
    /\ tx \in [Writers -> Transaction]
    /\ DOMAIN client = Clients

\* A flagged job is on its way to be cancelled, in tables d.
FlagsSound(d) ==
    \A k \in DOMAIN d.jobs : d.jobs[k].cancel => d.jobs[k].state \in {"running", "cancelled"}

\* An open transaction has its job for itself and takes it where its row, which
\* nobody else can change, still allows.
TxSound ==
    /\ \A w \in Writers : tx[w] # NoTx =>
        tx[w].job \in DOMAIN db.jobs /\ tx[w].to \in Outcomes(db.jobs[tx[w].job])
    /\ \A w, v \in Writers : tx[w].job = tx[v].job /\ tx[w] # NoTx => w = v

\* A request of a client, or of one that gave up.
RequestSound(req) ==
    /\ req.ns \in Namespaces /\ req.request \in Requests
    /\ req.kind # "submit" => req.job \in DOMAIN db.jobs

\* What a client knows: only a success sends it to the artifacts, and it ends with
\* what it was told and what it was given.
ClientSound(c) ==
    LET r == client[c]
    IN  /\ DOMAIN r = DOMAIN Fresh
        /\ r.pc \in Asking \cup {"publish", "failed", "ended"}
        /\ r.job # None => r.job \in DOMAIN db.jobs
        /\ r.pc \notin {"submit", "failed", "ended"} => r.job # None
        /\ r.pc \in {"artifacts", "download", "publish"} => db.jobs[r.job].state = "succeeded"
        /\ r.pc = "publish" => r.part = Artifact(r.job)
        /\ r.told => r.pc = "ended" /\ r.job # None /\ db.jobs[r.job].cancel
        /\ r.got # NoFile => r.pc = "ended" /\ r.job # None

RemoteInv ==
    /\ RemoteTypeOK
    /\ AcceptedIsMine /\ DownloadIsMine
    /\ FlagsSound(db) /\ TxSound
    /\ \A req \in late : req.kind \in {"submit", "cancel"} /\ RequestSound(req)
    /\ \A c \in Clients : ClientSound(c)

\* For the cursors: ids come from the sequence; an open transaction has taken one
\* that is newer than every event of its job; a cursor is that of an event of the
\* client's job.
EventInv ==
    /\ \A e \in db.events : e.id \in 1..db.sequence /\ e.job \in DOMAIN db.jobs
    /\ \A w \in Writers : tx[w] # NoTx =>
        /\ tx[w].id \in 1..db.sequence
        /\ \A e \in db.events : e.job = tx[w].job => e.id < tx[w].id
    /\ \A c \in Clients :
        LET r == client[c]
        IN  /\ r.cursor = 0 \/ [job |-> r.job, id |-> r.cursor] \in db.events
            /\ r.pc = "submit" => r.job = None /\ r.seen = <<>>
    /\ EventsExactlyOnce

=============================================================================
