------------------------- MODULE ImportFinalization -------------------------
(***************************************************************************)
(* The import boundary: an ImportSession is drafted, consented, uploaded   *)
(* and finalized by a leased worker job, which publishes one immutable     *)
(* ImportManifest and moves the current-manifest pointer of its source.    *)
(*                                                                         *)
(* API handlers (sources/service.py) read the session row without a lock,  *)
(* decide, and later write the changed columns by primary key, so each is  *)
(* two steps here: Begin... reads, Commit... writes.  The worker           *)
(* (jobs/import_finalization.py over repositories/sqlalchemy_adapter.py)   *)
(* runs one transaction per step; only claim and complete lock the job     *)
(* row.  A lease is reduced to the one bit its readers test: live or not.  *)
(***************************************************************************)
EXTENDS Integers, FiniteSets

CONSTANTS
  Sessions,       \* import sessions, and the one job and manifest each may get
  Sources,        \* imported-dataset source connections
  Layouts,        \* the ways the sessions may be spread over the sources
  Workers,        \* worker processes
  NameOf,         \* [Workers -> worker id]; processes may share the default id
  Threads,        \* concurrent API requests
  Nobody,         \* "no worker id" and "no manifest yet"
  MaxVersion,     \* bound on a session's row_version (bounds retries)
  MaxEdits,       \* bound on source edits
  MaxFaults       \* bound on crashes, stalls and object-store outages

Names == {NameOf[w] : w \in Workers}

ASSUME ImportConstants ==
  /\ Layouts \subseteq [Sessions -> Sources]
  /\ IsFiniteSet(Sessions)
  /\ Nobody \notin Sessions
  /\ Nobody \notin Names
  /\ {MaxVersion, MaxEdits, MaxFaults} \subseteq Nat

VARIABLES
  session,    \* ImportSession rows: state ("retryable" is failed /\ retryable) and row_version
  pinned,     \* the source of each session, and the version and pointer of it that the
              \* session expects, fixed at creation
  job,        \* ImportFinalizationJobRecord rows
  consent,    \* the effective transfer consent of each session
  object,     \* the staged upload of each session
  source,     \* SourceConnection rows: row_version and current_import_manifest_id
  manifests,  \* sessions whose ImportManifest exists
  worker,     \* where each worker process is in its job, and its snapshot of the session
  request,    \* API requests between their read and their write
  edits, faults  \* counters for the bounds

vars == <<session, pinned, job, consent, object, source, manifests, worker,
          request, edits, faults>>

-----------------------------------------------------------------------------
ActiveStates  == {"draft", "consented", "uploaded", "validating"}
TerminalStates == {"finalized", "cancelled"}
SessionStates == ActiveStates \cup TerminalStates \cup {"none", "failed", "retryable"}
JobStates     == {"none", "queued", "claimed", "failed", "retryable", "completed"}
PCs           == {"idle", "loaded", "verified", "reading", "locked", "failing"}
Pointers      == Sessions \cup {Nobody}
Fence         == [version: Nat, pointer: Pointers]
Pin           == [source: Sources, version: Nat, pointer: Pointers]

SessionRow == [state: SessionStates, version: Nat]
JobRow     == [state: JobStates, holder: Names \cup {Nobody}, live: BOOLEAN,
               version: Nat, ticket: Nat]

IdleWorker  == [pc |-> "idle"]
BusyWorkers == [pc: PCs \ {"idle"}, s: Sessions, version: Nat,
                seen: SessionStates, seenVersion: Nat, outcome: {"failed", "retryable"}]

IdleRequest  == [op |-> "idle"]
BusyRequests == [op: {"store"}, s: Sessions]
           \cup [op: {"complete_upload"}, s: Sessions, version: Nat]
           \cup [op: {"finalize"}, s: Sessions, version: Nat, job: {"none", "retryable"}]
           \cup [op: {"cancel"}, s: Sessions, version: Nat, granted: BOOLEAN]

TypeOK ==
  /\ session \in [Sessions -> SessionRow]
  /\ pinned \in [Sessions -> Pin]
  /\ job \in [Sessions -> JobRow]
  /\ consent \in [Sessions -> {"none", "granted", "expired", "revoked"}]
  /\ object \in [Sessions -> {"none", "good", "bad"}]
  /\ source \in [Sources -> Fence]
  /\ manifests \subseteq Sessions
  /\ worker \in [Workers -> {IdleWorker} \cup BusyWorkers]
  /\ request \in [Threads -> {IdleRequest} \cup BusyRequests]
  /\ edits \in Nat /\ faults \in Nat

Init ==
  /\ session = [s \in Sessions |-> [state |-> "none", version |-> 0]]
  /\ \E layout \in Layouts :
       pinned = [s \in Sessions |-> [source |-> layout[s], version |-> 0, pointer |-> Nobody]]
  /\ job = [s \in Sessions |-> [state |-> "none", holder |-> Nobody, live |-> FALSE,
                                version |-> 0, ticket |-> 0]]
  /\ consent = [s \in Sessions |-> "none"]
  /\ object = [s \in Sessions |-> "none"]
  /\ source = [c \in Sources |-> [version |-> 0, pointer |-> Nobody]]
  /\ manifests = {}
  /\ worker = [w \in Workers |-> IdleWorker]
  /\ request = [t \in Threads |-> IdleRequest]
  /\ edits = 0 /\ faults = 0

-----------------------------------------------------------------------------
(* Rows and what is read of them.                                          *)

SourceOf(s) == pinned[s].source

\* The rows of the partial unique index uq_active_import_per_source.
Occupies(s) == session[s].state \in ActiveStates \cup {"retryable"}

\* A write that makes s active keeps that index unique, or its commit fails.
SlotFree(s) == \A r \in Sessions \ {s} : SourceOf(r) = SourceOf(s) => ~Occupies(r)

\* The source still is what the session was created against.
FenceHolds(s) ==
  /\ source[SourceOf(s)].version = pinned[s].version
  /\ source[SourceOf(s)].pointer = pinned[s].pointer

\* The newest grant is unexpired and not superseded by a revoke record.
ConsentEffective(s) == consent[s] = "granted"

\* A SELECT ... FOR UPDATE of the job row is held by a completing worker.
JobFree(s) == \A w \in Workers : ~(worker[w].pc = "locked" /\ worker[w].s = s)

\* _require_job_lease: claimed under this worker's id and not expired.
Holds(w, s) == job[s].state = "claimed" /\ job[s].holder = NameOf[w] /\ job[s].live

Exit(w) == worker' = [worker EXCEPT ![w] = IdleWorker]

-----------------------------------------------------------------------------
(* API handlers.                                                           *)

CreateSession(s) ==
  /\ session[s].state = "none"
  /\ SlotFree(s)
  /\ session' = [session EXCEPT ![s] = [state |-> "draft", version |-> 1]]
  /\ pinned' = [pinned EXCEPT ![s].version = source[SourceOf(s)].version,
                              ![s].pointer = source[SourceOf(s)].pointer]
  /\ UNCHANGED <<job, consent, object, source, manifests, worker, request, edits, faults>>

\* Locks the session and the source rows for the whole transaction.
GrantConsent(s) ==
  /\ session[s].state = "draft"
  /\ FenceHolds(s)
  /\ session' = [session EXCEPT ![s] = [state |-> "consented", version |-> @.version + 1]]
  /\ consent' = [consent EXCEPT ![s] = "granted"]
  /\ UNCHANGED <<pinned, job, object, source, manifests, worker, request, edits, faults>>

ExpireConsent(s) ==
  /\ consent[s] = "granted"
  /\ consent' = [consent EXCEPT ![s] = "expired"]
  /\ UNCHANGED <<session, pinned, job, object, source, manifests, worker, request, edits, faults>>

\* Source lifecycle commands lock the source row, then bump its version.
EditSource(c) ==
  /\ edits < MaxEdits
  /\ edits' = edits + 1
  /\ source' = [source EXCEPT ![c].version = @ + 1]
  /\ UNCHANGED <<session, pinned, job, consent, object, manifests, worker, request, faults>>

\* The read half of a handler: the request keeps the columns it will write from.
Read(t, row) ==
  /\ request[t] = IdleRequest
  /\ request' = [request EXCEPT ![t] = row]
  /\ UNCHANGED <<session, pinned, job, consent, object, source, manifests, worker, edits, faults>>

BeginStore(t, s) ==
  /\ session[s].state = "consented" /\ ConsentEffective(s)
  /\ Read(t, [op |-> "store", s |-> s])

BeginCompleteUpload(t, s) ==
  /\ session[s].state = "consented" /\ ConsentEffective(s)
  /\ Read(t, [op |-> "complete_upload", s |-> s, version |-> session[s].version])

BeginFinalize(t, s) ==
  /\ session[s].state \in {"uploaded", "retryable"}
  /\ job[s].state \in {"none", "retryable"}
  /\ session[s].version < MaxVersion
  /\ ConsentEffective(s) /\ FenceHolds(s)
  /\ Read(t, [op |-> "finalize", s |-> s, version |-> session[s].version, job |-> job[s].state])

BeginCancel(t, s) ==
  /\ session[s].state \notin TerminalStates \cup {"none"}
  /\ Read(t, [op |-> "cancel", s |-> s, version |-> session[s].version,
              granted |-> consent[s] # "none"])

Respond(t) == request' = [request EXCEPT ![t] = IdleRequest]

\* A request that fails, or whose process dies, before its first write.
AbandonRequest(t) ==
  /\ request[t] # IdleRequest
  /\ Respond(t)
  /\ UNCHANGED <<session, pinned, job, consent, object, source, manifests, worker, edits, faults>>

\* The upload writes whatever bytes the client sent under the granted key.
CommitStore(t) ==
  /\ request[t].op = "store"
  /\ \E bytes \in {"good", "bad"} : object' = [object EXCEPT ![request[t].s] = bytes]
  /\ Respond(t)
  /\ UNCHANGED <<session, pinned, job, consent, source, manifests, worker, edits, faults>>

CommitCompleteUpload(t) ==
  LET s == request[t].s  IN
  /\ request[t].op = "complete_upload"
  /\ \/ /\ object[s] = "good"
        /\ SlotFree(s)
        /\ session' = [session EXCEPT ![s] = [state |-> "uploaded", version |-> request[t].version + 1]]
        /\ UNCHANGED object
     \/ /\ object[s] = "bad"
        /\ session' = [session EXCEPT ![s] = [state |-> "failed", version |-> request[t].version + 1]]
        /\ object' = [object EXCEPT ![s] = "none"]
  /\ Respond(t)
  /\ UNCHANGED <<pinned, job, consent, source, manifests, worker, edits, faults>>

\* Mutant of CommitFinalize: no unique index on active imports.
CommitFinalizeUnindexed(t) ==
  LET s == request[t].s
      v == request[t].version + 1
  IN
  /\ request[t].op = "finalize"
  /\ JobFree(s)
  /\ request[t].job = "none" /\ job[s].state = "none"
  /\ session' = [session EXCEPT ![s] = [state |-> "validating", version |-> v]]
  /\ job' = [job EXCEPT ![s] = [state |-> "queued", holder |-> Nobody, live |-> FALSE,
                                version |-> v, ticket |-> 1]]
  /\ Respond(t)
  /\ UNCHANGED <<pinned, consent, object, source, manifests, worker, edits, faults>>

\* A first finalize inserts the job (unique per session), a later one requeues it.
CommitFinalize(t) ==
  LET s == request[t].s
      v == request[t].version + 1
  IN
  /\ request[t].op = "finalize"
  /\ SlotFree(s) /\ JobFree(s)
  /\ session' = [session EXCEPT ![s] = [state |-> "validating", version |-> v]]
  /\ \/ /\ request[t].job = "none" /\ job[s].state = "none"
        /\ job' = [job EXCEPT ![s] =
             [state |-> "queued", holder |-> Nobody, live |-> FALSE, version |-> v,
              ticket |-> 1 + Cardinality({r \in Sessions : job[r].state # "none"})]]
     \/ /\ request[t].job = "retryable"
        /\ job' = [job EXCEPT ![s].state = "queued", ![s].holder = Nobody, ![s].version = v]
  /\ Respond(t)
  /\ UNCHANGED <<pinned, consent, object, source, manifests, worker, edits, faults>>

\* Appends the revoke record, revokes the grant, deletes the staged bytes and
\* writes the session by primary key.  It never looks at the job.
CommitCancel(t) ==
  LET s == request[t].s  IN
  /\ request[t].op = "cancel"
  /\ session' = [session EXCEPT ![s] = [state |-> "cancelled", version |-> request[t].version + 1]]
  /\ IF request[t].granted
       THEN /\ consent' = [consent EXCEPT ![s] = "revoked"]
            /\ object' = [object EXCEPT ![s] = "none"]
       ELSE UNCHANGED <<consent, object>>
  /\ Respond(t)
  /\ UNCHANGED <<pinned, job, source, manifests, worker, edits, faults>>

\* The object store is not transactional: the bytes are deleted before the commit.
CancelDiesAfterDelete(t) ==
  LET s == request[t].s  IN
  /\ request[t].op = "cancel" /\ request[t].granted
  /\ faults < MaxFaults
  /\ faults' = faults + 1
  /\ object' = [object EXCEPT ![s] = "none"]
  /\ Respond(t)
  /\ UNCHANGED <<session, pinned, job, consent, source, manifests, worker, edits>>

-----------------------------------------------------------------------------
(* The worker.                                                             *)

\* Mutant of Claimable: an expired lease is never taken over.
ClaimableOnce(s) == job[s].state \in {"queued", "retryable"}

Claimable(s) == job[s].state \in {"queued", "claimed", "retryable"} /\ ~job[s].live

\* The oldest claimable command; claim_next looks at no other.
IsHead(s) == Claimable(s) /\ \A r \in Sessions : Claimable(r) => job[s].ticket <= job[r].ticket

\* The command record the worker carries away from a claim.
Command(s, v) == [pc |-> "loaded", s |-> s, version |-> v, seen |-> "validating",
                  seenVersion |-> v, outcome |-> "failed"]

\* A queued or expired command.  When the session no longer is what the command
\* expects, the claim raises INVALID_STATE and changes nothing.
Claim(w, s) ==
  /\ worker[w] = IdleWorker
  /\ IsHead(s) /\ JobFree(s)
  /\ job[s].state \in {"queued", "claimed"}
  /\ session[s] = [state |-> "validating", version |-> job[s].version]
  /\ job' = [job EXCEPT ![s].state = "claimed", ![s].holder = NameOf[w], ![s].live = TRUE]
  /\ worker' = [worker EXCEPT ![w] = Command(s, job[s].version)]
  /\ UNCHANGED <<session, pinned, consent, object, source, manifests, request, edits, faults>>

\* Mutant of ClaimRetry: the command keeps the session version it was created with.
ClaimRetryStale(w, s) ==
  LET v == session[s].version + 1  IN
  /\ worker[w] = IdleWorker
  /\ IsHead(s) /\ JobFree(s)
  /\ job[s].state = "retryable" /\ session[s].state = "retryable"
  /\ v <= MaxVersion \/ ~ConsentEffective(s)
  /\ session' = [session EXCEPT ![s] = [state |-> "validating", version |-> v]]
  /\ job' = [job EXCEPT ![s].state = "claimed", ![s].holder = NameOf[w], ![s].live = TRUE]
  /\ worker' = [worker EXCEPT ![w] = Command(s, v)]
  /\ UNCHANGED <<pinned, consent, object, source, manifests, request, edits, faults>>

\* A retryable failure is claimed again, under locks on job and session; a
\* session that is no longer retryable makes the claim return nothing.
ClaimRetry(w, s) ==
  LET v == session[s].version + 1  IN
  /\ worker[w] = IdleWorker
  /\ IsHead(s) /\ JobFree(s)
  /\ job[s].state = "retryable"
  /\ session[s].state = "retryable"
  /\ v <= MaxVersion \/ ~ConsentEffective(s)     \* only the consent's lifetime ends the retries
  /\ session' = [session EXCEPT ![s] = [state |-> "validating", version |-> v]]
  /\ job' = [job EXCEPT ![s].state = "claimed", ![s].holder = NameOf[w],
                        ![s].live = TRUE, ![s].version = v]
  /\ worker' = [worker EXCEPT ![w] = Command(s, v)]
  /\ UNCHANGED <<pinned, consent, object, source, manifests, request, edits, faults>>

\* The first database access of every step of the job is a heartbeat or a lease
\* check; a worker that lost its lease raises and its process ends.
LostLease(w) ==
  /\ worker[w].pc \in {"loaded", "verified"}
  /\ ~Holds(w, worker[w].s)
  /\ Exit(w)
  /\ UNCHANGED <<session, pinned, job, consent, object, source, manifests, request, edits, faults>>

\* get_import_session_for_finalization: the session changed under the command.
SessionChanged(w) ==
  LET s == worker[w].s  IN
  /\ worker[w].pc = "loaded"
  /\ Holds(w, s)
  /\ session[s] # [state |-> "validating", version |-> worker[w].version]
  /\ Exit(w)
  /\ UNCHANGED <<session, pinned, job, consent, object, source, manifests, request, edits, faults>>

\* The read half of fail: lease checked, session read, nothing locked.
BeginFail(w, outcome) ==
  LET s == worker[w].s  IN
  worker' = [worker EXCEPT ![w].pc = "failing", ![w].outcome = outcome,
                           ![w].seen = session[s].state, ![w].seenVersion = session[s].version]

Admissible(s) == FenceHolds(s) /\ ConsentEffective(s)

\* The checks of ImportFinalizationJob.run up to finalize_import, in its order:
\* source fence, consent, then the staged object.  They are several transactions, taken
\* as one step: whatever comes between them is found again by the checks of complete.
Inspect(w) ==
  LET s == worker[w].s  IN
  /\ worker[w].pc = "loaded"
  /\ Holds(w, s)
  /\ session[s] = [state |-> "validating", version |-> worker[w].version]
  /\ \/ /\ Admissible(s) /\ object[s] = "good"
        /\ worker' = [worker EXCEPT ![w].pc = "verified"]
        /\ UNCHANGED <<object, faults>>
     \/ /\ ~Admissible(s)
        /\ BeginFail(w, "failed")
        /\ UNCHANGED <<object, faults>>
     \/ /\ Admissible(s) /\ object[s] = "bad"      \* quarantined
        /\ object' = [object EXCEPT ![s] = "none"]
        /\ BeginFail(w, "failed")
        /\ UNCHANGED faults
     \/ /\ Admissible(s) /\ object[s] = "none"     \* OBJECT_NOT_FOUND
        /\ BeginFail(w, "retryable")
        /\ UNCHANGED <<object, faults>>
     \/ /\ Admissible(s) /\ faults < MaxFaults    \* OBJECT_UNAVAILABLE
        /\ faults' = faults + 1
        /\ BeginFail(w, "retryable")
        /\ UNCHANGED object
  /\ UNCHANGED <<session, pinned, job, consent, source, manifests, request, edits>>

\* The write half of fail.  It updates job and session by primary key, waiting
\* for a row lock but not looking at the rows again.  Only the unique index can
\* refuse it, which ends the process.
CommitFail(w) ==
  LET s       == worker[w].s
      settles == worker[w].seen = "validating"
  IN
  /\ worker[w].pc = "failing"
  /\ JobFree(s)
  /\ IF settles /\ worker[w].outcome = "retryable" /\ ~SlotFree(s)
       THEN UNCHANGED <<session, job>>
       ELSE /\ job' = [job EXCEPT ![s].state = worker[w].outcome, ![s].live = FALSE]
            /\ session' = IF settles
                 THEN [session EXCEPT ![s] = [state |-> worker[w].outcome,
                                              version |-> worker[w].seenVersion + 1]]
                 ELSE session
  /\ Exit(w)
  /\ UNCHANGED <<pinned, consent, object, source, manifests, request, edits, faults>>

\* finalize_import loads the session before complete locks the job.
ReadSession(w) ==
  LET s == worker[w].s  IN
  /\ worker[w].pc = "verified"
  /\ Holds(w, s)
  /\ worker' = [worker EXCEPT ![w].pc = "reading", ![w].seen = session[s].state,
                              ![w].seenVersion = session[s].version]
  /\ UNCHANGED <<session, pinned, job, consent, object, source, manifests, request, edits, faults>>

\* Mutant of LockJob: complete trusts what the job has inspected before.
LockJobTrusting(w) ==
  LET s == worker[w].s  IN
  /\ worker[w].pc = "reading"
  /\ JobFree(s) /\ Holds(w, s)
  /\ worker[w].seen = "validating" /\ worker[w].seenVersion = job[s].version
  /\ worker' = [worker EXCEPT ![w].pc = "locked"]
  /\ UNCHANGED <<session, pinned, job, consent, object, source, manifests, request, edits, faults>>

\* ImportFinalizationRepository.complete up to its first write: the job row is
\* locked and read again, the session is the copy read before.
LockJob(w) ==
  LET s     == worker[w].s
      fresh == worker[w].seen = "validating" /\ worker[w].seenVersion = job[s].version
  IN
  /\ worker[w].pc = "reading"
  /\ JobFree(s)
  /\ \/ /\ ~Holds(w, s) \/ ~fresh              \* replay, or INVALID_STATE
        /\ Exit(w)
        /\ UNCHANGED object
     \/ /\ Holds(w, s) /\ fresh
        /\ ~ConsentEffective(s)
        /\ BeginFail(w, "failed")
        /\ UNCHANGED object
     \/ /\ Holds(w, s) /\ fresh /\ ConsentEffective(s)
        /\ object[s] # "good"
        /\ object' = [object EXCEPT ![s] = "none"]
        /\ BeginFail(w, "failed") \/ Exit(w)   \* S3 cannot quarantine what is missing
     \/ /\ Holds(w, s) /\ fresh /\ ConsentEffective(s)
        /\ object[s] = "good"
        /\ IF FenceHolds(s) THEN worker' = [worker EXCEPT ![w].pc = "locked"]
                            ELSE BeginFail(w, "failed")
        /\ UNCHANGED object
  /\ UNCHANGED <<session, pinned, job, consent, source, manifests, request, edits, faults>>

\* Mutant of CommitComplete: the source pointer is written, not compared and set.
CommitCompleteBlind(w) ==
  LET s == worker[w].s  IN
  /\ worker[w].pc = "locked"
  /\ s \notin manifests
  /\ manifests' = manifests \cup {s}
  /\ source' = [source EXCEPT ![SourceOf(s)] = [version |-> @.version + 1, pointer |-> s]]
  /\ session' = [session EXCEPT ![s] = [state |-> "finalized", version |-> worker[w].seenVersion + 1]]
  /\ job' = [job EXCEPT ![s].state = "completed", ![s].live = FALSE]
  /\ Exit(w)
  /\ UNCHANGED <<pinned, consent, object, request, edits, faults>>

\* The compare-and-set of the source pointer, the manifest (unique per session),
\* and the blind write of the session, in one commit.
CommitComplete(w) ==
  LET s == worker[w].s  IN
  /\ worker[w].pc = "locked"
  /\ FenceHolds(s)
  /\ s \notin manifests
  /\ manifests' = manifests \cup {s}
  /\ source' = [source EXCEPT ![SourceOf(s)] = [version |-> @.version + 1, pointer |-> s]]
  /\ session' = [session EXCEPT ![s] = [state |-> "finalized", version |-> worker[w].seenVersion + 1]]
  /\ job' = [job EXCEPT ![s].state = "completed", ![s].live = FALSE]
  /\ Exit(w)
  /\ UNCHANGED <<pinned, consent, object, request, edits, faults>>

\* The compare-and-set finds another version or pointer: rollback, then fail.
\* A manifest that already exists violates its unique key and ends the process.
AbortComplete(w) ==
  LET s == worker[w].s  IN
  /\ worker[w].pc = "locked"
  /\ \/ s \in manifests /\ Exit(w)
     \/ s \notin manifests /\ ~FenceHolds(s) /\ IF Holds(w, s) THEN BeginFail(w, "failed") ELSE Exit(w)
  /\ UNCHANGED <<session, pinned, job, consent, object, source, manifests, request, edits, faults>>

\* The process dies and is started again; its transaction rolls back.
Crash(w) ==
  /\ worker[w] # IdleWorker
  /\ faults < MaxFaults
  /\ faults' = faults + 1
  /\ Exit(w)
  /\ UNCHANGED <<session, pinned, job, consent, object, source, manifests, request, edits>>

Working(s) == \E w \in Workers : worker[w] # IdleWorker /\ worker[w].s = s /\ NameOf[w] = job[s].holder

\* Time passes an expiry: of a worker that stalls (a fault), or of one that is gone.
ExpireLease(s) ==
  /\ job[s].live
  /\ job' = [job EXCEPT ![s].live = FALSE]
  /\ IF Working(s) THEN faults < MaxFaults /\ faults' = faults + 1 ELSE UNCHANGED faults
  /\ UNCHANGED <<session, pinned, consent, object, source, manifests, worker, request, edits>>

-----------------------------------------------------------------------------
Handler(t) ==
  \/ CommitStore(t) \/ CommitCompleteUpload(t) \/ CommitFinalize(t) \/ CommitCancel(t)
  \/ CancelDiesAfterDelete(t) \/ AbandonRequest(t)
  \/ \E s \in Sessions :
       BeginStore(t, s) \/ BeginCompleteUpload(t, s) \/ BeginFinalize(t, s) \/ BeginCancel(t, s)

Step(w) ==
  \/ \E s \in Sessions : Claim(w, s) \/ ClaimRetry(w, s)
  \/ LostLease(w) \/ SessionChanged(w) \/ Inspect(w) \/ CommitFail(w)
  \/ ReadSession(w) \/ LockJob(w) \/ CommitComplete(w) \/ AbortComplete(w)

Next ==
  \/ \E s \in Sessions : CreateSession(s) \/ GrantConsent(s) \/ ExpireConsent(s) \/ ExpireLease(s)
  \/ \E c \in Sources : EditSource(c)
  \/ \E t \in Threads : Handler(t)
  \/ \E w \in Workers : Step(w) \/ Crash(w)

Spec == Init /\ [][Next]_vars

\* Requests end, live workers keep polling and working, and time passes.  Users
\* need not act and nothing has to fail.
Fairness ==
  /\ \A t \in Threads : WF_vars(Handler(t) /\ request[t] # IdleRequest)
  /\ \A w \in Workers : WF_vars(Step(w))
  /\ \A s \in Sessions : WF_vars(ExpireLease(s) /\ ~Working(s)) /\ WF_vars(ExpireConsent(s))

FairSpec == Spec /\ Fairness
-----------------------------------------------------------------------------
(* Properties.                                                             *)

\* Imports of one source form a line: every manifest replaced a different
\* pointer, and the current pointer is the one no manifest has replaced.  Two
\* finalizations can be in flight for one source once a session was cancelled
\* under a running worker; the compare-and-set must still lose neither.
LinearHistory ==
  /\ \A r, s \in manifests :
       r # s /\ SourceOf(r) = SourceOf(s) => pinned[r].pointer # pinned[s].pointer
  /\ \A c \in Sources :
       /\ source[c].pointer # Nobody => source[c].pointer \in manifests
       /\ \A s \in manifests : SourceOf(s) = c => pinned[s].pointer # source[c].pointer

\* Without a cancellation, a validating session always has a command that can
\* still be claimed for it: no retry, requeue or late failure write strands it.
\* With two requests at a time it may be stranded, by the late write of one of them.
ValidatingHasCommand ==
  \A s \in Sessions : session[s].state = "validating" /\ consent[s] # "revoked" =>
    /\ job[s].state \in {"queued", "claimed"}
    /\ job[s].version = session[s].version

\* No request writes over a validating session what it has decided from an older
\* row, except a cancellation that revokes the consent.
WritesAreTimely ==
  [][\A s \in Sessions : session[s].state = "validating" /\ session'[s].state # "validating" =>
       worker' # worker \/ consent'[s] = "revoked"]_vars

\* At most one session of a source is draft, consented, uploaded, validating
\* or retryable, whatever stale handler writes last.
OneActiveImport ==
  \A r, s \in Sessions : r # s /\ SourceOf(r) = SourceOf(s) => ~(Occupies(r) /\ Occupies(s))

\* Revocation holds: a revoked consent never becomes effective again, whatever
\* grant, retry or requeue is in flight.  A finalization that was read before may
\* still commit its command, which comes to nothing: unless a transaction is past
\* its own consent check already, none gets past it, publishes, completes the
\* command or finalizes the session.
RevocationHolds ==
  [][\A s \in Sessions : consent[s] = "revoked" =>
       /\ consent'[s] = "revoked"
       /\ JobFree(s) =>
            /\ JobFree(s)'
            /\ s \in manifests' => s \in manifests
            /\ job'[s].state = "completed" => job[s].state = "completed"
            /\ session'[s].state = "finalized" => session[s].state = "finalized"]_vars

\* Documented (docs/DATA_MODEL.md:88): cancelled "is terminal and creates no manifest".
CancelledCreatesNoManifest ==
  \A s \in Sessions : session[s].state = "cancelled" => s \notin manifests

\* Documented (docs/API_CONTRACTS.md:272): cancel cleans staging.
CancelCleansStaging ==
  \A s \in Sessions : session[s].state = "cancelled" /\ consent[s] = "revoked" => object[s] = "none"

\* Every accepted finalization is decided (docs/API_CONTRACTS.md:279).
ImportsSettle ==
  \A s \in Sessions : session[s].state = "validating" ~> session[s].state # "validating"

\* It is, as long as nobody cancels a session that already has a command:
\* crashes, stalls, outages, takeovers and retries only delay it.  An import whose
\* staged bytes are lost is retried ahead of the imports of all other sources until
\* its consent expires; then the next retry fails it for good and the import behind
\* it is reached.
ImportsSettleUnlessCancelled ==
  [](\A t \in Threads : request[t].op = "cancel" => job[request[t].s].state = "none")
    => ImportsSettle

=============================================================================
