--------------------------- MODULE SourceOperations ---------------------------
(***************************************************************************)
(* One cloud source and everything that writes its row: user commands      *)
(* (routes_core.py, schedules.py), validation jobs (sources/validation.py, *)
(* jobs/source_validation.py) and scheduled collections (jobs/collection.py *)
(* over sqlalchemy_adapter.py, claimed in main.py).                        *)
(*                                                                         *)
(* Commands and the end of a validation lock the source row, so each is    *)
(* one step.  A collection takes no lock: it reads the source, and later   *)
(* writes by primary key the columns whose loaded value it changed, and    *)
(* the row_version it loaded plus one.  So do the two handlers that edit   *)
(* schedules.  A lease is its holder and one bit, live or run out; a token *)
(* is new at every claim and a process works on one claim, so the token is *)
(* the process.  The queue of validation jobs is that of this one source,  *)
(* which has at most one active job; its earlier jobs are forgotten.       *)
(***************************************************************************)
EXTENDS Naturals, FiniteSets

CONSTANTS
  Workers,     \* worker processes, each polling both queues
  Schedules,   \* collection schedules of the source; one not created yet is a disabled one
  Skipping,    \* schedules with misfire_policy "skip" and no catch_up
  CatchingUp,  \* schedules with catch_up: missed slots are collected one by one
  Results,     \* what a connector may report of the source
  Nobody,      \* "no lease"
  MaxVersion,  \* bound on the row_version at which users act and time goes on
  MaxFaults    \* bound on crashes, stalls and failed transactions

ASSUME SourceConstants ==
  /\ {Skipping, CatchingUp} \subseteq SUBSET Schedules
  /\ Skipping \cap CatchingUp = {}
  /\ Results \subseteq {"healthy", "degraded", "failed"}
  /\ Nobody \notin Workers
  /\ {MaxVersion, MaxFaults} \subseteq Nat

VARIABLES
  source,    \* the SourceConnection row: status and row_version
  since,     \* what was written to that row after the last validation was queued
  job,       \* the newest SourceValidationJobRecord
  schedule,  \* the CollectionSchedule rows
  worker,    \* where each process is, and what it has read
  edit,      \* a request that edits a schedule, between its read and its write
  patch,     \* a request that changes the cadence, holding the source row lock
  faults     \* counter for the bound

vars == <<source, since, job, schedule, worker, edit, patch, faults>>

-----------------------------------------------------------------------------
\* "failed" stands for failed and auth_required: both let a target be repaired.
Statuses == {"validating", "healthy", "degraded", "failed", "disabled"}
SourceRow == [status: Statuses, row_version: Nat]

\* "drifted" is a job that failed with SOURCE_VALIDATION_FENCE_DRIFT.
JobStates == {"none", "queued", "claimed", "completed", "failed", "drifted"}
JobRow == [state: JobStates, expected: Nat, holder: Workers \cup {Nobody}, live: BOOLEAN]

ScheduleRow == [enabled: BOOLEAN, due: BOOLEAN, holder: Workers \cup {Nobody}, live: BOOLEAN]

Validating == {"checking", "completing", "failing"}
Collecting == {"claimed", "collecting", "writing", "closing"}
Places == {"idle", "selecting"} \cup Validating \cup Collecting

NoSource == [status |-> "disabled", row_version |-> 0]
Idle == [at |-> "idle", on |-> {}, loaded |-> NoSource, result |-> "failed", retried |-> FALSE]
Process == [at: Places, on: SUBSET Schedules, loaded: SourceRow, result: Statuses,
            retried: BOOLEAN]

NoEdit  == [open |-> FALSE]
Edits   == [open: {TRUE}, on: Schedules, enabled: {"keep", "on", "off"},
            next: {"keep", "past", "future"}]
NoPatch == [open |-> FALSE]
Patches == [open: {TRUE}, cadence: {"manual", "daily"}, enabled: SUBSET Schedules,
            leased: SUBSET Schedules]

TypeOK ==
  /\ source \in SourceRow
  /\ since \in {"nothing", "version", "status"}
  /\ job \in JobRow
  /\ schedule \in [Schedules -> ScheduleRow]
  /\ worker \in [Workers -> Process]
  /\ edit \in {NoEdit} \cup Edits
  /\ patch \in {NoPatch} \cup Patches
  /\ faults \in Nat

\* A source that was created and activated, and is seen to be healthy.
Init ==
  /\ source = [status |-> "healthy", row_version |-> 1]
  /\ since = "nothing"
  /\ job = [state |-> "none", expected |-> 0, holder |-> Nobody, live |-> FALSE]
  /\ schedule = [k \in Schedules |-> [enabled |-> FALSE, due |-> FALSE,
                                      holder |-> Nobody, live |-> FALSE]]
  /\ worker = [w \in Workers |-> Idle]
  /\ edit = NoEdit
  /\ patch = NoPatch
  /\ faults = 0

-----------------------------------------------------------------------------
(* What the handlers test.                                                 *)

Unlocked == ~patch.open

JobActive == job.state \in {"queued", "claimed"}

\* _require_current_claim
HoldsJob(w) == job.state = "claimed" /\ job.holder = w /\ job.live

\* Mutant of JobFence: only the version is compared.
JobFenceByVersion == source.row_version = job.expected

\* _source_fence_matches
JobFence == source.row_version = job.expected /\ source.status = "validating"

\* Mutant of LeaseFree: a lease that ran out is still respected.
LeaseGivenBack(k) == schedule[k].holder = Nobody

LeaseFree(k) == schedule[k].holder = Nobody \/ ~schedule[k].live

\* Mutant of HoldsSchedule: the token is not compared.
SomebodyHolds(w, k) == schedule[k].live

\* _require_schedule_lease
HoldsSchedule(w, k) == schedule[k].holder = w /\ schedule[k].live

Goto(w, place) == worker' = [worker EXCEPT ![w].at = place]
Leave(w) == worker' = [worker EXCEPT ![w] = Idle]

NoLease(row) == [row EXCEPT !.holder = Nobody, !.live = FALSE]

-----------------------------------------------------------------------------
(* User commands.  lock_source_for_lifecycle_command takes the row lock    *)
(* and refuses a source with an active job; a client that names another    *)
(* row_version is refused, and changes nothing.                            *)

MayCommand == Unlocked /\ ~JobActive /\ source.row_version < MaxVersion

Activate ==
  /\ MayCommand
  /\ source' = [status |-> "validating", row_version |-> source.row_version + 1]
  /\ since' = "status"
  /\ UNCHANGED <<job, schedule, worker, edit, patch, faults>>

\* patch_source without a new cadence: a repaired target, or another field.
PatchSource ==
  /\ MayCommand
  /\ \/ /\ source.status = "failed"
        /\ source' = [status |-> "validating", row_version |-> source.row_version + 1]
        /\ since' = "status"
     \/ /\ source' = [source EXCEPT !.row_version = @ + 1]
        /\ since' = IF since = "nothing" THEN "version" ELSE since
  /\ UNCHANGED <<job, schedule, worker, edit, patch, faults>>

\* Disable and remove.  The bulk UPDATE of the schedules ends their leases.
Disable ==
  /\ MayCommand
  /\ source' = [status |-> "disabled", row_version |-> source.row_version + 1]
  /\ since' = "status"
  /\ schedule' = [k \in Schedules |-> [NoLease(schedule[k]) EXCEPT !.enabled = FALSE]]
  /\ UNCHANGED <<job, worker, edit, patch, faults>>

\* patch_source with a new cadence: locks the source and loads its schedules.
BeginPatchCadence(cadence) ==
  /\ MayCommand
  /\ patch' = [open |-> TRUE, cadence |-> cadence,
               enabled |-> {k \in Schedules : schedule[k].enabled},
               leased |-> {k \in Schedules : schedule[k].holder # Nobody}]
  /\ UNCHANGED <<source, since, job, schedule, worker, edit, faults>>

\* synchronize_source_schedules, written at the commit: only the columns whose
\* loaded value changed, so a lease taken after the load is left in place.
Synchronized(k) ==
  CASE patch.cadence = "daily" /\ k \in patch.enabled -> [schedule[k] EXCEPT !.due = FALSE]
    [] patch.cadence = "manual" ->
         LET row == IF k \in patch.leased THEN NoLease(schedule[k]) ELSE schedule[k]
         IN [row EXCEPT !.enabled = @ /\ k \notin patch.enabled]
    [] OTHER -> schedule[k]

CommitPatchCadence ==
  /\ patch.open
  /\ schedule' = [k \in Schedules |-> Synchronized(k)]
  /\ source' = [source EXCEPT !.row_version = @ + 1]
  /\ since' = IF since = "nothing" THEN "version" ELSE since
  /\ patch' = NoPatch
  /\ UNCHANGED <<job, worker, edit, faults>>

\* configure_schedule and update_schedule read the schedule, and the source
\* without a lock ...
BeginEditSchedule(k, to, next) ==
  /\ ~edit.open
  /\ source.status \in {"validating", "healthy", "degraded"}
  /\ source.row_version < MaxVersion
  /\ edit' = [open |-> TRUE, on |-> k, next |-> next,
              enabled |-> CASE to = schedule[k].enabled -> "keep"
                            [] to /\ ~schedule[k].enabled -> "on"
                            [] ~to /\ schedule[k].enabled -> "off"]
  /\ UNCHANGED <<source, since, job, schedule, worker, patch, faults>>

\* ... and write by primary key the columns that differ from what was read; the
\* lease columns are left alone.
CommitEditSchedule ==
  /\ edit.open
  /\ schedule' = [schedule EXCEPT
       ![edit.on].enabled = IF edit.enabled = "keep" THEN @ ELSE edit.enabled = "on",
       ![edit.on].due = IF edit.next = "keep" THEN @ ELSE edit.next = "past"]
  /\ edit' = NoEdit
  /\ UNCHANGED <<source, since, job, worker, patch, faults>>

-----------------------------------------------------------------------------
(* Validation jobs.                                                        *)

\* Mutant of Enqueue: the job expects the version before its own write.
EnqueueExpectingOldVersion ==
  /\ MayCommand
  /\ source' = [status |-> "validating", row_version |-> source.row_version + 1]
  /\ since' = "nothing"
  /\ job' = [state |-> "queued", expected |-> source.row_version,
             holder |-> Nobody, live |-> FALSE]
  /\ UNCHANGED <<schedule, worker, edit, patch, faults>>

\* health-check and reconnect; a request with a used idempotency key only reads.
Enqueue ==
  /\ MayCommand
  /\ source' = [status |-> "validating", row_version |-> source.row_version + 1]
  /\ since' = "nothing"
  /\ job' = [state |-> "queued", expected |-> source.row_version + 1,
             holder |-> Nobody, live |-> FALSE]
  /\ UNCHANGED <<schedule, worker, edit, patch, faults>>

\* Mutant of Claimable: a job whose worker is gone is not claimed again.
ClaimableOnce == job.state = "queued"

Claimable == job.state = "queued" \/ (job.state = "claimed" /\ ~job.live)

ClaimJob(w) ==
  /\ worker[w].at = "idle"
  /\ Claimable
  /\ job' = [job EXCEPT !.state = "claimed", !.holder = w, !.live = TRUE]
  /\ Goto(w, "checking")
  /\ UNCHANGED <<source, since, schedule, edit, patch, faults>>

\* The heartbeats and the connector's health(): a verdict, or an error that is
\* no ConnectorError, after which the job is failed instead of completed.
CheckHealth(w) ==
  /\ worker[w].at = "checking"
  /\ \/ \E verdict \in Results :
          worker' = [worker EXCEPT ![w].at = "completing", ![w].result = verdict]
     \/ worker' = [worker EXCEPT ![w].at = "failing", ![w].result = "failed"]
  /\ UNCHANGED <<source, since, job, schedule, edit, patch, faults>>

\* complete and fail: the job row and the source row are locked, the claim and
\* the fence are tested, and the verdict or the drift is written.
Settle(w) ==
  /\ worker[w].at \in {"completing", "failing"}
  /\ Unlocked
  /\ HoldsJob(w)
  /\ IF JobFence
     THEN /\ source' = [status |-> worker[w].result, row_version |-> source.row_version + 1]
          /\ since' = "status"
          /\ job' = [job EXCEPT !.holder = Nobody, !.live = FALSE,
               !.state = IF worker[w].at = "completing" THEN "completed" ELSE "failed"]
     ELSE /\ job' = [job EXCEPT !.holder = Nobody, !.live = FALSE, !.state = "drifted"]
          /\ UNCHANGED <<source, since>>
  /\ Leave(w)
  /\ UNCHANGED <<schedule, edit, patch, faults>>

\* The claim is lost, or the job is terminal already: nothing is written.
SettleRefused(w) ==
  /\ worker[w].at \in {"completing", "failing"}
  /\ ~HoldsJob(w)
  /\ Leave(w)
  /\ UNCHANGED <<source, since, job, schedule, edit, patch, faults>>

\* A failed transaction of complete is answered with fail; one of fail ends the process.
SettleBreaks(w) ==
  /\ faults < MaxFaults
  /\ \/ worker[w].at = "completing" /\ worker' = [worker EXCEPT ![w].at = "failing",
                                                               ![w].result = "failed"]
     \/ worker[w].at = "failing" /\ Leave(w)
  /\ faults' = faults + 1
  /\ UNCHANGED <<source, since, job, schedule, edit, patch>>

-----------------------------------------------------------------------------
(* Scheduled collections.                                                  *)

\* The candidate list of claim_due_collection_schedule.
SelectDue(w) ==
  LET candidates == {k \in Schedules : schedule[k].enabled /\ schedule[k].due /\ LeaseFree(k)}
  IN
  /\ worker[w].at = "idle"
  /\ source.status # "disabled"
  /\ candidates # {}
  /\ worker' = [worker EXCEPT ![w].at = "selecting", ![w].on = candidates]
  /\ UNCHANGED <<source, since, job, schedule, edit, patch, faults>>

\* The next candidate after k, or none left.
NextCandidate(w, k) ==
  IF worker[w].on = {k} THEN Leave(w)
  ELSE worker' = [worker EXCEPT ![w].on = @ \ {k}]

\* _advance_schedule_without_claim
SkipMisfire(w, k) ==
  /\ worker[w].at = "selecting"
  /\ k \in worker[w].on \cap Skipping
  /\ schedule' = [schedule EXCEPT ![k] = [NoLease(@) EXCEPT !.due = FALSE]]
  /\ NextCandidate(w, k)
  /\ UNCHANGED <<source, since, job, edit, patch, faults>>

\* The compare-and-set of a candidate tests enabled and the lease again, and
\* neither next_run_at nor the status of the source.
ClaimSchedule(w, k) ==
  /\ worker[w].at = "selecting"
  /\ k \in worker[w].on \ Skipping
  /\ IF schedule[k].enabled /\ LeaseFree(k)
     THEN /\ schedule' = [schedule EXCEPT ![k].holder = w, ![k].live = TRUE]
          /\ worker' = [worker EXCEPT ![w].at = "claimed", ![w].on = {k}]
     ELSE /\ NextCandidate(w, k)
          /\ UNCHANGED schedule
  /\ UNCHANGED <<source, since, job, edit, patch, faults>>

\* The first heartbeat and begin_collection_run.
BeginRun(w, k) ==
  /\ worker[w].at = "claimed" /\ worker[w].on = {k}
  /\ HoldsSchedule(w, k)
  /\ Goto(w, "collecting")
  /\ UNCHANGED <<source, since, job, schedule, edit, patch, faults>>

\* The content is collected and stored (not modelled); update_source_health
\* tests the lease and loads the source.  A run that broke reports "degraded".
LoadSource(w, k) ==
  /\ worker[w].at = "collecting" /\ worker[w].on = {k}
  /\ HoldsSchedule(w, k)
  /\ \E result \in IF worker[w].retried THEN {"degraded"} ELSE Results :
       worker' = [worker EXCEPT ![w].at = "writing", ![w].loaded = source,
                                ![w].result = result]
  /\ UNCHANGED <<source, since, job, schedule, edit, patch, faults>>

\* The UPDATE of update_source_health, whatever happened to the row since.
WriteHealth(w) ==
  LET loaded == worker[w].loaded
      result == worker[w].result
  IN
  /\ worker[w].at = "writing"
  /\ Unlocked
  /\ source' = [status |-> IF result = loaded.status THEN source.status ELSE result,
                row_version |-> loaded.row_version + 1]
  /\ since' = IF result # loaded.status THEN "status"
              ELSE IF since = "nothing" THEN "version" ELSE since
  /\ worker' = [worker EXCEPT ![w].at = "closing", ![w].loaded = NoSource]
  /\ UNCHANGED <<job, schedule, edit, patch, faults>>

\* complete_collection_run, then complete_collection_schedule: the lease is given
\* back, and the first slot in the future, or the end of a failure's backoff, is
\* next.  One that catches up takes the next slot, which may have passed already.
CompleteSchedule(w, k) ==
  /\ worker[w].at = "closing" /\ worker[w].on = {k}
  /\ HoldsSchedule(w, k)
  /\ \E behind \in IF k \in CatchingUp /\ source.row_version < MaxVersion THEN BOOLEAN ELSE {FALSE} :
       schedule' = [schedule EXCEPT ![k] = [NoLease(@) EXCEPT !.due = behind]]
  /\ Leave(w)
  /\ UNCHANGED <<source, since, job, edit, patch, faults>>

\* A lease that was lost is found out at the next test, and ends the claim.
LeaseLost(w, k) ==
  /\ worker[w].at \in {"claimed", "collecting", "closing"} /\ worker[w].on = {k}
  /\ ~HoldsSchedule(w, k)
  /\ Leave(w)
  /\ UNCHANGED <<source, since, job, schedule, edit, patch, faults>>

\* A failed transaction.  Inside the run it is answered once by a terminal
\* failure of the run; otherwise the schedule is completed without success.
CollectionBreaks(w) ==
  /\ faults < MaxFaults
  /\ worker[w].at \in Collecting
  /\ worker' = [worker EXCEPT ![w].loaded = NoSource, ![w].retried = TRUE,
       ![w].at = IF worker[w].at # "claimed" /\ ~worker[w].retried
                 THEN "collecting" ELSE "closing"]
  /\ faults' = faults + 1
  /\ UNCHANGED <<source, since, job, schedule, edit, patch>>

-----------------------------------------------------------------------------
(* Time and faults.                                                        *)

\* next_run_at is reached.
Tick(k) ==
  /\ ~schedule[k].due
  /\ source.row_version < MaxVersion
  /\ schedule' = [schedule EXCEPT ![k].due = TRUE]
  /\ UNCHANGED <<source, since, job, worker, edit, patch, faults>>

\* The holder of a lease is still at the work it was given for.
JobAttended == worker[job.holder].at \in Validating
Attended(k) == worker[schedule[k].holder].at \in Collecting /\ worker[schedule[k].holder].on = {k}

\* A lease runs out: in time if its holder is gone, by a stall if it is not.
JobLeaseEnds ==
  /\ job.live
  /\ job' = [job EXCEPT !.live = FALSE]
  /\ IF JobAttended THEN faults < MaxFaults /\ faults' = faults + 1 ELSE UNCHANGED faults
  /\ UNCHANGED <<source, since, schedule, worker, edit, patch>>

ScheduleLeaseEnds(k) ==
  /\ schedule[k].live
  /\ schedule' = [schedule EXCEPT ![k].live = FALSE]
  /\ IF Attended(k) THEN faults < MaxFaults /\ faults' = faults + 1 ELSE UNCHANGED faults
  /\ UNCHANGED <<source, since, job, worker, edit, patch>>

Crash(w) ==
  /\ worker[w].at # "idle"
  /\ faults < MaxFaults
  /\ Leave(w)
  /\ faults' = faults + 1
  /\ UNCHANGED <<source, since, job, schedule, edit, patch>>

-----------------------------------------------------------------------------
Commands ==
  \/ Activate \/ PatchSource \/ Disable \/ Enqueue
  \/ \E cadence \in {"manual", "daily"} : BeginPatchCadence(cadence)
  \/ \E k \in Schedules, to \in BOOLEAN, next \in {"keep", "past", "future"} :
       BeginEditSchedule(k, to, next)

Commits == CommitPatchCadence \/ CommitEditSchedule

Validation(w) == ClaimJob(w) \/ CheckHealth(w) \/ Settle(w) \/ SettleRefused(w)

Collection(w) ==
  \/ SelectDue(w)
  \/ WriteHealth(w)
  \/ \E k \in Schedules :
       \/ SkipMisfire(w, k) \/ ClaimSchedule(w, k) \/ BeginRun(w, k)
       \/ LoadSource(w, k) \/ CompleteSchedule(w, k) \/ LeaseLost(w, k)

Faults(w) == SettleBreaks(w) \/ CollectionBreaks(w) \/ Crash(w)

LeasesEnd == JobLeaseEnds \/ \E k \in Schedules : ScheduleLeaseEnds(k)

Next ==
  \/ Commands \/ Commits \/ LeasesEnd
  \/ \E w \in Workers : Validation(w) \/ Collection(w) \/ Faults(w)
  \/ \E k \in Schedules : Tick(k)

Spec == Init /\ [][Next]_vars

\* Requests end, processes keep stepping, and abandoned leases run out.  An idle
\* process polls validations, then schedules, and what is claimable stays so until
\* somebody takes it, however often users interfere: hence SF.  The candidates are
\* ordered by next_run_at, so a served schedule queues up behind the others.
FairSpec ==
  /\ Spec
  /\ SF_vars(\E w \in Workers : ClaimJob(w))
  /\ SF_vars(\E w \in Workers : SelectDue(w))
  /\ \A k \in Schedules : SF_vars(\E w \in Workers : ClaimSchedule(w, k))
  /\ WF_vars(CommitPatchCadence) /\ WF_vars(CommitEditSchedule)
  /\ \A w \in Workers : WF_vars(Validation(w)) /\ WF_vars(Collection(w))
  /\ WF_vars(\/ JobLeaseEnds /\ ~JobAttended
             \/ \E k \in Schedules : ScheduleLeaseEnds(k) /\ ~Attended(k))

-----------------------------------------------------------------------------
(* Properties.                                                             *)

\* A validation's verdict is written only while the source is as its request
\* left it: since then nobody gave the source another status, neither a command
\* nor a collection that had read the source before the request.
VerdictAnswersItsRequest ==
  [][job.state = "claimed" /\ job'.state \in {"completed", "failed"} => since # "status"]_vars

\* A validation is thrown away as overtaken only if its source really was
\* written after the request: the fence has no false alarms.
DriftIsReal ==
  [][job.state = "claimed" /\ job'.state = "drifted" => since # "nothing"]_vars

\* A live lease is ended only by the process that holds it, by a command that
\* stops the schedule, or by time: a collector that was superseded does not
\* finish the slot of its successor.
LeaseEndsWithItsHolder ==
  [][\A k \in Schedules : schedule[k].live /\ schedule'[k].holder # schedule[k].holder =>
       \/ worker'[schedule[k].holder].at = "idle" /\ worker[schedule[k].holder].on = {k}
       \/ source'.status = "disabled" /\ ~schedule'[k].enabled
       \/ patch.open /\ patch' = NoPatch]_vars

\* Every validation that was queued is settled.
ValidationsSettle == JobActive ~> ~JobActive

\* A due schedule is collected or skipped, unless a user stops it or its source.
\* (One that catches up may fall behind for ever.)
DueIsServed ==
  \A k \in Schedules \ CatchingUp : schedule[k].due /\ schedule[k].enabled ~>
    ~schedule[k].due \/ ~schedule[k].enabled \/ source.status = "disabled"

\* Every change of the source raises its row_version, so that a client that has
\* not seen the change is refused (docs/API_CONTRACTS.md, optimistic concurrency).
VersionsRise == [][source' # source => source'.row_version > source.row_version]_source
=============================================================================
