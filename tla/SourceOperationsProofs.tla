----------------------- MODULE SourceOperationsProofs -----------------------
(***************************************************************************)
(* What holds of SourceOperations for any processes, schedules and bounds. *)
(* The argument: only a collection can write the source while a validation *)
(* is active (ActiveIsAlone), whatever it writes leaves a trace the fence  *)
(* sees (WritesAreSeen), and only that (FenceStands).                      *)
(***************************************************************************)
EXTENDS SourceOperations, TLAPS

\* A lease is held by somebody, and never on a schedule that only skips.
LeasesAreHeld ==
  \A k \in Schedules : schedule[k].live => schedule[k].holder # Nobody /\ k \notin Skipping

\* No connector reports a source to be validating.
ResultsAreVerdicts == \A w \in Workers : worker[w].result # "validating"

\* While a validation is active no command holds the source.
ActiveIsAlone == JobActive => ~patch.open

\* A status written over an active validation is one the fence refuses.
WritesAreSeen == JobActive /\ since = "status" => source.status # "validating"

\* What nobody has written to since is as the validation expects it.
FenceStands == JobActive /\ since = "nothing" => JobFence

IInv == LeasesAreHeld /\ ResultsAreVerdicts /\ ActiveIsAlone /\ WritesAreSeen /\ FenceStands

-----------------------------------------------------------------------------
(* Types.                                                                  *)

LEMMA SomeResult == Results \subseteq Statuses /\ "validating" \notin Results
BY SourceConstants DEF Statuses

LEMMA IdleIsAProcess == Idle \in Process
BY DEF Idle, Process, Places, Validating, Collecting, NoSource, SourceRow, Statuses

LEMMA GotoType ==
  ASSUME TypeOK, NEW w \in Workers, NEW place \in Places, Goto(w, place)
  PROVE  worker' \in [Workers -> Process]
BY DEF TypeOK, Goto, Process

LEMMA LeaveType ==
  ASSUME TypeOK, NEW w \in Workers, Leave(w)
  PROVE  worker' \in [Workers -> Process]
BY IdleIsAProcess DEF TypeOK, Leave

LEMMA NoLeaseType ==
  ASSUME NEW row \in ScheduleRow
  PROVE  NoLease(row) \in ScheduleRow
BY DEF NoLease, ScheduleRow

LEMMA InitTypes == Init => TypeOK
BY IdleIsAProcess DEF Init, TypeOK, SourceRow, Statuses, JobRow, JobStates, ScheduleRow

\* The user commands and the two commits keep the types.
LEMMA CommandTypes == TypeOK /\ (Commands \/ Commits) => TypeOK'
<1> SUFFICES ASSUME TypeOK, Commands \/ Commits PROVE TypeOK'
    OBVIOUS
<1> source.row_version + 1 \in Nat
    BY DEF TypeOK, SourceRow
<1>1. CASE Activate
      BY <1>1 DEF Activate, TypeOK, SourceRow, Statuses
<1>2. CASE PatchSource
      BY <1>2 DEF PatchSource, TypeOK, SourceRow, Statuses
<1>3. CASE Disable
  <2>1. \A k \in Schedules : NoLease(schedule[k]) \in ScheduleRow
        BY NoLeaseType DEF TypeOK
  <2>2. \A row \in ScheduleRow : [row EXCEPT !.enabled = FALSE] \in ScheduleRow
        BY DEF ScheduleRow
  <2> QED BY <1>3, <2>1, <2>2 DEF Disable, TypeOK, SourceRow, Statuses
<1>4. CASE Enqueue
      BY <1>4 DEF Enqueue, TypeOK, SourceRow, Statuses, JobRow, JobStates
<1>5. ASSUME NEW cadence \in {"manual", "daily"}, BeginPatchCadence(cadence)
      PROVE  TypeOK'
      BY <1>5 DEF BeginPatchCadence, TypeOK, Patches
<1>6. ASSUME NEW k \in Schedules, NEW to \in BOOLEAN, NEW next \in {"keep", "past", "future"},
             BeginEditSchedule(k, to, next)
      PROVE  TypeOK'
  <2>1. schedule[k].enabled \in BOOLEAN
        BY DEF TypeOK, ScheduleRow
  <2>2. edit' \in Edits
        BY <1>6, <2>1 DEF BeginEditSchedule, Edits
  <2> QED BY <1>6, <2>2 DEF BeginEditSchedule, TypeOK
<1>7. CASE CommitPatchCadence
  <2>1. \A k \in Schedules : Synchronized(k) \in ScheduleRow
    <3> TAKE k \in Schedules
    <3>1. schedule[k] \in ScheduleRow /\ NoLease(schedule[k]) \in ScheduleRow
          BY NoLeaseType DEF TypeOK
    <3>2. \A row \in ScheduleRow, b \in BOOLEAN :
            [row EXCEPT !.enabled = @ /\ b] \in ScheduleRow
          BY DEF ScheduleRow
    <3>3. [schedule[k] EXCEPT !.due = FALSE] \in ScheduleRow
          BY <3>1 DEF ScheduleRow
    <3> QED BY <3>1, <3>2, <3>3 DEF Synchronized
  <2> QED BY <1>7, <2>1 DEF CommitPatchCadence, TypeOK, SourceRow, Statuses
<1>8. CASE CommitEditSchedule
  <2>1. edit \in Edits
        BY <1>8 DEF CommitEditSchedule, TypeOK, NoEdit
  <2> DEFINE enabled == IF edit.enabled = "keep" THEN schedule[edit.on].enabled
                        ELSE edit.enabled = "on"
             due     == IF edit.next = "keep" THEN schedule[edit.on].due ELSE edit.next = "past"
             row     == [schedule[edit.on] EXCEPT !.enabled = enabled, !.due = due]
  <2>2. edit.on \in Schedules /\ schedule[edit.on] \in ScheduleRow
        BY <2>1 DEF Edits, TypeOK
  <2>3. enabled \in BOOLEAN /\ due \in BOOLEAN
        BY <2>2 DEF ScheduleRow
  <2>4. row \in ScheduleRow
    <3> HIDE DEF enabled, due
    <3> QED BY <2>2, <2>3 DEF ScheduleRow
  <2>5. schedule' = [schedule EXCEPT ![edit.on] = row]
        BY <1>8, <2>2 DEF CommitEditSchedule, TypeOK, ScheduleRow
  <2>6. schedule' \in [Schedules -> ScheduleRow]
    <3> HIDE DEF row
    <3> QED BY <2>2, <2>4, <2>5 DEF TypeOK
  <2> QED BY <1>8, <2>6 DEF CommitEditSchedule, TypeOK
<1> QED
  BY <1>1, <1>2, <1>3, <1>4, <1>5, <1>6, <1>7, <1>8 DEF Commands, Commits

\* So do the steps of a validation ...
LEMMA ValidationTypes ==
  ASSUME TypeOK, NEW w \in Workers, Validation(w) \/ SettleBreaks(w)
  PROVE  TypeOK'
<1> source.row_version + 1 \in Nat /\ worker[w] \in Process
    BY DEF TypeOK, SourceRow
<1>1. CASE ClaimJob(w)
      BY <1>1, GotoType DEF ClaimJob, TypeOK, JobRow, JobStates, Places, Validating
<1>2. CASE CheckHealth(w)
      BY <1>2, SomeResult DEF CheckHealth, TypeOK, Process, Places, Validating, Statuses
<1>3. CASE Settle(w)
  <2>1. source' \in SourceRow
        BY <1>3 DEF Settle, TypeOK, SourceRow, Process
  <2>2. job' \in JobRow
        BY <1>3 DEF Settle, TypeOK, JobRow, JobStates
  <2>3. worker' \in [Workers -> Process]
        BY <1>3, LeaveType DEF Settle
  <2> QED BY <1>3, <2>1, <2>2, <2>3 DEF Settle, TypeOK
<1>4. CASE SettleRefused(w)
      BY <1>4, LeaveType DEF SettleRefused, TypeOK
<1>5. CASE SettleBreaks(w)
      BY <1>5, LeaveType DEF SettleBreaks, TypeOK, Process, Places, Validating, Statuses
<1> QED BY <1>1, <1>2, <1>3, <1>4, <1>5 DEF Validation

\* ... and those of a collection.
LEMMA CollectionTypes ==
  ASSUME TypeOK, NEW w \in Workers, Collection(w) \/ CollectionBreaks(w) \/ Crash(w)
  PROVE  TypeOK'
<1> worker[w] \in Process
    BY DEF TypeOK
<1>1. CASE SelectDue(w)
      BY <1>1 DEF SelectDue, TypeOK, Process, Places
<1>2. CASE WriteHealth(w)
  <2>1. worker[w].loaded \in SourceRow /\ worker[w].result \in Statuses
        BY DEF Process
  <2>2. worker[w].loaded.row_version + 1 \in Nat
        BY <2>1 DEF SourceRow
  <2>3. source' \in SourceRow
        BY <1>2, <2>1, <2>2 DEF WriteHealth, TypeOK, SourceRow
  <2>4. worker' \in [Workers -> Process]
        BY <1>2 DEF WriteHealth, TypeOK, Process, Places, Collecting, NoSource, SourceRow, Statuses
  <2> QED BY <1>2, <2>3, <2>4 DEF WriteHealth, TypeOK
<1>3. CASE CollectionBreaks(w)
  <2> DEFINE place == IF worker[w].at # "claimed" /\ ~worker[w].retried
                      THEN "collecting" ELSE "closing"
  <2>1. place \in Places /\ NoSource \in SourceRow
        BY DEF Places, Collecting, NoSource, SourceRow, Statuses
  <2>2. [worker[w] EXCEPT !.loaded = NoSource, !.retried = TRUE, !.at = place] \in Process
    <3> HIDE DEF place
    <3> QED BY <2>1 DEF Process
  <2>3. worker' \in [Workers -> Process]
        BY <1>3, <2>2 DEF CollectionBreaks, TypeOK
  <2> QED BY <1>3, <2>3 DEF CollectionBreaks, TypeOK
<1>4. CASE Crash(w)
      BY <1>4, LeaveType DEF Crash, TypeOK
<1>5. ASSUME NEW k \in Schedules,
             \/ SkipMisfire(w, k) \/ ClaimSchedule(w, k) \/ BeginRun(w, k)
             \/ LoadSource(w, k) \/ CompleteSchedule(w, k) \/ LeaseLost(w, k)
      PROVE  TypeOK'
  <2>1. schedule[k] \in ScheduleRow /\ NoLease(schedule[k]) \in ScheduleRow
        BY NoLeaseType DEF TypeOK
  <2>2. \A b \in BOOLEAN : [NoLease(schedule[k]) EXCEPT !.due = b] \in ScheduleRow
        BY <2>1 DEF ScheduleRow
  <2>3. NextCandidate(w, k) => worker' \in [Workers -> Process]
        BY LeaveType DEF NextCandidate, TypeOK, Process
  <2>4. CASE SkipMisfire(w, k)
        BY <2>2, <2>3, <2>4 DEF SkipMisfire, TypeOK
  <2>5. CASE ClaimSchedule(w, k)
    <3>1. [schedule[k] EXCEPT !.holder = w, !.live = TRUE] \in ScheduleRow
          BY <2>1 DEF ScheduleRow
    <3>2. schedule' \in [Schedules -> ScheduleRow]
          BY <2>5, <3>1 DEF ClaimSchedule, TypeOK, ScheduleRow
    <3>3. worker' \in [Workers -> Process]
          BY <2>5, <2>3 DEF ClaimSchedule, TypeOK, Process, Places, Collecting
    <3> QED BY <2>5, <3>2, <3>3 DEF ClaimSchedule, TypeOK
  <2>6. CASE BeginRun(w, k)
        BY <2>6, GotoType DEF BeginRun, TypeOK, Places, Collecting
  <2>7. CASE LoadSource(w, k)
    <3>1. PICK result \in Statuses :
            worker' = [worker EXCEPT ![w].at = "writing", ![w].loaded = source, ![w].result = result]
          BY <2>7, SomeResult DEF LoadSource, Statuses
    <3>2. worker' \in [Workers -> Process]
          BY <3>1 DEF TypeOK, Process, Places, Collecting
    <3> QED BY <2>7, <3>2 DEF LoadSource, TypeOK
  <2>8. CASE CompleteSchedule(w, k)
        BY <2>8, <2>2, LeaveType DEF CompleteSchedule, TypeOK
  <2>9. CASE LeaseLost(w, k)
        BY <2>9, LeaveType DEF LeaseLost, TypeOK
  <2> QED BY <1>5, <2>4, <2>5, <2>6, <2>7, <2>8, <2>9
<1> QED BY <1>1, <1>2, <1>3, <1>4, <1>5 DEF Collection

LEMMA TypeStep == TypeOK /\ [Next]_vars => TypeOK'
<1> SUFFICES ASSUME TypeOK, [Next]_vars PROVE TypeOK'
    OBVIOUS
<1>1. CASE Commands \/ Commits
      BY <1>1, CommandTypes
<1>2. ASSUME NEW w \in Workers, Validation(w) \/ Collection(w) \/ Faults(w)
      PROVE  TypeOK'
      BY <1>2, ValidationTypes, CollectionTypes DEF Faults
<1>3. CASE LeasesEnd
  <2>1. CASE JobLeaseEnds
    <3>1. faults' \in Nat
          BY <2>1 DEF JobLeaseEnds, TypeOK
    <3>2. job' \in JobRow
          BY <2>1 DEF JobLeaseEnds, TypeOK, JobRow
    <3> QED BY <2>1, <3>1, <3>2 DEF JobLeaseEnds, TypeOK
  <2>2. ASSUME NEW k \in Schedules, ScheduleLeaseEnds(k)
        PROVE  TypeOK'
    <3>1. faults' \in Nat
          BY <2>2 DEF ScheduleLeaseEnds, TypeOK
    <3>2. schedule' \in [Schedules -> ScheduleRow]
          BY <2>2 DEF ScheduleLeaseEnds, TypeOK, ScheduleRow
    <3> QED BY <2>2, <3>1, <3>2 DEF ScheduleLeaseEnds, TypeOK
  <2> QED BY <1>3, <2>1, <2>2 DEF LeasesEnd
<1>4. ASSUME NEW k \in Schedules, Tick(k)
      PROVE  TypeOK'
      BY <1>4 DEF Tick, TypeOK, ScheduleRow
<1>5. CASE UNCHANGED vars
      BY <1>5 DEF vars, TypeOK
<1> QED BY <1>1, <1>2, <1>3, <1>4, <1>5 DEF Next

\* Every variable keeps its type, whatever commands, processes and faults do.
THEOREM TypeCorrect == Spec => []TypeOK
<1> QED BY InitTypes, TypeStep, PTL DEF Spec
-----------------------------------------------------------------------------
(* The invariant.                                                          *)

LEMMA InitIInv == Init => IInv
BY DEF Init, Idle, IInv, LeasesAreHeld, ResultsAreVerdicts, ActiveIsAlone, WritesAreSeen,
       FenceStands, JobActive

LEMMA NoLeaseIsNotLive == \A row \in ScheduleRow : ~NoLease(row).live
BY DEF NoLease, ScheduleRow

\* The steps that write a schedule.
LEMMA ScheduleWriters ==
  ASSUME [Next]_vars
  PROVE  \/ UNCHANGED schedule
         \/ Disable \/ CommitPatchCadence \/ CommitEditSchedule
         \/ \E k \in Schedules : Tick(k) \/ ScheduleLeaseEnds(k)
         \/ \E w \in Workers, k \in Schedules :
              SkipMisfire(w, k) \/ ClaimSchedule(w, k) \/ CompleteSchedule(w, k)
<1>1. CASE Commands
      BY <1>1 DEF Commands, Activate, PatchSource, BeginPatchCadence, BeginEditSchedule, Enqueue
<1>2. CASE Commits \/ LeasesEnd
      BY <1>2 DEF Commits, LeasesEnd, JobLeaseEnds
<1>3. ASSUME NEW w \in Workers, Validation(w)
      PROVE  UNCHANGED schedule
      BY <1>3 DEF Validation, ClaimJob, CheckHealth, Settle, SettleRefused
<1>4. ASSUME NEW w \in Workers, Collection(w)
      PROVE  \/ UNCHANGED schedule
             \/ \E k \in Schedules :
                  SkipMisfire(w, k) \/ ClaimSchedule(w, k) \/ CompleteSchedule(w, k)
      BY <1>4 DEF Collection, SelectDue, WriteHealth, BeginRun, LoadSource, LeaseLost
<1>5. ASSUME NEW w \in Workers, Faults(w)
      PROVE  UNCHANGED schedule
      BY <1>5 DEF Faults, SettleBreaks, CollectionBreaks, Crash
<1>6. CASE UNCHANGED vars
      BY <1>6 DEF vars
<1> QED BY <1>1, <1>2, <1>3, <1>4, <1>5, <1>6 DEF Next

\* Leases are taken by claims, of schedules that do not skip; the rest ends them.
LEMMA HeldStep == TypeOK /\ LeasesAreHeld /\ [Next]_vars => LeasesAreHeld'
<1> SUFFICES ASSUME TypeOK, LeasesAreHeld, [Next]_vars PROVE LeasesAreHeld'
    OBVIOUS
<1> \A k \in Schedules : schedule[k] \in ScheduleRow
    BY DEF TypeOK
<1>1. CASE UNCHANGED schedule
      BY <1>1 DEF LeasesAreHeld
<1>2. CASE Disable
  <2>1. \A k \in Schedules : ~[NoLease(schedule[k]) EXCEPT !.enabled = FALSE].live
        BY DEF NoLease, ScheduleRow
  <2> QED BY <1>2, <2>1 DEF Disable, LeasesAreHeld
<1>3. CASE CommitPatchCadence
  <2>1. ASSUME NEW k \in Schedules, Synchronized(k).live
        PROVE  schedule[k].live /\ Synchronized(k).holder = schedule[k].holder
        BY <2>1 DEF Synchronized, NoLease, ScheduleRow
  <2> QED BY <1>3, <2>1 DEF CommitPatchCadence, LeasesAreHeld
<1>4. CASE CommitEditSchedule
  <2>1. \A k \in Schedules : /\ schedule'[k].live = schedule[k].live
                             /\ schedule'[k].holder = schedule[k].holder
        BY <1>4 DEF CommitEditSchedule, TypeOK, ScheduleRow
  <2> QED BY <2>1 DEF LeasesAreHeld
<1>5. ASSUME NEW k \in Schedules, Tick(k) \/ ScheduleLeaseEnds(k)
      PROVE  LeasesAreHeld'
  <2>1. \A j \in Schedules : /\ schedule'[j].live => schedule[j].live
                             /\ schedule'[j].holder = schedule[j].holder
        BY <1>5 DEF Tick, ScheduleLeaseEnds, TypeOK, ScheduleRow
  <2> QED BY <2>1 DEF LeasesAreHeld
<1>6. ASSUME NEW w \in Workers, NEW k \in Schedules, SkipMisfire(w, k) \/ CompleteSchedule(w, k)
      PROVE  LeasesAreHeld'
  <2>1. PICK behind \in BOOLEAN :
          schedule' = [schedule EXCEPT ![k] = [NoLease(@) EXCEPT !.due = behind]]
        BY <1>6 DEF SkipMisfire, CompleteSchedule
  <2>2. ~[NoLease(schedule[k]) EXCEPT !.due = behind].live
        BY DEF NoLease, ScheduleRow
  <2> QED BY <2>1, <2>2 DEF LeasesAreHeld, TypeOK
<1>7. ASSUME NEW w \in Workers, NEW k \in Schedules, ClaimSchedule(w, k)
      PROVE  LeasesAreHeld'
  <2>1. k \notin Skipping /\ w # Nobody
        BY <1>7, SourceConstants DEF ClaimSchedule
  <2> QED BY <1>7, <2>1 DEF ClaimSchedule, LeasesAreHeld, TypeOK, ScheduleRow
<1> QED BY <1>1, <1>2, <1>3, <1>4, <1>5, <1>6, <1>7, ScheduleWriters

\* The results a process may hold come from a connector or from a failure.
LEMMA ResultsStep == TypeOK /\ ResultsAreVerdicts /\ [Next]_vars => ResultsAreVerdicts'
<1> SUFFICES ASSUME TypeOK, ResultsAreVerdicts, [Next]_vars PROVE ResultsAreVerdicts'
    OBVIOUS
<1>1. CASE UNCHANGED worker
      BY <1>1 DEF ResultsAreVerdicts
<1>2. ASSUME NEW w \in Workers, Leave(w) \/ \E place \in Places : Goto(w, place)
      PROVE  ResultsAreVerdicts'
      BY <1>2 DEF ResultsAreVerdicts, TypeOK, Leave, Goto, Idle, Process
<1>3. ASSUME NEW w \in Workers, Validation(w) \/ SettleBreaks(w)
      PROVE  ResultsAreVerdicts'
  <2>1. CASE CheckHealth(w)
        BY <2>1, SomeResult DEF CheckHealth, ResultsAreVerdicts, TypeOK, Process
  <2>2. CASE SettleBreaks(w)
        BY <2>2, <1>2 DEF SettleBreaks, ResultsAreVerdicts, TypeOK, Process
  <2> QED BY <1>2, <1>3, <2>1, <2>2 DEF Validation, ClaimJob, Settle, SettleRefused, Places, Validating
<1>4. ASSUME NEW w \in Workers, Collection(w) \/ CollectionBreaks(w) \/ Crash(w)
      PROVE  ResultsAreVerdicts'
  <2>1. CASE SelectDue(w) \/ WriteHealth(w) \/ CollectionBreaks(w)
    <3>1. worker'[w].result = worker[w].result
          BY <2>1 DEF SelectDue, WriteHealth, CollectionBreaks, TypeOK, Process
    <3>2. \A v \in Workers \ {w} : worker'[v] = worker[v]
          BY <2>1 DEF SelectDue, WriteHealth, CollectionBreaks, TypeOK
    <3> QED BY <3>1, <3>2 DEF ResultsAreVerdicts
  <2>2. ASSUME NEW k \in Schedules, SkipMisfire(w, k) \/ ClaimSchedule(w, k)
        PROVE  ResultsAreVerdicts'
    <3>1. \/ Leave(w)
          \/ worker' = [worker EXCEPT ![w].on = @ \ {k}]
          \/ worker' = [worker EXCEPT ![w].at = "claimed", ![w].on = {k}]
          BY <2>2 DEF SkipMisfire, ClaimSchedule, NextCandidate
    <3> QED BY <3>1, <1>2 DEF ResultsAreVerdicts, TypeOK, Process
  <2>3. ASSUME NEW k \in Schedules, LoadSource(w, k)
        PROVE  ResultsAreVerdicts'
    <3>1. PICK result \in Results \cup {"degraded"} :
            worker' = [worker EXCEPT ![w].at = "writing", ![w].loaded = source, ![w].result = result]
          BY <2>3 DEF LoadSource
    <3> QED BY <3>1, SomeResult DEF ResultsAreVerdicts, TypeOK, Process
  <2>4. ASSUME NEW k \in Schedules, BeginRun(w, k) \/ CompleteSchedule(w, k) \/ LeaseLost(w, k)
        PROVE  ResultsAreVerdicts'
        BY <2>4, <1>2 DEF BeginRun, CompleteSchedule, LeaseLost, Places, Collecting
  <2>5. CASE Crash(w)
        BY <2>5, <1>2 DEF Crash
  <2> QED BY <1>4, <2>1, <2>2, <2>3, <2>4, <2>5 DEF Collection
<1> QED
  BY <1>1, <1>3, <1>4
  DEF Next, Commands, Commits, Activate, PatchSource, Disable, BeginPatchCadence,
      BeginEditSchedule, Enqueue, CommitPatchCadence, CommitEditSchedule, LeasesEnd, JobLeaseEnds,
      ScheduleLeaseEnds, Tick, Faults, vars

\* Nobody but a collection writes under an active validation, and the fence
\* sees what it writes.
LEMMA FenceStep ==
  ASSUME TypeOK, IInv, [Next]_vars
  PROVE  ActiveIsAlone' /\ WritesAreSeen' /\ FenceStands'
<1> DEFINE Fenced == ActiveIsAlone /\ WritesAreSeen /\ FenceStands
<1> SUFFICES Fenced'
    OBVIOUS
<1> Fenced
    BY DEF IInv
<1> USE DEF ActiveIsAlone, WritesAreSeen, FenceStands, JobActive, JobFence
<1>1. CASE UNCHANGED <<source, since, job, patch>>
      BY <1>1
<1>2. CASE Activate \/ PatchSource \/ Disable \/ CommitPatchCadence
      BY <1>2 DEF Activate, PatchSource, Disable, CommitPatchCadence, MayCommand, NoPatch
<1>3. ASSUME NEW cadence \in {"manual", "daily"}, BeginPatchCadence(cadence)
      PROVE  Fenced'
      BY <1>3 DEF BeginPatchCadence, MayCommand
<1>4. CASE Enqueue
      BY <1>4 DEF Enqueue, MayCommand, Unlocked
<1>5. ASSUME NEW w \in Workers, ClaimJob(w)
      PROVE  Fenced'
      BY <1>5 DEF ClaimJob, Claimable, TypeOK, JobRow
<1>6. ASSUME NEW w \in Workers, Settle(w)
      PROVE  Fenced'
  <2>1. ~JobActive'
        BY <1>6 DEF Settle, TypeOK, JobRow
  <2> QED BY <2>1
<1>7. ASSUME NEW w \in Workers, WriteHealth(w)
      PROVE  Fenced'
  <2>1. worker[w].result # "validating"
        BY DEF IInv, ResultsAreVerdicts
  <2> QED BY <1>7, <2>1 DEF WriteHealth, TypeOK
<1>8. CASE JobLeaseEnds
      BY <1>8 DEF JobLeaseEnds, TypeOK, JobRow
<1>9. CASE Commands \/ Commits
      BY <1>1, <1>2, <1>3, <1>4, <1>9
      DEF Commands, Commits, BeginEditSchedule, CommitEditSchedule
<1>10. CASE LeasesEnd
       BY <1>1, <1>8, <1>10 DEF LeasesEnd, ScheduleLeaseEnds
<1>11. ASSUME NEW w \in Workers, Validation(w)
       PROVE  Fenced'
       BY <1>1, <1>5, <1>6, <1>11 DEF Validation, CheckHealth, SettleRefused
<1>12. ASSUME NEW w \in Workers, Collection(w)
       PROVE  Fenced'
       BY <1>1, <1>7, <1>12 DEF Collection, SelectDue, SkipMisfire, ClaimSchedule, BeginRun,
                                LoadSource, CompleteSchedule, LeaseLost
<1>13. ASSUME NEW w \in Workers, Faults(w)
       PROVE  Fenced'
       BY <1>1, <1>13 DEF Faults, SettleBreaks, CollectionBreaks, Crash
<1>14. ASSUME NEW k \in Schedules, Tick(k)
       PROVE  Fenced'
       BY <1>1, <1>14 DEF Tick
<1>15. CASE UNCHANGED vars
       BY <1>1, <1>15 DEF vars
<1> HIDE DEF Fenced
<1> QED BY <1>9, <1>10, <1>11, <1>12, <1>13, <1>14, <1>15 DEF Next

LEMMA Invariance == Spec => [](TypeOK /\ IInv)
<1>1. TypeOK /\ IInv /\ [Next]_vars => (TypeOK /\ IInv)'
      BY TypeStep, HeldStep, ResultsStep, FenceStep DEF IInv
<1> QED BY InitTypes, InitIInv, <1>1, PTL DEF Spec

-----------------------------------------------------------------------------
(* The properties.                                                         *)

\* An active validation is settled by the process that claimed it and by no
\* other step, and its verdict is written where the fence still stands.
LEMMA OnlySettleSettles ==
  ASSUME TypeOK, IInv, [Next]_vars, job.state = "claimed", job'.state \notin {"claimed", "queued"}
  PROVE  \E w \in Workers : Settle(w)
<1>1. ~UNCHANGED job /\ ~MayCommand
      BY DEF MayCommand, JobActive
<1>2. CASE UNCHANGED vars
      BY <1>1, <1>2 DEF vars
<1>3. CASE Commands
      BY <1>1, <1>3 DEF Commands, Activate, PatchSource, Disable, Enqueue, BeginPatchCadence,
                        BeginEditSchedule
<1>4. CASE Commits
      BY <1>1, <1>4 DEF Commits, CommitPatchCadence, CommitEditSchedule
<1>5. CASE LeasesEnd
  <2>1. ~JobLeaseEnds
        BY DEF JobLeaseEnds, TypeOK, JobRow
  <2> QED BY <1>1, <1>5, <2>1 DEF LeasesEnd, ScheduleLeaseEnds
<1>6. ASSUME NEW w \in Workers, Validation(w)
      PROVE  Settle(w)
  <2>1. ~ClaimJob(w)
        BY DEF ClaimJob, TypeOK, JobRow
  <2> QED BY <1>1, <1>6, <2>1 DEF Validation, CheckHealth, SettleRefused
<1>7. ASSUME NEW w \in Workers, Collection(w)
      PROVE  FALSE
      BY <1>1, <1>7 DEF Collection, SelectDue, SkipMisfire, ClaimSchedule, WriteHealth, BeginRun,
                        LoadSource, CompleteSchedule, LeaseLost
<1>8. ASSUME NEW w \in Workers, Faults(w)
      PROVE  FALSE
      BY <1>1, <1>8 DEF Faults, SettleBreaks, CollectionBreaks, Crash
<1>9. ASSUME NEW k \in Schedules, Tick(k)
      PROVE  FALSE
      BY <1>1, <1>9 DEF Tick
<1> QED BY <1>2, <1>3, <1>4, <1>5, <1>6, <1>7, <1>8, <1>9 DEF Next

\* A verdict is written only while the source is as its request left it.
THEOREM VerdictsAnswerTheirRequests == Spec => VerdictAnswersItsRequest
<1>1. TypeOK /\ IInv /\ [Next]_vars =>
        [job.state = "claimed" /\ job'.state \in {"completed", "failed"} => since # "status"]_vars
  <2> SUFFICES ASSUME TypeOK, IInv, [Next]_vars, job.state = "claimed",
                      job'.state \in {"completed", "failed"}
               PROVE  since # "status"
      OBVIOUS
  <2>1. PICK w \in Workers : Settle(w)
        BY OnlySettleSettles
  <2>2. JobFence
        BY <2>1 DEF Settle, TypeOK, JobRow
  <2> QED BY <2>2 DEF JobFence, IInv, WritesAreSeen, JobActive
<1> QED BY <1>1, Invariance, PTL DEF Spec, VerdictAnswersItsRequest

\* A validation is thrown away only when the source was written after its request.
THEOREM DriftsAreReal == Spec => DriftIsReal
<1>1. TypeOK /\ IInv /\ [Next]_vars =>
        [job.state = "claimed" /\ job'.state = "drifted" => since # "nothing"]_vars
  <2> SUFFICES ASSUME TypeOK, IInv, [Next]_vars, job.state = "claimed", job'.state = "drifted"
               PROVE  since # "nothing"
      OBVIOUS
  <2>1. PICK w \in Workers : Settle(w)
        BY OnlySettleSettles
  <2>2. ~JobFence
        BY <2>1 DEF Settle, TypeOK, JobRow
  <2> QED BY <2>2 DEF IInv, FenceStands, JobActive
<1> QED BY <1>1, Invariance, PTL DEF Spec, DriftIsReal

\* A live lease changes hands only through its holder, or through a command that
\* stops the schedule or sets a new cadence.
THEOREM LeasesEndWithTheirHolders == Spec => LeaseEndsWithItsHolder
<1> DEFINE Ends(k) ==
      \/ worker'[schedule[k].holder].at = "idle" /\ worker[schedule[k].holder].on = {k}
      \/ source'.status = "disabled" /\ ~schedule'[k].enabled
      \/ patch.open /\ patch' = NoPatch
<1>1. TypeOK /\ IInv /\ [Next]_vars =>
        [\A k \in Schedules :
           schedule[k].live /\ schedule'[k].holder # schedule[k].holder => Ends(k)]_vars
  <2> SUFFICES ASSUME TypeOK, IInv, [Next]_vars, NEW k \in Schedules, schedule[k].live,
                      schedule'[k].holder # schedule[k].holder
               PROVE  Ends(k)
      OBVIOUS
  <2> /\ schedule[k] \in ScheduleRow
      /\ schedule[k].holder # Nobody /\ k \notin Skipping
      /\ ~LeaseFree(k)
      BY DEF TypeOK, IInv, LeasesAreHeld, LeaseFree
  <2>1. CASE Disable
    <3>1. ~[NoLease(schedule[k]) EXCEPT !.enabled = FALSE].enabled
          BY DEF NoLease, ScheduleRow
    <3> QED BY <2>1, <3>1 DEF Disable
  <2>2. CASE CommitPatchCadence
        BY <2>2 DEF CommitPatchCadence
  <2>3. ASSUME NEW w \in Workers, NEW j \in Schedules, CompleteSchedule(w, j)
        PROVE  Ends(k)
    <3>1. j = k
          BY <2>3 DEF CompleteSchedule, TypeOK
    <3>2. schedule[k].holder = w /\ worker[w].on = {k}
          BY <2>3, <3>1 DEF CompleteSchedule, HoldsSchedule
    <3>3. worker'[w].at = "idle"
          BY <2>3 DEF CompleteSchedule, Leave, Idle, TypeOK
    <3> QED BY <3>2, <3>3
  <2>4. ~CommitEditSchedule
        BY DEF CommitEditSchedule, TypeOK, ScheduleRow
  <2>5. \A j \in Schedules : ~Tick(j) /\ ~ScheduleLeaseEnds(j)
        BY DEF Tick, ScheduleLeaseEnds, TypeOK, ScheduleRow
  <2>6. \A w \in Workers, j \in Schedules : ~SkipMisfire(w, j) /\ ~ClaimSchedule(w, j)
        BY DEF SkipMisfire, ClaimSchedule, TypeOK
  <2> HIDE DEF Ends
  <2> QED BY <2>1, <2>2, <2>3, <2>4, <2>5, <2>6, ScheduleWriters
<1> QED BY <1>1, Invariance, PTL DEF Spec, LeaseEndsWithItsHolder
=============================================================================
