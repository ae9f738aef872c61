-------------------------- MODULE CollectionProofs --------------------------
(***************************************************************************)
(* What holds of Collection for any workers, schedules, items and bounds.  *)
(* The argument: a claim takes an attempt nobody had before (Alone), whose *)
(* run has no row yet (Unbegun), so the row that CommitBegin writes over is *)
(* never the run of a stored version; what is stored is only appended to;  *)
(* and a run that a process is storing for or about to end is running until *)
(* that process ends it (Running).                                         *)
(*                                                                         *)
(* A version stored late keeps out of research (LateHeld) because the lease *)
(* of its attempt never comes back: its process is still before the next   *)
(* check, and no check of it will succeed.                                 *)
(***************************************************************************)
EXTENDS Collection, TLAPS

Batch == UNION {[I -> Texts] : I \in SUBSET Items}
Outcomes == Usable \cup {"none", "failed"}

Work == [at: Places, run: Runs \cup {<<>>}, probe: BOOLEAN, batch: Batch,
         missing: SUBSET Items, gathered: SUBSET (Items \X Texts), again: BOOLEAN,
         outcome: Outcomes, seen: SUBSET (Items \X Nat), triggers: SUBSET (Items \X Nat)]

\* Where a process holds the triggers of a signal it may raise.
Suspicious == {"checking", "raising"}

\* TypeOK, with the parts of a worker it leaves open.
Typed ==
  /\ TypeOK
  /\ worker \in [Workers -> Work]
  /\ run = [k \in Schedules |-> run[k]]
  /\ signal \in Seq([watch: Watches, triggers: SUBSET (Items \X Nat),
                     evidence: SUBSET (Items \X Nat), cooling: BOOLEAN])
  /\ \A w \in Workers : worker[w].at \in {"ending", "recording"} => worker[w].outcome # "none"
  /\ \A w \in Workers : worker[w].at \notin Suspicious => worker[w].triggers = {}

Busy(w) == ~At(w, "idle")

\* Attempts that were not claimed have no run.
Unclaimed == \A k \in Schedules : \A n \in 1..MaxAttempts[k] :
  lease[k].attempt < n => run[k][n] = "none"

\* A process works on an attempt that was claimed, and no two on the same one.
Alone ==
  /\ \A w \in Workers : Busy(w) => worker[w].run[2] <= lease[ScheduleOf(w)].attempt
  /\ \A v, w \in Workers : Busy(v) /\ Busy(w) /\ worker[v].run = worker[w].run => v = w

\* The run a process is about to begin has no row.
Unbegun == \A w \in Workers :
  worker[w].at \in {"claimed", "beginning"} => RunState(worker[w].run) = "none"

\* The run a process is storing for, or about to end, was running when it was checked.
Running == \A w \in Workers :
  worker[w].at \in {"saving", "recording"} => RunState(worker[w].run) = "running"

\* A frozen version is stored, and its run has ended as it was frozen.
FrozenHolds == \A p \in pinned : \A x \in DOMAIN p.frozen :
  x \in Versions /\ p.frozen[x] = RunState(VersionRun(x)) /\ p.frozen[x] \in Usable

\* What a process was given and passed the commit of is stored.
GatheredIsStored == \A w \in Workers : \A found \in worker[w].gathered :
  \E v \in 1..Len(stored[found[1]]) : stored[found[1]][v].text = found[2]

\* The lease of a version stored late is gone, and its process is not about to end its run.
LateHeld == \A x \in Versions : VersionLate(x) =>
  /\ RunState(VersionRun(x)) \notin Usable
  /\ VersionRun(x)[2] <= lease[VersionRun(x)[1]].attempt /\ ~Leased(VersionRun(x))
  /\ \A w \in Workers : At(w, "recording") => worker[w].run # VersionRun(x)

IInv == /\ Typed /\ Unclaimed /\ Alone /\ Unbegun /\ Running
        /\ FrozenHolds /\ GatheredIsStored /\ NoTwinSignals /\ LateHeld

-----------------------------------------------------------------------------
(* The run of an attempt, and the rows of processes.                       *)

LEMMA RunParts ==
  ASSUME NEW x \in Runs
  PROVE  /\ x = <<x[1], x[2]>>
         /\ x[1] \in Schedules /\ x[2] \in 1..MaxAttempts[x[1]]
BY DEF Runs

\* The write of the state of a run.
WritesRun(x, s) == run' = [run EXCEPT ![x[1]][x[2]] = s]

LEMMA RunWritten ==
  ASSUME Typed, NEW x \in Runs, NEW s \in RunStates, WritesRun(x, s)
  PROVE  /\ run' = [k \in Schedules |-> run'[k]]
         /\ \A k \in Schedules : run'[k] \in [1..MaxAttempts[k] -> RunStates]
         /\ \A k \in Schedules : \A n \in 1..MaxAttempts[k] :
              run'[k][n] = IF <<k, n>> = x THEN s ELSE run[k][n]
<1>1. x = <<x[1], x[2]>> /\ x[1] \in Schedules /\ x[2] \in 1..MaxAttempts[x[1]]
  BY RunParts
<1>2. /\ run = [k \in Schedules |-> run[k]]
      /\ \A k \in Schedules : run[k] \in [1..MaxAttempts[k] -> RunStates]
  BY DEF Typed, TypeOK
<1>3. /\ run' = [k \in Schedules |-> run'[k]]
      /\ run'[x[1]] = [run[x[1]] EXCEPT ![x[2]] = s]
      /\ \A k \in Schedules \ {x[1]} : run'[k] = run[k]
  BY <1>1, <1>2 DEF WritesRun
<1>4. /\ run'[x[1]] \in [1..MaxAttempts[x[1]] -> RunStates]
      /\ run'[x[1]][x[2]] = s
      /\ \A n \in 1..MaxAttempts[x[1]] : n # x[2] => run'[x[1]][n] = run[x[1]][n]
  <2> DEFINE N == 1..MaxAttempts[x[1]]
             at == x[2]
             old == run[x[1]]
             new == run'[x[1]]
  <2>1. old \in [N -> RunStates] /\ at \in N /\ new = [old EXCEPT ![at] = s]
    BY <1>1, <1>2, <1>3
  <2> HIDE DEF N, at, old, new
  <2>2. new \in [N -> RunStates] /\ new[at] = s /\ \A n \in N : n # at => new[n] = old[n]
    BY <2>1
  <2> QED
    BY <2>2 DEF N, at, old, new
<1>5. \A k \in Schedules : run'[k] \in [1..MaxAttempts[k] -> RunStates]
  BY <1>2, <1>3, <1>4
<1>6. ASSUME NEW k \in Schedules, NEW n \in 1..MaxAttempts[k]
      PROVE  run'[k][n] = IF <<k, n>> = x THEN s ELSE run[k][n]
  <2>1. <<k, n>> = x <=> k = x[1] /\ n = x[2]
    BY <1>1
  <2>2. CASE k = x[1]
    BY <1>4, <2>1, <2>2
  <2>3. CASE k # x[1]
    BY <1>3, <2>1, <2>3
  <2> QED
    BY <2>2, <2>3
<1> QED
  BY <1>3, <1>5, <1>6

LEMMA IdleIsWork == Idle \in Work
<1>1. NoBatch \in [{} -> Texts] /\ {} \in SUBSET Items
  BY DEF NoBatch
<1>2. NoBatch \in Batch
  BY <1>1 DEF Batch
<1> QED
  BY <1>2 DEF Idle, Work, Places, Outcomes

\* A process goes on with the attempt it has, or becomes idle.
Goes(w) ==
  /\ worker' \in [Workers -> Work]
  /\ \A v \in Workers \ {w} : worker'[v] = worker[v]
  /\ worker'[w].at # "claimed"
  /\ worker'[w].at = "beginning" => At(w, "claimed")
  /\ worker'[w].at \in {"saving", "recording"} => RunState(worker[w].run) = "running"
  /\ worker'[w].at = "recording" => HoldsLease(w)
  /\ worker'[w].at # "idle" => Busy(w) /\ worker'[w].run = worker[w].run
  /\ worker'[w].at \in {"ending", "recording"} => worker'[w].outcome # "none"
  /\ worker'[w].triggers \subseteq worker'[w].seen /\ worker'[w].seen \subseteq Versions
  /\ worker'[w].at \notin Suspicious => worker'[w].triggers = {}

LEMMA FailGoes ==
  ASSUME Typed, NEW w \in Workers, Busy(w), Fail(w) \/ GiveUp(w)
  PROVE  Goes(w) /\ worker'[w].gathered = {} /\ worker'[w].at \in {"reporting", "closing"}
<1>1. worker \in [Workers -> Work] /\ worker[w].run \in Runs
  BY DEF Typed, TypeOK, Busy, At
<1>2. Idle \in Work /\ Idle.seen = {} /\ Idle.triggers = {} /\ Idle.gathered = {}
  BY IdleIsWork DEF Idle
<1>3. PICK place \in {"reporting", "closing"} :
        worker' = [worker EXCEPT ![w] = [Idle EXCEPT !.at = place, !.run = worker[w].run,
                                                     !.outcome = "failed"]]
  BY DEF Fail, GiveUp
<1> DEFINE row == [Idle EXCEPT !.at = place, !.run = worker[w].run, !.outcome = "failed"]
<1>4. /\ row \in Work /\ row.at = place /\ row.run = worker[w].run
      /\ row.seen = {} /\ row.triggers = {} /\ row.gathered = {}
  BY <1>1, <1>2 DEF Work, Places, Outcomes
<1> HIDE DEF row
<1>5. worker' = [worker EXCEPT ![w] = row]
  BY <1>3 DEF row
<1>6. worker' \in [Workers -> Work] /\ worker'[w] = row /\ \A v \in Workers \ {w} : worker'[v] = worker[v]
  BY <1>1, <1>4, <1>5
<1> QED
  BY <1>4, <1>6 DEF Goes

LEMMA LeaveGoes ==
  ASSUME Typed, NEW w \in Workers, worker' = [worker EXCEPT ![w] = Idle]
  PROVE  Goes(w) /\ worker'[w].gathered = {}
<1>1. worker' \in [Workers -> Work] /\ worker'[w] = Idle /\ \A v \in Workers \ {w} : worker'[v] = worker[v]
  BY IdleIsWork DEF Typed
<1> QED
  BY <1>1 DEF Goes, Idle

LEMMA GotoGoes ==
  ASSUME Typed, NEW w \in Workers, NEW place \in Places \ {"claimed"}, Busy(w), Goto(w, place),
         place = "beginning" => At(w, "claimed"),
         place \in {"ending", "recording"} => worker[w].outcome # "none",
         place \in {"saving", "recording"} => RunState(worker[w].run) = "running",
         place = "recording" => HoldsLease(w),
         place \notin Suspicious => worker[w].triggers = {}
  PROVE  Goes(w) /\ worker'[w].gathered = worker[w].gathered /\ worker'[w].at = place
<1>1. worker \in [Workers -> Work] /\ worker[w].triggers \subseteq worker[w].seen /\ worker[w].seen \subseteq Versions
  BY DEF Typed, TypeOK
<1>2. worker' = [worker EXCEPT ![w] = [worker[w] EXCEPT !.at = place]]
  BY <1>1 DEF Goto
<1> DEFINE row == [worker[w] EXCEPT !.at = place]
<1>3. /\ row \in Work /\ row.at = place /\ row.run = worker[w].run /\ row.outcome = worker[w].outcome
      /\ row.seen = worker[w].seen /\ row.triggers = worker[w].triggers /\ row.gathered = worker[w].gathered
  BY <1>1 DEF Work
<1> HIDE DEF row
<1>4. worker' \in [Workers -> Work] /\ worker'[w] = row /\ \A v \in Workers \ {w} : worker'[v] = worker[v]
  BY <1>1, <1>2, <1>3 DEF row
<1> QED
  BY <1>1, <1>3, <1>4 DEF Goes

\* A process that takes a row of its own choice for the attempt it has.
LEMMA RowGoes ==
  ASSUME Typed, NEW w \in Workers, Busy(w), NEW row \in Work, worker' = [worker EXCEPT ![w] = row],
         row.at \notin {"claimed", "beginning", "ending", "recording"},
         row.at = "saving" => RunState(worker[w].run) = "running", row.run = worker[w].run,
         row.triggers \subseteq row.seen, row.seen \subseteq Versions,
         row.at \notin Suspicious => row.triggers = {}
  PROVE  Goes(w) /\ worker'[w] = row
<1>1. worker' \in [Workers -> Work] /\ worker'[w] = row /\ \A v \in Workers \ {w} : worker'[v] = worker[v]
  BY DEF Typed
<1> QED
  BY <1>1 DEF Goes

-----------------------------------------------------------------------------
(* Steps that write neither runs nor versions nor signals.                 *)

SameClaims ==
  /\ lease' \in [Schedules -> [attempt: Nat, live: BOOLEAN]]
  /\ \A k \in Schedules : lease'[k].attempt = lease[k].attempt /\ (lease'[k].live => lease[k].live)

LEMMA GoesKeepsAlone ==
  ASSUME IInv, NEW w \in Workers, Goes(w), SameClaims, UNCHANGED run
  PROVE  /\ Alone' /\ Unbegun' /\ Running'
         /\ \A v \in Workers : worker'[v].at # "idle" => worker'[v].run \in Runs
<1>1. \A v \in Workers : Busy(v)' => Busy(v) /\ worker'[v].run = worker[v].run
  BY DEF Goes, Busy, At
<1>2. \A v \in Workers : worker'[v].at \in {"claimed", "beginning"} =>
        worker[v].at \in {"claimed", "beginning"} /\ worker'[v].run = worker[v].run
  BY DEF Goes, At
<1>3. \A v \in Workers : Busy(v) => worker[v].run \in Runs
  BY DEF IInv, Typed, TypeOK, Busy, At
<1>4. Alone'
  <2>1. \A v \in Workers : Busy(v) => ScheduleOf(v) \in Schedules
    BY <1>3, RunParts DEF ScheduleOf
  <2> QED
    BY <1>1, <2>1 DEF IInv, Alone, ScheduleOf, SameClaims
<1>5. Unbegun'
  BY <1>2 DEF IInv, Unbegun, RunState
<1>6. \A v \in Workers : worker'[v].at \in {"saving", "recording"} =>
        worker'[v].run = worker[v].run /\ RunState(worker[v].run) = "running"
  BY DEF Goes, IInv, Running
<1>7. Running'
  BY <1>6 DEF Running, RunState
<1> QED
  BY <1>1, <1>3, <1>4, <1>5, <1>7 DEF Busy, At

LEMMA VersionParts ==
  ASSUME Typed, NEW x \in Versions
  PROVE  /\ x = <<x[1], x[2]>> /\ x[1] \in Items /\ x[2] \in 1..Len(stored[x[1]])
         /\ x \in Items \X Nat
<1>1. \A i \in Items : Len(stored[i]) \in Nat
  BY DEF Typed, TypeOK
<1> QED
  BY <1>1 DEF Versions

LEMMA VersionRunIsRun ==
  ASSUME Typed, NEW x \in Versions
  PROVE  VersionRun(x) \in Runs
<1>1. x[1] \in Items /\ x[2] \in 1..Len(stored[x[1]])
  BY VersionParts
<1>2. stored[x[1]] \in Seq(VersionRow)
  BY <1>1 DEF Typed, TypeOK
<1>3. stored[x[1]][x[2]] \in VersionRow
  BY <1>1, <1>2
<1> QED
  BY <1>3 DEF VersionRun, VersionRow

\* Only a process about to end a run may make it usable, and only one that holds the
\* lease may come there; no lease comes back.
LEMMA LateKeeps ==
  ASSUME IInv, UNCHANGED stored,
         \A y \in Runs : RunState(y)' \in Usable =>
           RunState(y) \in Usable \/ \E v \in Workers : At(v, "recording") /\ worker[v].run = y,
         \A y \in Runs : y[2] <= lease[y[1]].attempt =>
           y[2] <= lease'[y[1]].attempt /\ (Leased(y)' => Leased(y)),
         \A v \in Workers : At(v, "recording")' =>
           worker'[v].run = worker[v].run /\ (At(v, "recording") \/ Leased(worker[v].run))
  PROVE  LateHeld'
<1>s. Versions' = Versions /\ \A x : VersionRun(x)' = VersionRun(x) /\ VersionLate(x)' = VersionLate(x)
  BY DEF Versions, VersionRun, VersionLate
<1> SUFFICES ASSUME NEW x \in Versions, VersionLate(x)
             PROVE  /\ RunState(VersionRun(x))' \notin Usable
                    /\ VersionRun(x)[2] <= lease'[VersionRun(x)[1]].attempt /\ ~Leased(VersionRun(x))'
                    /\ \A w \in Workers : At(w, "recording")' => worker'[w].run # VersionRun(x)
  BY <1>s DEF LateHeld, RunState, Leased, At
<1> DEFINE y == VersionRun(x)
<1>1. /\ RunState(y) \notin Usable
      /\ y[2] <= lease[y[1]].attempt /\ ~Leased(y)
      /\ \A w \in Workers : At(w, "recording") => worker[w].run # y
  BY DEF IInv, LateHeld
<1>2. y \in Runs
  BY VersionRunIsRun DEF IInv
<1>3. y' = y
  BY DEF VersionRun
<1>4. RunState(y)' = run'[y[1]][y[2]] /\ Leased(y)' = (lease'[y[1]].live /\ lease'[y[1]].attempt = y[2])
  BY <1>3 DEF RunState, Leased
<1> HIDE DEF y
<1>5. run'[y[1]][y[2]] \notin Usable /\ y[2] <= lease'[y[1]].attempt
      /\ ~(lease'[y[1]].live /\ lease'[y[1]].attempt = y[2])
  BY <1>1, <1>2 DEF RunState, Leased
<1>6. \A w \in Workers : At(w, "recording")' => worker'[w].run # y
  BY <1>1
<1> QED
  BY <1>4, <1>5, <1>6 DEF y

\* As far as leases and processes go.
LEMMA GoesKeepsLate ==
  ASSUME IInv, NEW w \in Workers, Goes(w), SameClaims, UNCHANGED stored,
         \A y \in Runs : RunState(y)' \in Usable =>
           RunState(y) \in Usable \/ \E v \in Workers : At(v, "recording") /\ worker[v].run = y
  PROVE  LateHeld'
<1>1. \A y \in Runs : y[1] \in Schedules
  BY RunParts
<1>2. \A y \in Runs : y[2] <= lease[y[1]].attempt =>
        y[2] <= lease'[y[1]].attempt /\ (Leased(y)' => Leased(y))
  BY <1>1 DEF SameClaims, Leased
<1>3. \A v \in Workers : At(v, "recording")' =>
        worker'[v].run = worker[v].run /\ (At(v, "recording") \/ Leased(worker[v].run))
  BY DEF Goes, At, HoldsLease
<1> QED
  BY <1>2, <1>3, LateKeeps

LEMMA QuietKeeps ==
  ASSUME IInv, NEW w \in Workers, Goes(w), worker'[w].gathered \subseteq worker[w].gathered,
         SameClaims, UNCHANGED <<engine, run, stored, signal, pinned>>,
         source' \in [Sources -> SourceStates], faults' \in 0..MaxFaults
  PROVE  IInv'
<1>1. Versions' = Versions
  BY DEF Versions
<1>2. /\ Alone' /\ Unbegun' /\ Running'
      /\ \A v \in Workers : worker'[v].at # "idle" => worker'[v].run \in Runs
  BY GoesKeepsAlone
<1>3. \A v \in Workers :
        /\ worker'[v].triggers \subseteq worker'[v].seen /\ worker'[v].seen \subseteq Versions
        /\ worker'[v].at \in {"ending", "recording"} => worker'[v].outcome # "none"
        /\ worker'[v].at \notin Suspicious => worker'[v].triggers = {}
        /\ worker'[v].gathered \subseteq worker[v].gathered
        /\ worker'[v].at \in Places
  BY DEF IInv, Typed, TypeOK, At, Goes, Work
<1>4. TypeOK'
  BY <1>1, <1>2, <1>3 DEF IInv, Typed, TypeOK, SameClaims
<1>5. Typed'
  BY <1>3, <1>4 DEF IInv, Typed, At, Goes
<1>6. Unclaimed' /\ NoTwinSignals'
  BY DEF IInv, Unclaimed, NoTwinSignals, SameClaims
<1>7. FrozenHolds'
  BY <1>1 DEF IInv, FrozenHolds, RunState, VersionRun
<1>8. GatheredIsStored'
  BY <1>3 DEF IInv, GatheredIsStored
<1>9. LateHeld'
  BY GoesKeepsLate DEF RunState
<1> QED
  BY <1>2, <1>5, <1>6, <1>7, <1>8, <1>9 DEF IInv

LEMMA Steady == Typed => source \in [Sources -> SourceStates] /\ faults \in 0..MaxFaults
BY DEF Typed, TypeOK

LEMMA SteadyClaims == Typed /\ UNCHANGED lease => SameClaims
BY DEF Typed, TypeOK, SameClaims

LEMMA OneMoreFault ==
  ASSUME Typed, faults < MaxFaults, faults' = faults + 1
  PROVE  faults' \in 0..MaxFaults
<1> MaxFaults \in Nat
  BY CollectionConstants
<1> QED
  BY DEF Typed, TypeOK

LEMMA EndWorker ==
  ASSUME IInv, NEW w \in Workers, Busy(w), UNCHANGED engine,
         Fail(w) \/ GiveUp(w) \/ worker' = [worker EXCEPT ![w] = Idle],
         UNCHANGED <<lease, run, stored, signal, pinned>>,
         source' \in [Sources -> SourceStates], faults' \in 0..MaxFaults
  PROVE  IInv'
<1>1. Typed
  BY DEF IInv
<1>2. Goes(w) /\ worker'[w].gathered = {}
  BY <1>1, FailGoes, LeaveGoes
<1> QED
  BY <1>1, <1>2, QuietKeeps, SteadyClaims

LEMMA MoveWorker ==
  ASSUME IInv, NEW w \in Workers, 
         NEW place \in Places \ {"claimed", "beginning", "saving", "ending", "recording"}, Busy(w),
         Goto(w, place), place \notin Suspicious => worker[w].triggers = {},
         UNCHANGED <<engine, lease, run, stored, source, signal, pinned, faults>>
  PROVE  IInv'
<1>1. Typed
  BY DEF IInv
<1>2. Goes(w) /\ worker'[w].gathered = worker[w].gathered
  BY <1>1, GotoGoes
<1> QED
  BY <1>1, <1>2, QuietKeeps, Steady, SteadyClaims

LEMMA FailuresKeep ==
  ASSUME IInv, NEW w \in Workers, UNCHANGED engine,
         \/ Probe(w) \/ FetchFails(w) \/ SaveCollides(w) \/ NotRunning(w) \/ CallFails(w)
         \/ LoseLease(w) \/ Crash(w)
  PROVE  IInv'
<1>1. Typed /\ source \in [Sources -> SourceStates] /\ faults \in 0..MaxFaults
  BY Steady DEF IInv
<1>2. CASE Probe(w)
  <2>1. Busy(w) /\ worker[w].triggers = {}
    BY <1>1, <1>2 DEF Probe, Busy, At, Typed, Suspicious
  <2>2. CASE Goto(w, "reporting")
    BY <1>2, <2>1, <2>2, MoveWorker DEF Probe, Places
  <2>3. CASE Fail(w)
    BY <1>1, <1>2, <2>1, <2>3, EndWorker DEF Probe
  <2> QED
    BY <1>2, <2>2, <2>3 DEF Probe
<1>3. CASE FetchFails(w)
  BY <1>1, <1>3, EndWorker DEF FetchFails, Busy, At
<1>4. CASE SaveCollides(w)
  BY <1>1, <1>4, EndWorker DEF SaveCollides, Busy, At
<1>5. CASE NotRunning(w)
  BY <1>1, <1>5, EndWorker DEF NotRunning, Handle, Busy, At
<1>6. CASE CallFails(w)
  <2>1. Busy(w) /\ faults < MaxFaults /\ faults' = faults + 1 /\ UNCHANGED <<lease, run, stored, source, signal, pinned>>
    BY <1>6 DEF CallFails, Busy, At
  <2>2. Fail(w) \/ GiveUp(w)
    BY <1>6 DEF CallFails, Handle
  <2> QED
    BY <1>1, <2>1, <2>2, OneMoreFault, EndWorker
<1>7. CASE LoseLease(w)
  BY <1>1, <1>7, EndWorker DEF LoseLease, Busy, At
<1>8. CASE Crash(w)
  BY <1>1, <1>8, OneMoreFault, EndWorker DEF Crash, Busy
<1> QED
  BY <1>2, <1>3, <1>4, <1>5, <1>6, <1>7, <1>8

\* A process that goes on with a row of its own and may forget what it has gathered.
LEMMA RowKeeps ==
  ASSUME IInv, NEW w \in Workers, Busy(w), NEW row \in Work, worker' = [worker EXCEPT ![w] = row],
         row.at \notin {"claimed", "beginning", "ending", "recording"},
         row.at = "saving" => RunState(worker[w].run) = "running", row.run = worker[w].run,
         row.triggers \subseteq row.seen, row.seen \subseteq Versions,
         row.at \notin Suspicious => row.triggers = {},
         row.gathered \subseteq worker[w].gathered,
         UNCHANGED <<engine, lease, run, stored, source, signal, pinned>>, faults' \in 0..MaxFaults
  PROVE  IInv'
<1>1. Typed
  BY DEF IInv
<1>2. Goes(w) /\ worker'[w] = row
  BY <1>1, RowGoes
<1> QED
  BY <1>1, <1>2, QuietKeeps, Steady, SteadyClaims

-----------------------------------------------------------------------------
LEMMA BatchesAreBatches ==
  ASSUME NEW items \in SUBSET Items, NEW texts, NEW batch \in Batches(items, texts)
  PROVE  batch \in Batch /\ DOMAIN batch \subseteq items
BY DEF Batches, Batch

LEMMA BusyWorker ==
  ASSUME IInv, NEW w \in Workers, Busy(w)
  PROVE  /\ worker[w] \in Work /\ worker[w].run \in Runs
         /\ worker[w].triggers \subseteq worker[w].seen /\ worker[w].seen \subseteq Versions
         /\ ScheduleOf(w) \in Schedules /\ worker[w].run[2] \in 1..MaxAttempts[ScheduleOf(w)]
         /\ worker[w].run = <<ScheduleOf(w), worker[w].run[2]>>
<1>1. worker[w].run \in Runs
  BY DEF IInv, Typed, TypeOK, Busy, At
<1> QED
  BY <1>1, RunParts DEF IInv, Typed, TypeOK, ScheduleOf

LEMMA FetchesKeep ==
  ASSUME IInv, NEW w \in Workers, UNCHANGED engine,
         Fetch(w) \/ FetchAgain(w) \/ Refetch(w) \/ OpenSave(w)
  PROVE  IInv'
<1>1. Busy(w)
  BY DEF Fetch, FetchAgain, Refetch, OpenSave, Busy, At
<1>t. worker[w].triggers = {}
  BY DEF Fetch, FetchAgain, Refetch, OpenSave, At, IInv, Typed, Suspicious
<1>2. /\ worker \in [Workers -> Work] /\ worker[w] \in Work /\ worker[w].run \in Runs
      /\ worker[w].triggers \subseteq worker[w].seen /\ worker[w].seen \subseteq Versions
  BY <1>1, BusyWorker DEF IInv, Typed
<1>3. faults \in 0..MaxFaults /\ Typed
  BY Steady DEF IInv
<1>4. CASE Fetch(w)
  <2>1. PICK batch \in Batches(ItemsOf(Src(w)), ContentsOf), cut \in BOOLEAN :
          worker' = [worker EXCEPT ![w].at = "storing", ![w].batch = batch,
                                   ![w].again = cut \/ ScheduleOf(w) \notin Refetching]
    BY <1>4 DEF Fetch
  <2>2. batch \in Batch
    BY BatchesAreBatches DEF ItemsOf
  <2> DEFINE row == [worker[w] EXCEPT !.at = "storing", !.batch = batch,
                                      !.again = cut \/ ScheduleOf(w) \notin Refetching]
  <2>3. worker' = [worker EXCEPT ![w] = row]
    BY <1>2, <2>1
  <2>4. /\ row \in Work /\ row.at = "storing" /\ row.run = worker[w].run /\ row.seen = worker[w].seen
        /\ row.triggers = worker[w].triggers /\ row.gathered = worker[w].gathered
    BY <1>2, <2>2 DEF Work, Places
  <2> HIDE DEF row
  <2>5. UNCHANGED <<lease, run, stored, source, signal, pinned, faults>>
    BY <1>4 DEF Fetch
  <2>6. row.at \notin {"claimed", "beginning", "ending", "recording"} /\ row.triggers = {}
    BY <1>t, <2>4
  <2>7. row.seen \subseteq Versions /\ row.gathered \subseteq worker[w].gathered
    BY <1>2, <1>3, <2>4 DEF Typed, TypeOK
  <2> QED
    BY <1>1, <1>3, <2>3, <2>4, <2>5, <2>6, <2>7, RowKeeps
<1>5. CASE FetchAgain(w)
  <2> DEFINE row == [Idle EXCEPT !.at = "fetching", !.run = worker[w].run]
  <2>1. /\ row \in Work /\ row.at = "fetching" /\ row.run = worker[w].run /\ row.seen = {}
        /\ row.triggers = {} /\ row.gathered = {}
    <3>1. Idle \in Work /\ Idle.seen = {} /\ Idle.triggers = {} /\ Idle.gathered = {}
      BY IdleIsWork DEF Idle
    <3> QED
      BY <3>1, <1>2 DEF Work, Places
  <2> HIDE DEF row
  <2>2. /\ worker' = [worker EXCEPT ![w] = row] /\ faults < MaxFaults /\ faults' = faults + 1
        /\ UNCHANGED <<lease, run, stored, source, signal, pinned>>
    BY <1>5 DEF FetchAgain, row
  <2>3. faults' \in 0..MaxFaults
    BY <1>3, <2>2, OneMoreFault
  <2> QED
    BY <1>1, <1>2, <2>1, <2>2, <2>3, RowKeeps
<1>6. CASE Refetch(w)
  <2>1. PICK batch \in Batches(Refetchable(w), Answers) :
          worker' = [worker EXCEPT ![w].at = IF DOMAIN batch = {} THEN "detecting" ELSE "storing",
                                   ![w].batch = batch, ![w].again = TRUE]
    BY <1>6 DEF Refetch
  <2>2. batch \in Batch
    BY BatchesAreBatches DEF ItemsOf, Refetchable
  <2>3. PICK place \in {"detecting", "storing"} :
          worker' = [worker EXCEPT ![w].at = place, ![w].batch = batch, ![w].again = TRUE]
    BY <2>1
  <2> DEFINE row == [worker[w] EXCEPT !.at = place, !.batch = batch, !.again = TRUE]
  <2>4. worker' = [worker EXCEPT ![w] = row]
    BY <1>2, <2>3
  <2>5. /\ row \in Work /\ row.at = place /\ row.run = worker[w].run /\ row.seen = worker[w].seen
        /\ row.triggers = worker[w].triggers /\ row.gathered = worker[w].gathered
    BY <1>2, <2>2 DEF Work, Places
  <2> HIDE DEF row
  <2>6. UNCHANGED <<lease, run, stored, source, signal, pinned, faults>>
    BY <1>6 DEF Refetch
  <2>7. row.at \notin {"claimed", "beginning", "ending", "recording"} /\ row.triggers = {}
    BY <1>t, <2>3, <2>5
  <2>8. row.seen \subseteq Versions /\ row.gathered \subseteq worker[w].gathered
    BY <1>2, <1>3, <2>5 DEF Typed, TypeOK
  <2> QED
    BY <1>1, <1>3, <2>4, <2>5, <2>6, <2>7, <2>8, RowKeeps
<1>7. CASE OpenSave(w)
  <2> DEFINE missing == DOMAIN worker[w].batch \ Existing(worker[w].batch)
             row == [worker[w] EXCEPT !.at = "saving", !.missing = missing]
  <2>1. missing \subseteq Items
    BY <1>2 DEF Work, Batch
  <2> HIDE DEF missing
  <2>2. worker' = [worker EXCEPT ![w] = row]
    BY <1>2, <1>7 DEF OpenSave, missing
  <2>3. /\ row \in Work /\ row.at = "saving" /\ row.run = worker[w].run /\ row.seen = worker[w].seen
        /\ row.triggers = worker[w].triggers /\ row.gathered = worker[w].gathered
    BY <1>2, <2>1 DEF Work, Places
  <2> HIDE DEF row
  <2>4. UNCHANGED <<lease, run, stored, source, signal, pinned, faults>>
    BY <1>7 DEF OpenSave
  <2>5. RunState(worker[w].run) = "running"
    BY <1>7 DEF OpenSave, HoldsRun
  <2> QED
    BY <1>1, <1>2, <1>3, <1>t, <2>2, <2>3, <2>4, <2>5, RowKeeps
<1> QED
  BY <1>4, <1>5, <1>6, <1>7

LEMMA DetectedKeeps ==
  ASSUME IInv, NEW w \in Workers, Busy(w), Detected(w),
         UNCHANGED <<engine, lease, run, stored, source, signal, pinned, faults>>
  PROVE  IInv'
<1>1. /\ worker \in [Workers -> Work] /\ worker[w] \in Work
      /\ worker[w].triggers \subseteq worker[w].seen /\ worker[w].seen \subseteq Versions
  BY BusyWorker DEF IInv, Typed
<1> DEFINE row == [worker[w] EXCEPT !.at = "reporting", !.seen = {}, !.triggers = {}]
<1>2. worker' = [worker EXCEPT ![w] = row]
  BY <1>1 DEF Detected
<1>3. /\ row \in Work /\ row.at = "reporting" /\ row.run = worker[w].run /\ row.seen = {}
      /\ row.triggers = {} /\ row.gathered = worker[w].gathered
  BY <1>1 DEF Work, Places
<1> HIDE DEF row
<1>4. faults' \in 0..MaxFaults
  BY Steady DEF IInv
<1> QED
  BY <1>2, <1>3, <1>4, RowKeeps

LEMMA DetectionsKeep ==
  ASSUME IInv, NEW w \in Workers, UNCHANGED engine, Observe(w) \/ Weigh(w) \/ CheckSignal(w)
  PROVE  IInv'
<1>1. Busy(w) /\ UNCHANGED <<engine, lease, run, stored, source, signal, pinned, faults>>
  BY DEF Observe, Weigh, CheckSignal, Busy, At
<1>2. /\ worker \in [Workers -> Work] /\ worker[w] \in Work /\ Typed
      /\ worker[w].triggers \subseteq worker[w].seen /\ worker[w].seen \subseteq Versions
  BY <1>1, BusyWorker DEF IInv, Typed
<1>3. faults' \in 0..MaxFaults
  BY <1>1, <1>2, Steady
<1>4. CASE Observe(w)
  <2> DEFINE seen == {x \in Versions : ItemSource[x[1]] \in WatchSources(Watch(w))}
             row == [worker[w] EXCEPT !.at = "weighing", !.again = FALSE, !.seen = seen]
  <2>1. seen \subseteq Versions /\ seen \subseteq Items \X Nat
    BY <1>2, VersionParts
  <2>2. worker[w].triggers = {}
    BY <1>2, <1>4 DEF Observe, At, Typed, Suspicious
  <2>3. worker' = [worker EXCEPT ![w] = row]
    BY <1>2, <1>4 DEF Observe
  <2> HIDE DEF seen
  <2>4. /\ row \in Work /\ row.at = "weighing" /\ row.run = worker[w].run /\ row.seen = seen
        /\ row.triggers = {} /\ row.gathered = worker[w].gathered
    BY <1>2, <2>1, <2>2 DEF Work, Places
  <2> HIDE DEF row
  <2> QED
    BY <1>1, <1>3, <2>1, <2>3, <2>4, RowKeeps
<1>5. CASE Weigh(w)
  <2>1. worker[w].triggers = {}
    BY <1>2, <1>5 DEF Weigh, At, Typed, Suspicious
  <2>2. CASE worker' = [worker EXCEPT ![w].at = "checking", ![w].triggers = Matching(worker[w].seen)]
    <3> DEFINE matching == Matching(worker[w].seen)
               row == [worker[w] EXCEPT !.at = "checking", !.triggers = matching]
    <3>1. matching \subseteq worker[w].seen
      BY DEF Matching
    <3>2. worker' = [worker EXCEPT ![w] = row]
      BY <1>2, <2>2
    <3> HIDE DEF matching
    <3>3. /\ row \in Work /\ row.at = "checking" /\ row.run = worker[w].run /\ row.seen = worker[w].seen
          /\ row.triggers = matching /\ row.gathered = worker[w].gathered
      BY <1>2, <3>1 DEF Work, Places
    <3> HIDE DEF row
    <3> QED
      BY <1>1, <1>2, <1>3, <3>1, <3>2, <3>3, RowKeeps DEF Suspicious
  <2>3. CASE worker' = [worker EXCEPT ![w].at = "reporting", ![w].seen = {}]
    <3> DEFINE row == [worker[w] EXCEPT !.at = "reporting", !.seen = {}]
    <3>1. worker' = [worker EXCEPT ![w] = row]
      BY <1>2, <2>3
    <3>2. /\ row \in Work /\ row.at = "reporting" /\ row.run = worker[w].run /\ row.seen = {}
          /\ row.triggers = {} /\ row.gathered = worker[w].gathered
      BY <1>2, <2>1 DEF Work, Places
    <3> HIDE DEF row
    <3> QED
      BY <1>1, <1>3, <3>1, <3>2, RowKeeps
  <2> QED
    BY <1>5, <2>2, <2>3 DEF Weigh
<1>6. CASE CheckSignal(w)
  <2>1. CASE Detected(w)
    BY <1>1, <2>1, DetectedKeeps
  <2>2. CASE Goto(w, "raising")
    BY <1>1, <2>2, MoveWorker DEF Places, Suspicious
  <2> QED
    BY <1>6, <2>1, <2>2 DEF CheckSignal
<1> QED
  BY <1>4, <1>5, <1>6

LEMMA ReportKeeps ==
  ASSUME IInv, NEW w \in Workers, UNCHANGED engine, Report(w)
  PROVE  IInv'
<1>1. Busy(w) /\ Goto(w, "healing")
      /\ UNCHANGED <<engine, lease, run, stored, source, signal, pinned, faults>>
  BY DEF Report, Busy, At
<1>2. worker[w].triggers = {}
  BY DEF Report, At, IInv, Typed, Suspicious
<1> QED
  BY <1>1, <1>2, MoveWorker DEF Places

LEMMA CommitReportKeeps ==
  ASSUME IInv, NEW w \in Workers, UNCHANGED engine, CommitReport(w)
  PROVE  IInv'
<1>1. Busy(w) /\ UNCHANGED <<engine, lease, run, stored, signal, pinned, faults>>
  BY DEF CommitReport, Busy, At
<1>2. /\ worker \in [Workers -> Work] /\ worker[w] \in Work /\ Typed /\ worker[w].run \in Runs
      /\ worker[w].triggers \subseteq worker[w].seen /\ worker[w].seen \subseteq Versions
  BY <1>1, BusyWorker DEF IInv, Typed
<1>3. worker[w].triggers = {}
  BY <1>2 DEF CommitReport, At, Typed, Suspicious
<1>4. PICK outcome \in Usable \cup {"failed"}, status \in {"usable", "broken"} :
        /\ source' = [source EXCEPT ![Src(w)] = status]
        /\ worker' = [worker EXCEPT ![w].at = "ending", ![w].outcome = outcome]
  BY DEF CommitReport
<1>5. source' \in [Sources -> SourceStates] /\ faults' \in 0..MaxFaults
  BY <1>1, <1>2, <1>4, Steady DEF SourceStates
<1> DEFINE row == [worker[w] EXCEPT !.at = "ending", !.outcome = outcome]
<1>6. worker' = [worker EXCEPT ![w] = row]
  BY <1>2, <1>4
<1>7. /\ row \in Work /\ row.at = "ending" /\ row.run = worker[w].run /\ row.seen = worker[w].seen
      /\ row.triggers = {} /\ row.gathered = worker[w].gathered /\ row.outcome # "none"
  BY <1>2, <1>3 DEF Work, Places, Outcomes, Usable
<1> HIDE DEF row
<1>8. worker' \in [Workers -> Work] /\ worker'[w] = row /\ \A v \in Workers \ {w} : worker'[v] = worker[v]
  BY <1>2, <1>6, <1>7
<1>9. Goes(w) /\ worker'[w].gathered = worker[w].gathered
  BY <1>1, <1>2, <1>7, <1>8 DEF Goes
<1> QED
  BY <1>1, <1>2, <1>5, <1>9, QuietKeeps, SteadyClaims

-----------------------------------------------------------------------------
(* Leases: a claim, its end, and its expiry.                               *)

LEMMA ClaimKeeps ==
  ASSUME IInv, NEW w \in Workers, NEW k \in Schedules, UNCHANGED engine, Claim(w, k)
  PROVE  IInv'
<1> DEFINE n == lease[k].attempt + 1
           x == <<k, n>>
           row == [Idle EXCEPT !.at = "claimed", !.run = x, !.probe = source[SourceOf[k]] = "validating"]
<1>1. /\ Typed /\ worker \in [Workers -> Work] /\ lease \in [Schedules -> [attempt: Nat, live: BOOLEAN]]
      /\ MaxAttempts \in [Schedules -> Nat]
  BY CollectionConstants DEF IInv, Typed, TypeOK
<1>2. /\ lease[k].attempt \in Nat /\ lease[k].attempt < MaxAttempts[k] /\ n \in 1..MaxAttempts[k]
      /\ x \in Runs
  <2>1. lease[k].attempt \in Nat /\ lease[k].attempt < MaxAttempts[k] /\ MaxAttempts[k] \in Nat
    BY <1>1 DEF Claim
  <2>2. n \in 1..MaxAttempts[k]
    BY <2>1
  <2> QED
    BY <2>1, <2>2 DEF Runs
<1>3. UNCHANGED <<engine, run, stored, source, signal, pinned, faults>>
  BY DEF Claim
<1>4. /\ lease' = [lease EXCEPT ![k] = [attempt |-> n, live |-> TRUE]]
      /\ worker' = [worker EXCEPT ![w] = row]
  BY DEF Claim
<1>5. /\ lease' \in [Schedules -> [attempt: Nat, live: BOOLEAN]]
      /\ lease'[k].attempt = n /\ \A l \in Schedules \ {k} : lease'[l] = lease[l]
  BY <1>1, <1>2, <1>4
<1>6. /\ row \in Work /\ row.at = "claimed" /\ row.run = x /\ row.seen = {}
      /\ row.triggers = {} /\ row.gathered = {}
  <2>1. Idle \in Work /\ Idle.seen = {} /\ Idle.triggers = {} /\ Idle.gathered = {}
    BY IdleIsWork DEF Idle
  <2> QED
    BY <1>2, <2>1 DEF Work, Places
<1> HIDE DEF row
<1>7. worker' \in [Workers -> Work] /\ worker'[w] = row /\ \A v \in Workers \ {w} : worker'[v] = worker[v]
  BY <1>1, <1>4, <1>6
<1>8. \A v \in Workers : Busy(v) => worker[v].run \in Runs /\ worker[v].run[2] <= lease[worker[v].run[1]].attempt
  BY DEF IInv, Typed, TypeOK, Alone, Busy, At, ScheduleOf
<1>9. \A v \in Workers : Busy(v) => worker[v].run # x
  BY <1>2, <1>8
<1>10. \A v \in Workers \ {w} : Busy(v) =>
         worker[v].run[1] \in Schedules /\ worker[v].run[2] \in Nat /\ worker[v].run[2] <= lease'[worker[v].run[1]].attempt
  <2> SUFFICES ASSUME NEW v \in Workers \ {w}, Busy(v)
               PROVE  worker[v].run[1] \in Schedules /\ worker[v].run[2] \in Nat /\ worker[v].run[2] <= lease'[worker[v].run[1]].attempt
    OBVIOUS
  <2>1. worker[v].run[1] \in Schedules /\ worker[v].run[2] \in 1..MaxAttempts[worker[v].run[1]]
    BY <1>8, RunParts
  <2>2. worker[v].run[2] \in Nat /\ lease[worker[v].run[1]].attempt \in Nat
    BY <1>1, <2>1
  <2>3. lease[worker[v].run[1]].attempt <= lease'[worker[v].run[1]].attempt
    BY <1>2, <1>5, <2>1, <2>2
  <2>4. lease'[worker[v].run[1]].attempt \in Nat
    BY <1>5, <2>1
  <2> QED
    BY <1>8, <2>1, <2>2, <2>3, <2>4
<1>11. Alone'
  <2>1. x[1] = k /\ x[2] = n /\ n \in Nat
    BY <1>2
  <2>2. \A v \in Workers : Busy(v)' => worker'[v].run[2] <= lease'[worker'[v].run[1]].attempt
    BY <1>2, <1>5, <1>6, <1>7, <1>10, <2>1 DEF Busy, At
  <2>3. \A u, v \in Workers : Busy(u)' /\ Busy(v)' /\ worker'[u].run = worker'[v].run => u = v
    BY <1>6, <1>7, <1>9 DEF IInv, Alone, Busy, At
  <2> QED
    BY <2>2, <2>3 DEF Alone, ScheduleOf
<1>12. Unclaimed /\ run[k][n] = "none"
  BY <1>2 DEF IInv, Unclaimed
<1>13. Unbegun' /\ Running'
  BY <1>3, <1>6, <1>7, <1>12 DEF IInv, Unbegun, Running, RunState
<1>14. Unclaimed'
  <2> SUFFICES ASSUME NEW l \in Schedules, NEW m \in 1..MaxAttempts[l], lease'[l].attempt < m
               PROVE  run[l][m] = "none"
    BY <1>3 DEF Unclaimed
  <2>1. lease[l].attempt \in Nat /\ m \in Nat
    BY <1>1
  <2>2. lease[l].attempt < m
    BY <1>2, <1>5, <2>1
  <2> QED
    BY <1>12, <2>2 DEF Unclaimed
<1>15. Versions' = Versions
  BY <1>3 DEF Versions
<1>16. \A l \in Schedules : lease'[l].attempt <= MaxAttempts[l]
  <2>1. n <= MaxAttempts[k]
    BY <1>1, <1>2
  <2>2. \A l \in Schedules : lease[l].attempt <= MaxAttempts[l]
    BY <1>1 DEF Typed, TypeOK
  <2> QED
    BY <1>5, <2>1, <2>2
<1>17. TypeOK'
  <2>1. TypeOK
    BY <1>1 DEF Typed
  <2>2. \A l \in Schedules : lease'[l].attempt <= MaxAttempts[l] /\ run'[l] \in [1..MaxAttempts[l] -> RunStates]
    BY <1>3, <1>16, <2>1 DEF TypeOK
  <2>3. \A s \in 1..Len(signal') :
          /\ signal'[s].watch \in Watches /\ signal'[s].cooling \in BOOLEAN
          /\ signal'[s].triggers \subseteq signal'[s].evidence /\ signal'[s].evidence \subseteq Versions'
    BY <1>3, <1>15, <2>1 DEF TypeOK
  <2>4. worker'[w].at \in Places /\ worker'[w].run \in Runs
        /\ worker'[w].triggers \subseteq worker'[w].seen /\ worker'[w].seen \subseteq Versions'
    BY <1>2, <1>6, <1>7 DEF Places
  <2>5. \A v \in Workers \ {w} :
          /\ worker'[v].at \in Places /\ (worker'[v].at # "idle" => worker'[v].run \in Runs)
          /\ worker'[v].triggers \subseteq worker'[v].seen /\ worker'[v].seen \subseteq Versions'
    BY <1>7, <1>15, <2>1 DEF TypeOK
  <2>6. \A v \in Workers :
          /\ worker'[v].at \in Places /\ (worker'[v].at # "idle" => worker'[v].run \in Runs)
          /\ worker'[v].triggers \subseteq worker'[v].seen /\ worker'[v].seen \subseteq Versions'
    BY <2>4, <2>5
  <2>7. \A p \in pinned' : p.signal \in 1..Len(signal') /\ DOMAIN p.frozen \subseteq Versions'
    BY <1>3, <1>15, <2>1 DEF TypeOK
  <2>8. engine' \in Engines /\ stored' \in [Items -> Seq(VersionRow)] /\ source' \in [Sources -> SourceStates]
        /\ faults' \in 0..MaxFaults
    BY <1>3, <2>1 DEF TypeOK
  <2> QED
    BY <1>5, <2>2, <2>3, <2>6, <2>7, <2>8 DEF TypeOK
<1>18. Typed'
  BY <1>1, <1>3, <1>6, <1>7, <1>17 DEF Typed, At
<1>19. FrozenHolds' /\ NoTwinSignals'
  BY <1>3, <1>15 DEF IInv, FrozenHolds, NoTwinSignals, RunState, VersionRun
<1>20. GatheredIsStored'
  BY <1>3, <1>6, <1>7 DEF IInv, GatheredIsStored
<1>21. LateHeld'
  <2>1. \A y \in Runs : RunState(y)' = RunState(y)
    BY <1>3 DEF RunState
  <2>2. ASSUME NEW y \in Runs, y[2] <= lease[y[1]].attempt
        PROVE  y[2] <= lease'[y[1]].attempt /\ (Leased(y)' => Leased(y))
    <3>1. y[1] \in Schedules /\ y[2] \in 1..MaxAttempts[y[1]]
      BY RunParts
    <3>2. MaxAttempts[y[1]] \in Nat /\ lease[y[1]].attempt \in Nat
      BY <1>1, <3>1
    <3>3. y[2] \in Nat
      BY <3>1, <3>2
    <3>4. CASE y[1] = k
      <4>1. lease'[y[1]].attempt = lease[y[1]].attempt + 1
        BY <1>5, <3>4
      <4> QED
        BY <2>2, <3>2, <3>3, <4>1 DEF Leased
    <3>5. CASE y[1] # k
      BY <1>5, <2>2, <3>1, <3>5 DEF Leased
    <3> QED
      BY <3>4, <3>5
  <2>3. \A v \in Workers : At(v, "recording")' => worker'[v] = worker[v] /\ At(v, "recording")
    BY <1>6, <1>7 DEF At
  <2> QED
    BY <1>3, <2>1, <2>2, <2>3, LateKeeps
<1> QED
  BY <1>11, <1>13, <1>14, <1>18, <1>19, <1>20, <1>21 DEF IInv

LEMMA CloseKeeps ==
  ASSUME IInv, NEW w \in Workers, UNCHANGED engine, Close(w)
  PROVE  IInv'
<1>1. Typed /\ Busy(w)
  BY DEF IInv, Close, Busy, At
<1>2. Goes(w) /\ worker'[w].gathered = {}
  BY <1>1, LeaveGoes DEF Close
<1>3. ScheduleOf(w) \in Schedules
  BY <1>1, BusyWorker
<1>4. SameClaims
  BY <1>1, <1>3 DEF Close, SameClaims, Typed, TypeOK
<1> QED
  BY <1>1, <1>2, <1>4, QuietKeeps, Steady DEF Close

LEMMA LeasePassesKeeps ==
  ASSUME IInv, NEW k \in Schedules, UNCHANGED engine, LeasePasses(k)
  PROVE  IInv'
<1>1. SameClaims
  BY DEF LeasePasses, SameClaims, IInv, Typed, TypeOK
<1>2. UNCHANGED <<engine, run, stored, source, signal, worker, pinned, faults>>
  BY DEF LeasePasses
<1>3. Versions' = Versions
  BY <1>2 DEF Versions
<1>4. Typed'
  BY <1>1, <1>2, <1>3 DEF IInv, Typed, TypeOK, At, SameClaims
<1>5. Unclaimed' /\ Unbegun' /\ Running'
  BY <1>1, <1>2 DEF IInv, Unclaimed, Unbegun, Running, RunState, SameClaims
<1>6. \A w \in Workers : Busy(w) => ScheduleOf(w) \in Schedules
  BY BusyWorker
<1>7. Alone'
  BY <1>1, <1>2, <1>6 DEF IInv, Alone, Busy, At, ScheduleOf, SameClaims
<1>8. FrozenHolds' /\ NoTwinSignals' /\ GatheredIsStored'
  BY <1>2, <1>3 DEF IInv, FrozenHolds, NoTwinSignals, GatheredIsStored, RunState, VersionRun
<1>9. LateHeld'
  <2>1. \A y \in Runs : y[1] \in Schedules
    BY RunParts
  <2>2. \A y \in Runs : y[2] <= lease[y[1]].attempt =>
          y[2] <= lease'[y[1]].attempt /\ (Leased(y)' => Leased(y))
    BY <1>1, <2>1 DEF SameClaims, Leased
  <2> QED
    BY <1>2, <2>2, LateKeeps DEF At, RunState
<1> QED
  BY <1>4, <1>5, <1>7, <1>8, <1>9 DEF IInv

-----------------------------------------------------------------------------
(* Runs: beginning and end.                                                *)

\* A worker writes the state of its own run, which no frozen version rests on.
LEMMA RunKeeps ==
  ASSUME IInv, NEW w \in Workers, Busy(w), Goes(w), worker'[w].gathered \subseteq worker[w].gathered,
         NEW s \in RunStates \ {"none"}, run' = [run EXCEPT ![ScheduleOf(w)][worker[w].run[2]] = s],
         RunState(worker[w].run) \notin Usable, s \in Usable => At(w, "recording"),
         worker'[w].at \notin {"claimed", "beginning", "saving", "recording"},
         UNCHANGED <<engine, lease, stored, source, signal, pinned>>, faults' \in 0..MaxFaults
  PROVE  IInv'
<1> DEFINE x == worker[w].run
<1>1. Typed /\ x \in Runs /\ source \in [Sources -> SourceStates]
  BY BusyWorker, Steady DEF IInv
<1>2. x = <<x[1], x[2]>> /\ x[1] \in Schedules /\ x[2] \in 1..MaxAttempts[x[1]]
  BY <1>1, RunParts
<1>3. /\ run' = [k \in Schedules |-> run'[k]]
      /\ \A k \in Schedules : run'[k] \in [1..MaxAttempts[k] -> RunStates]
      /\ \A k \in Schedules : \A n \in 1..MaxAttempts[k] :
              run'[k][n] = IF <<k, n>> = x THEN s ELSE run[k][n]
  <2>1. WritesRun(x, s) /\ s \in RunStates
    BY DEF ScheduleOf, WritesRun
  <2> HIDE DEF x
  <2> QED
    BY <1>1, <2>1, RunWritten
<1>4. ASSUME NEW y \in Runs, y # x PROVE run'[y[1]][y[2]] = run[y[1]][y[2]]
  <2>1. y = <<y[1], y[2]>> /\ y[1] \in Schedules /\ y[2] \in 1..MaxAttempts[y[1]] /\ y # x
    BY <1>4, RunParts
  <2> HIDE DEF x
  <2> QED
    BY <1>3, <2>1
<1>5. Versions' = Versions
  BY DEF Versions
<1>6. \A v \in Workers : Busy(v)' => Busy(v) /\ worker'[v].run = worker[v].run
  BY DEF Goes, Busy, At
<1>7. \A v \in Workers : Busy(v) => worker[v].run \in Runs /\ ScheduleOf(v) \in Schedules
  BY BusyWorker
<1>8. Alone'
  BY <1>6, <1>7 DEF IInv, Alone, ScheduleOf
<1>9. ASSUME NEW v \in Workers, v # w, Busy(v)
      PROVE  run'[worker[v].run[1]][worker[v].run[2]] = RunState(worker[v].run)
  <2>1. worker[v].run # x /\ worker[v].run \in Runs
    BY <1>7, <1>9 DEF IInv, Alone
  <2> QED
    BY <1>4, <2>1 DEF RunState
<1>u. Unbegun' /\ Running'
  <2>1. \A v \in Workers : worker'[v].at \in {"claimed", "beginning", "saving", "recording"} =>
          v # w /\ worker'[v] = worker[v] /\ Busy(v)
    BY DEF Goes, Busy, At
  <2>2. Unbegun'
    BY <1>9, <2>1 DEF IInv, Unbegun, RunState
  <2>3. Running'
    BY <1>9, <2>1 DEF IInv, Running, RunState
  <2> QED
    BY <2>2, <2>3
<1>10. Unclaimed'
  <2> SUFFICES ASSUME NEW k \in Schedules, NEW n \in 1..MaxAttempts[k], lease[k].attempt < n
               PROVE  run'[k][n] = "none"
    BY DEF Unclaimed
  <2>1. x[2] <= lease[x[1]].attempt
    BY DEF IInv, Alone, ScheduleOf
  <2>2. lease[k].attempt \in Nat /\ MaxAttempts[k] \in Nat /\ n \in Nat
    BY <1>1, CollectionConstants DEF Typed, TypeOK
  <2>3. <<k, n>> # x
    BY <1>2, <2>1, <2>2
  <2> QED
    BY <1>3, <2>3 DEF IInv, Unclaimed
<1>11. \A v \in Workers :
        /\ worker'[v].triggers \subseteq worker'[v].seen /\ worker'[v].seen \subseteq Versions
        /\ worker'[v].at \in {"ending", "recording"} => worker'[v].outcome # "none"
        /\ worker'[v].at \notin Suspicious => worker'[v].triggers = {}
        /\ worker'[v].gathered \subseteq worker[v].gathered
        /\ worker'[v].at \in Places
  BY DEF IInv, Typed, TypeOK, At, Goes, Work
<1>12. \A v \in Workers : worker'[v].at # "idle" => worker'[v].run \in Runs
  BY <1>6, <1>7 DEF Busy, At
<1>13. TypeOK'
  BY <1>3, <1>5, <1>11, <1>12 DEF IInv, Typed, TypeOK
<1>14. Typed'
  BY <1>3, <1>11, <1>13 DEF IInv, Typed, At, Goes
<1>15. FrozenHolds'
  <2> SUFFICES ASSUME NEW p \in pinned, NEW y \in DOMAIN p.frozen
               PROVE  (y \in Versions /\ p.frozen[y] = RunState(VersionRun(y)) /\ p.frozen[y] \in Usable)'
    BY DEF FrozenHolds
  <2>1. y \in Versions /\ p.frozen[y] = RunState(VersionRun(y)) /\ p.frozen[y] \in Usable
    BY DEF IInv, FrozenHolds
  <2>2. VersionRun(y) \in Runs
    BY <1>1, <2>1, VersionRunIsRun
  <2>3. VersionRun(y) # x
    BY <2>1
  <2> QED
    BY <1>4, <1>5, <2>1, <2>2, <2>3 DEF VersionRun, RunState
<1>16. GatheredIsStored' /\ NoTwinSignals'
  BY <1>11 DEF IInv, GatheredIsStored, NoTwinSignals
<1>17. LateHeld'
  <2> SUFFICES ASSUME NEW y \in Runs, RunState(y)' \in Usable
               PROVE  RunState(y) \in Usable \/ \E v \in Workers : At(v, "recording") /\ worker[v].run = y
    BY <1>1, GoesKeepsLate, SteadyClaims
  <2>1. CASE y = x
    <3>1. RunState(y)' = s
      BY <1>2, <1>3, <2>1 DEF RunState
    <3> QED
      BY <2>1, <3>1
  <2>2. CASE y # x
    BY <1>4, <2>2 DEF RunState
  <2> QED
    BY <2>1, <2>2
<1> QED
  BY <1>8, <1>u, <1>10, <1>14, <1>15, <1>16, <1>17 DEF IInv

LEMMA CommitBeginKeeps ==
  ASSUME IInv, NEW w \in Workers, UNCHANGED engine, CommitBegin(w)
  PROVE  IInv'
<1>1. Busy(w)
  BY DEF CommitBegin, Busy, At
<1>2. /\ worker \in [Workers -> Work] /\ worker[w] \in Work /\ Typed
      /\ worker[w].triggers = {} /\ worker[w].seen \subseteq Versions
  BY <1>1, BusyWorker DEF IInv, Typed, CommitBegin, At, Suspicious
<1>3. PICK place \in {"probing", "fetching"} :
        worker' = [worker EXCEPT ![w].at = place, ![w].probe = FALSE]
  BY DEF CommitBegin
<1> DEFINE row == [worker[w] EXCEPT !.at = place, !.probe = FALSE]
<1>4. worker' = [worker EXCEPT ![w] = row]
  BY <1>2, <1>3
<1>5. /\ row \in Work /\ row.at = place /\ row.run = worker[w].run /\ row.seen = worker[w].seen
      /\ row.triggers = {} /\ row.gathered = worker[w].gathered
  BY <1>2 DEF Work, Places
<1> HIDE DEF row
<1>6. Goes(w) /\ worker'[w] = row
  BY <1>1, <1>2, <1>4, <1>5, RowGoes
<1>7. RunState(worker[w].run) = "none"
  BY DEF IInv, Unbegun, CommitBegin, At
<1>8. "running" \in RunStates \ ({"none"} \cup Usable) /\ RunState(worker[w].run) \notin Usable
  BY <1>7 DEF RunStates, Usable
<1>9. faults' \in 0..MaxFaults
  BY <1>2, Steady DEF CommitBegin
<1> QED
  BY <1>1, <1>5, <1>6, <1>8, <1>9, RunKeeps DEF CommitBegin

LEMMA ChecksKeep ==
  ASSUME IInv, NEW w \in Workers, UNCHANGED engine, Begin(w) \/ End(w)
  PROVE  IInv'
<1>1. Busy(w) /\ Typed /\ UNCHANGED <<engine, lease, run, stored, source, signal, pinned, faults>>
  BY DEF Begin, End, Busy, At, IInv
<1>2. worker[w].triggers = {}
  BY DEF Begin, End, At, IInv, Typed, Suspicious
<1>3. CASE Begin(w)
  <2>1. At(w, "claimed") /\ Goto(w, "beginning")
    BY <1>3 DEF Begin
  <2>2. Goes(w) /\ worker'[w].gathered = worker[w].gathered
    BY <1>1, <1>2, <2>1, GotoGoes DEF Places
  <2> QED
    BY <1>1, <2>2, QuietKeeps, Steady, SteadyClaims
<1>4. CASE End(w)
  <2>1. /\ Goto(w, "recording") /\ worker[w].outcome # "none"
        /\ RunState(worker[w].run) = "running" /\ HoldsLease(w)
    BY <1>1, <1>4 DEF End, At, Typed, HoldsRun
  <2>2. Goes(w) /\ worker'[w].gathered = worker[w].gathered
    BY <1>1, <1>2, <2>1, GotoGoes DEF Places
  <2> QED
    BY <1>1, <2>2, QuietKeeps, Steady, SteadyClaims
<1> QED
  BY <1>3, <1>4

LEMMA EndsKeep ==
  ASSUME IInv, NEW w \in Workers, UNCHANGED engine, CommitEnd(w) \/ LostReply(w)
  PROVE  IInv'
<1>1. /\ Busy(w) /\ At(w, "recording") /\ EndRun(w) /\ RunState(worker[w].run) = "running"
      /\ UNCHANGED <<lease, stored, source, signal, pinned>>
  BY DEF CommitEnd, LostReply, Busy, At, IInv, Running
<1>2. Typed /\ worker[w] \in Work /\ worker[w].triggers = {} /\ worker[w].outcome # "none"
  BY <1>1, BusyWorker DEF IInv, Typed, Suspicious, At
<1>3. worker[w].outcome \in RunStates \ {"none"} /\ RunState(worker[w].run) \notin Usable
  BY <1>1, <1>2 DEF Work, Outcomes, RunStates, Usable
<1>4. /\ Goes(w) /\ worker'[w].gathered \subseteq worker[w].gathered
      /\ worker'[w].at \in {"closing", "reporting"}
  <2>1. CASE CommitEnd(w)
    <3>1. Goto(w, "closing")
      BY <2>1 DEF CommitEnd
    <3> QED
      BY <1>1, <1>2, <3>1, GotoGoes DEF Places
  <2>2. CASE LostReply(w)
    <3>1. Fail(w) \/ GiveUp(w)
      BY <2>2 DEF LostReply, Handle
    <3> QED
      BY <1>1, <1>2, <3>1, FailGoes
  <2> QED
    BY <2>1, <2>2
<1>5. faults' \in 0..MaxFaults
  BY <1>2, Steady, OneMoreFault DEF CommitEnd, LostReply
<1> QED
  BY <1>1, <1>3, <1>4, <1>5, RunKeeps DEF EndRun

-----------------------------------------------------------------------------
(* Versions and signals.                                                   *)

LEMMA Appending ==
  ASSUME NEW S, NEW q \in Seq(S), NEW e \in S
  PROVE  /\ Append(q, e) \in Seq(S) /\ Len(Append(q, e)) = Len(q) + 1
         /\ Append(q, e)[Len(q) + 1] = e
         /\ \A n \in 1..Len(q) : Append(q, e)[n] = q[n]
OBVIOUS

\* What is stored stays where it is.
Grown == /\ stored' \in [Items -> Seq(VersionRow)]
         /\ \A i \in Items : \A v \in 1..Len(stored[i]) :
              v \in 1..Len(stored'[i]) /\ stored'[i][v] = stored[i][v]

LEMMA GrownKeepsVersions ==
  ASSUME Typed, Grown
  PROVE  /\ Versions \subseteq Versions'
         /\ \A x \in Versions : VersionRun(x)' = VersionRun(x) /\ VersionLate(x)' = VersionLate(x)
<1>1. \A x \in Versions : x = <<x[1], x[2]>> /\ x[1] \in Items /\ x[2] \in 1..Len(stored[x[1]])
  BY VersionParts
<1>2. \A x \in Versions : x[2] \in 1..Len(stored'[x[1]]) /\ stored'[x[1]][x[2]] = stored[x[1]][x[2]]
  BY <1>1 DEF Grown
<1>3. Versions \subseteq Versions'
  BY <1>1, <1>2 DEF Versions
<1> QED
  BY <1>2, <1>3 DEF VersionRun, VersionLate

LEMMA CommitSaveKeeps ==
  ASSUME IInv, NEW w \in Workers, UNCHANGED engine, CommitSave(w)
  PROVE  IInv'
<1> DEFINE batch == worker[w].batch
           found(i) == [text |-> batch[i], run |-> worker[w].run, late |-> ~Leased(worker[w].run)]
<1>1. Busy(w) /\ UNCHANGED <<lease, run, source, signal, pinned, faults>>
  BY DEF CommitSave, Busy, At
<1>2. /\ worker \in [Workers -> Work] /\ worker[w] \in Work /\ Typed /\ worker[w].run \in Runs
      /\ worker[w].triggers = {} /\ worker[w].seen \subseteq Versions
      /\ stored \in [Items -> Seq(VersionRow)]
  BY <1>1, BusyWorker DEF IInv, Typed, TypeOK, CommitSave, At, Suspicious
<1>3. DOMAIN batch \subseteq Items /\ \A i \in DOMAIN batch : batch[i] \in Texts
  BY <1>2 DEF Work, Batch
<1>4. \A i \in DOMAIN batch : found(i) \in VersionRow
  BY <1>2, <1>3 DEF VersionRow, Leased, Typed, TypeOK, Runs
<1>5. Changed(w) \subseteq DOMAIN batch /\ \A i \in DOMAIN batch \ Changed(w) : HasText(i, batch[i])
  BY DEF Changed
<1>6. stored' = [i \in Items |-> IF i \in Changed(w) THEN Append(stored[i], found(i)) ELSE stored[i]]
  BY DEF CommitSave
<1> HIDE DEF found
<1>7. \A i \in Items : stored'[i] = IF i \in Changed(w) THEN Append(stored[i], found(i)) ELSE stored[i]
  BY <1>6
<1>8. \A i \in Items :
        /\ stored'[i] \in Seq(VersionRow) /\ Len(stored[i]) \in Nat /\ Len(stored'[i]) \in Nat
        /\ Len(stored'[i]) >= Len(stored[i])
        /\ \A v \in 1..Len(stored[i]) : stored'[i][v] = stored[i][v]
        /\ i \in Changed(w) => Len(stored'[i]) = Len(stored[i]) + 1 /\ stored'[i][Len(stored[i]) + 1] = found(i)
  <2> SUFFICES ASSUME NEW i \in Items
               PROVE  /\ stored'[i] \in Seq(VersionRow) /\ Len(stored[i]) \in Nat /\ Len(stored'[i]) \in Nat
                      /\ Len(stored'[i]) >= Len(stored[i])
                      /\ \A v \in 1..Len(stored[i]) : stored'[i][v] = stored[i][v]
                      /\ i \in Changed(w) => Len(stored'[i]) = Len(stored[i]) + 1 /\ stored'[i][Len(stored[i]) + 1] = found(i)
    OBVIOUS
  <2>1. stored[i] \in Seq(VersionRow) /\ Len(stored[i]) \in Nat
    BY <1>2
  <2>2. CASE i \in Changed(w)
    <3>1. found(i) \in VersionRow /\ stored'[i] = Append(stored[i], found(i))
      BY <1>4, <1>5, <1>7, <2>2
    <3> QED
      BY <2>1, <3>1, Appending
  <2>3. CASE i \notin Changed(w)
    BY <1>7, <2>1, <2>3
  <2> QED
    BY <2>2, <2>3
<1>9. Grown
  <2>1. stored' \in [Items -> Seq(VersionRow)]
    BY <1>6, <1>8
  <2>2. ASSUME NEW i \in Items, NEW v \in 1..Len(stored[i])
        PROVE  v \in 1..Len(stored'[i]) /\ stored'[i][v] = stored[i][v]
    BY <1>8
  <2> QED
    BY <2>1, <2>2 DEF Grown
<1>10. /\ Versions \subseteq Versions'
       /\ \A x \in Versions : VersionRun(x)' = VersionRun(x) /\ VersionLate(x)' = VersionLate(x)
  BY <1>2, <1>9, GrownKeepsVersions
<1>11. PICK place \in {"detecting", "refetching"} :
         worker' = [worker EXCEPT ![w].at = place,
           ![w].gathered = worker[w].gathered \cup {<<i, batch[i]>> : i \in DOMAIN batch},
           ![w].batch = NoBatch, ![w].missing = {}]
  BY <1>2 DEF CommitSave
<1> DEFINE new == {<<i, batch[i]>> : i \in DOMAIN batch}
           row == [worker[w] EXCEPT !.at = place, !.gathered = worker[w].gathered \cup new,
                                    !.batch = NoBatch, !.missing = {}]
<1>12. worker' = [worker EXCEPT ![w] = row]
  BY <1>2, <1>11
<1>13. new \subseteq Items \X Texts
  BY <1>3
<1>14. NoBatch \in Batch
  BY IdleIsWork DEF Idle, Work
<1>15. /\ row \in Work /\ row.at = place /\ row.run = worker[w].run /\ row.seen = worker[w].seen
       /\ row.triggers = {} /\ row.gathered = worker[w].gathered \cup new
  <2> HIDE DEF new
  <2> QED
    BY <1>2, <1>13, <1>14 DEF Work, Places
<1> HIDE DEF row
<1>16. Goes(w) /\ worker'[w] = row
  BY <1>1, <1>2, <1>12, <1>15, RowGoes
<1>17. /\ Alone' /\ Unbegun' /\ Running'
       /\ \A v \in Workers : worker'[v].at # "idle" => worker'[v].run \in Runs
  BY <1>1, <1>2, <1>16, GoesKeepsAlone, SteadyClaims
<1>18. \A v \in Workers :
        /\ worker'[v].triggers \subseteq worker'[v].seen /\ worker'[v].seen \subseteq Versions'
        /\ worker'[v].at \in {"ending", "recording"} => worker'[v].outcome # "none"
        /\ worker'[v].at \notin Suspicious => worker'[v].triggers = {}
        /\ worker'[v].at \in Places
  BY <1>10, <1>16 DEF IInv, Typed, TypeOK, At, Goes, Work
<1>19. TypeOK'
  <2>1. \A s \in 1..Len(signal) : signal[s].evidence \subseteq Versions'
    BY <1>2, <1>10 DEF Typed, TypeOK
  <2>2. \A p \in pinned : DOMAIN p.frozen \subseteq Versions'
    BY <1>2, <1>10 DEF Typed, TypeOK
  <2> QED
    BY <1>1, <1>2, <1>9, <1>17, <1>18, <2>1, <2>2 DEF Typed, TypeOK, Grown
<1>20. Typed'
  BY <1>1, <1>2, <1>16, <1>18, <1>19 DEF Typed, At, Goes
<1>21. FrozenHolds'
  BY <1>1, <1>10 DEF IInv, FrozenHolds, RunState
<1>22. GatheredIsStored'
  <2> SUFFICES ASSUME NEW v \in Workers, NEW f \in worker'[v].gathered
               PROVE  \E n \in 1..Len(stored'[f[1]]) : stored'[f[1]][n].text = f[2]
    BY DEF GatheredIsStored
  <2>1. CASE f \in worker[v].gathered
    <3>1. PICK n \in 1..Len(stored[f[1]]) : stored[f[1]][n].text = f[2]
      BY <2>1 DEF IInv, GatheredIsStored
    <3>2. f[1] \in Items
      BY <1>2, <2>1 DEF Work
    <3> QED
      BY <1>9, <3>1, <3>2 DEF Grown
  <2>2. CASE f \notin worker[v].gathered
    <3>1. f \in new
      BY <1>15, <1>16, <2>2 DEF Goes
    <3>2. PICK i \in DOMAIN batch : f = <<i, batch[i]>>
      BY <3>1
    <3>3. i \in Items /\ f[1] = i /\ f[2] = batch[i]
      BY <1>3, <3>2
    <3>4. CASE i \in Changed(w)
      <4>1. /\ Len(stored[i]) \in Nat /\ Len(stored'[i]) = Len(stored[i]) + 1
            /\ stored'[i][Len(stored[i]) + 1] = found(i)
        BY <1>8, <3>3, <3>4
      <4>2. Len(stored[i]) + 1 \in 1..Len(stored'[i])
        BY <4>1
      <4> QED
        BY <3>3, <4>1, <4>2 DEF found
    <3>5. CASE i \notin Changed(w)
      <4>1. PICK n \in 1..Len(stored[i]) : stored[i][n].text = batch[i]
        BY <1>5, <3>5 DEF HasText
      <4> QED
        BY <1>9, <3>3, <4>1 DEF Grown
    <3> QED
      BY <3>4, <3>5
  <2> QED
    BY <2>1, <2>2
<1>23. Unclaimed' /\ NoTwinSignals'
  BY <1>1 DEF IInv, Unclaimed, NoTwinSignals
<1>24. LateHeld'
  <2> SUFFICES ASSUME NEW x \in Versions', VersionLate(x)'
               PROVE  /\ RunState(VersionRun(x)') \notin Usable
                      /\ VersionRun(x)'[2] <= lease[VersionRun(x)'[1]].attempt /\ ~Leased(VersionRun(x)')
                      /\ \A v \in Workers : At(v, "recording") /\ v # w => worker[v].run # VersionRun(x)'
    <3>1. \A v \in Workers : At(v, "recording")' => v # w /\ worker'[v] = worker[v] /\ At(v, "recording")
      BY <1>15, <1>16 DEF Goes, At
    <3> QED
      BY <1>1, <3>1 DEF LateHeld, RunState, Leased
  <2>1. CASE x \in Versions
    BY <1>10, <2>1 DEF IInv, LateHeld
  <2>2. CASE x \notin Versions
    <3>1. PICK i \in Items : \E m \in 1..Len(stored'[i]) : x = <<i, m>>
      BY DEF Versions
    <3>n. PICK n \in 1..Len(stored'[i]) : x = <<i, n>>
      BY <3>1
    <3>2. n \notin 1..Len(stored[i])
      BY <2>2, <3>n DEF Versions
    <3>3. i \in Changed(w)
      BY <1>7, <3>n, <3>2
    <3>4. n = Len(stored[i]) + 1 /\ stored'[i][n] = found(i)
      BY <1>8, <3>n, <3>2, <3>3
    <3>5. VersionRun(x)' = worker[w].run /\ ~Leased(worker[w].run)
      <4>1. stored'[x[1]][x[2]] = found(i)
        BY <3>n, <3>4
      <4>2. found(i).run = worker[w].run /\ found(i).late = ~Leased(worker[w].run)
        BY DEF found
      <4>3. VersionLate(x)' = found(i).late /\ VersionRun(x)' = found(i).run
        BY <4>1 DEF VersionRun, VersionLate
      <4> QED
        BY <4>2, <4>3
    <3>6. RunState(worker[w].run) = "running"
      BY DEF IInv, Running, CommitSave, At
    <3>7. worker[w].run[2] <= lease[worker[w].run[1]].attempt
      BY <1>1 DEF IInv, Alone, ScheduleOf
    <3>8. \A v \in Workers : At(v, "recording") /\ v # w => worker[v].run # worker[w].run
      BY <1>1 DEF IInv, Alone, Busy, At
    <3> QED
      BY <3>5, <3>6, <3>7, <3>8 DEF Usable
  <2> QED
    BY <2>1, <2>2
<1> QED
  BY <1>17, <1>20, <1>21, <1>22, <1>23, <1>24 DEF IInv

SignalRow == [watch: Watches, triggers: SUBSET (Items \X Nat),
              evidence: SUBSET (Items \X Nat), cooling: BOOLEAN]

\* A process that raises a signal which is nobody's twin.
LEMMA SignalsKeep ==
  ASSUME IInv, NEW w \in Workers, Goes(w),
         worker'[w].gathered \subseteq worker[w].gathered,
         UNCHANGED <<engine, lease, run, stored, source, pinned, faults>>,
         signal' \in Seq(SignalRow), Len(signal') >= Len(signal),
         \A s \in 1..Len(signal') :
           signal'[s].triggers \subseteq signal'[s].evidence /\ signal'[s].evidence \subseteq Versions,
         NoTwinSignals'
  PROVE  IInv'
<1>1. Versions' = Versions /\ Typed
  BY DEF Versions, IInv
<1>2. /\ Alone' /\ Unbegun' /\ Running'
      /\ \A v \in Workers : worker'[v].at # "idle" => worker'[v].run \in Runs
  BY <1>1, GoesKeepsAlone, SteadyClaims
<1>3. \A v \in Workers :
        /\ worker'[v].triggers \subseteq worker'[v].seen /\ worker'[v].seen \subseteq Versions
        /\ worker'[v].at \in {"ending", "recording"} => worker'[v].outcome # "none"
        /\ worker'[v].at \notin Suspicious => worker'[v].triggers = {}
        /\ worker'[v].gathered \subseteq worker[v].gathered
        /\ worker'[v].at \in Places
  BY <1>1 DEF Typed, TypeOK, At, Goes, Work
<1>4. \A p \in pinned : p.signal \in 1..Len(signal')
  <2>1. Len(signal) \in Nat /\ Len(signal') \in Nat
    BY <1>1 DEF Typed, SignalRow
  <2> QED
    BY <1>1, <2>1 DEF Typed, TypeOK
<1>5. \A s \in 1..Len(signal') : signal'[s].watch \in Watches /\ signal'[s].cooling \in BOOLEAN
  <2>1. \A s \in 1..Len(signal') : signal'[s] \in SignalRow
    OBVIOUS
  <2> QED
    BY <2>1 DEF SignalRow
<1>6. TypeOK'
  BY <1>1, <1>2, <1>3, <1>4, <1>5 DEF Typed, TypeOK
<1>7. worker' \in [Workers -> Work]
  BY <1>1 DEF Typed, Goes
<1>8. Typed'
  BY <1>1, <1>3, <1>6, <1>7 DEF Typed, At, SignalRow
<1>9. Unclaimed' /\ FrozenHolds'
  BY <1>1 DEF IInv, Unclaimed, FrozenHolds, RunState, VersionRun
<1>10. GatheredIsStored'
  BY <1>3 DEF IInv, GatheredIsStored
<1>11. LateHeld'
  BY <1>1, GoesKeepsLate, SteadyClaims DEF RunState
<1> QED
  BY <1>2, <1>8, <1>9, <1>10, <1>11 DEF IInv

LEMMA RaiseSignalKeeps ==
  ASSUME IInv, NEW w \in Workers, UNCHANGED engine, RaiseSignal(w)
  PROVE  IInv'
<1>1. Busy(w) /\ UNCHANGED <<lease, run, stored, source, pinned, faults>>
  BY DEF RaiseSignal, Busy, At
<1>2. /\ worker \in [Workers -> Work] /\ worker[w] \in Work /\ Typed /\ ScheduleOf(w) \in Schedules
      /\ worker[w].triggers \subseteq worker[w].seen /\ worker[w].seen \subseteq Versions
  BY <1>1, BusyWorker DEF IInv, Typed
<1>3. CASE \E s \in 1..Len(signal) : Twin(w, s)
  <2>1. Fail(w) /\ UNCHANGED signal /\ source \in [Sources -> SourceStates] /\ faults' \in 0..MaxFaults
    BY <1>1, <1>2, <1>3, Steady DEF RaiseSignal
  <2> QED
    BY <1>1, <2>1, EndWorker
<1>4. CASE ~\E s \in 1..Len(signal) : Twin(w, s)
  <2>1. signal' = Append(signal, NewSignal(w)) /\ Detected(w)
    BY <1>4 DEF RaiseSignal
  <2>2. Goes(w) /\ worker'[w].gathered = worker[w].gathered
    <3> DEFINE row == [worker[w] EXCEPT !.at = "reporting", !.seen = {}, !.triggers = {}]
    <3>1. worker' = [worker EXCEPT ![w] = row]
      BY <1>2, <2>1 DEF Detected
    <3>2. /\ row \in Work /\ row.at = "reporting" /\ row.run = worker[w].run /\ row.seen = {}
          /\ row.triggers = {} /\ row.gathered = worker[w].gathered
      BY <1>2 DEF Work, Places
    <3> HIDE DEF row
    <3> QED
      BY <1>1, <1>2, <3>1, <3>2, RowGoes
  <2>3. signal \in Seq(SignalRow)
    BY <1>2 DEF Typed, SignalRow
  <2>4. NewSignal(w) \in SignalRow
    BY <1>2 DEF NewSignal, SignalRow, Work, Watch, Watches
  <2>5. /\ signal' \in Seq(SignalRow) /\ Len(signal') = Len(signal) + 1 /\ Len(signal) \in Nat
        /\ signal'[Len(signal) + 1] = NewSignal(w)
        /\ \A n \in 1..Len(signal) : signal'[n] = signal[n]
    BY <2>1, <2>3, <2>4, Appending
  <2>6. ASSUME NEW s \in 1..Len(signal')
        PROVE  signal'[s].triggers \subseteq signal'[s].evidence /\ signal'[s].evidence \subseteq Versions
    <3>1. CASE s \in 1..Len(signal)
      BY <1>2, <2>5, <3>1 DEF Typed, TypeOK
    <3>2. CASE s = Len(signal) + 1
      BY <1>2, <2>5, <3>2 DEF NewSignal
    <3> QED
      BY <2>5, <3>1, <3>2
  <2>7. NoTwinSignals'
    <3> SUFFICES ASSUME NEW s \in 1..Len(signal'), NEW t \in 1..Len(signal'),
                        signal'[s].watch = signal'[t].watch, signal'[s].triggers = signal'[t].triggers
                 PROVE  s = t
      BY DEF NoTwinSignals
    <3>1. s \in 1..Len(signal) \/ s = Len(signal) + 1
      BY <2>5
    <3>2. t \in 1..Len(signal) \/ t = Len(signal) + 1
      BY <2>5
    <3>3. \A n \in 1..Len(signal) :
            ~(signal'[n].watch = NewSignal(w).watch /\ signal'[n].triggers = NewSignal(w).triggers)
      BY <1>4, <2>5 DEF Twin, NewSignal
    <3> QED
      BY <2>5, <3>1, <3>2, <3>3 DEF IInv, NoTwinSignals
  <2> QED
    BY <1>1, <2>2, <2>5, <2>6, <2>7, SignalsKeep
<1> QED
  BY <1>3, <1>4

LEMMA CooldownPassesKeeps ==
  ASSUME IInv, NEW s \in 1..Len(signal), UNCHANGED engine, CooldownPasses(s)
  PROVE  IInv'
<1>1. UNCHANGED <<lease, run, stored, source, worker, pinned, faults>>
  BY DEF CooldownPasses
<1>2. Typed /\ signal \in Seq(SignalRow)
  BY DEF IInv, Typed, SignalRow
<1>3. /\ signal' \in Seq(SignalRow) /\ Len(signal') = Len(signal)
      /\ \A t \in 1..Len(signal) : /\ signal'[t].watch = signal[t].watch
                                   /\ signal'[t].triggers = signal[t].triggers
                                   /\ signal'[t].evidence = signal[t].evidence
                                   /\ signal'[t].cooling \in BOOLEAN
  <2>1. signal[s] \in SignalRow
    BY <1>2
  <2> DEFINE row == [signal[s] EXCEPT !.cooling = FALSE]
  <2>2. /\ row \in SignalRow /\ row.watch = signal[s].watch /\ row.triggers = signal[s].triggers
        /\ row.evidence = signal[s].evidence
    BY <2>1 DEF SignalRow
  <2>3. signal' = [signal EXCEPT ![s] = row]
    BY <1>2 DEF CooldownPasses
  <2> HIDE DEF row
  <2>4. /\ signal' \in Seq(SignalRow) /\ Len(signal') = Len(signal)
        /\ \A t \in 1..Len(signal) : signal'[t] = IF t = s THEN row ELSE signal[t]
    BY <1>2, <2>2, <2>3
  <2>5. \A t \in 1..Len(signal) : signal'[t] \in SignalRow
    BY <2>4
  <2>6. \A t \in 1..Len(signal) : signal'[t].cooling \in BOOLEAN
    BY <2>5 DEF SignalRow
  <2> QED
    BY <2>2, <2>4, <2>6
<1>4. Len(signal) \in Nat
  BY <1>2
<1>5. NoTwinSignals'
  BY <1>3 DEF IInv, NoTwinSignals
<1>6. \A t \in 1..Len(signal') :
        signal'[t].triggers \subseteq signal'[t].evidence /\ signal'[t].evidence \subseteq Versions
  BY <1>2, <1>3 DEF Typed, TypeOK
<1>7. Versions' = Versions
  BY <1>1 DEF Versions
<1>8. TypeOK'
  BY <1>1, <1>2, <1>3, <1>4, <1>6, <1>7 DEF Typed, TypeOK
<1>9. Typed'
  BY <1>1, <1>2, <1>3, <1>8 DEF Typed, At, SignalRow
<1>10. Unclaimed' /\ FrozenHolds' /\ GatheredIsStored'
  BY <1>1, <1>7 DEF IInv, Unclaimed, FrozenHolds, RunState, VersionRun, GatheredIsStored
<1>11. Alone' /\ Unbegun' /\ Running'
  BY <1>1 DEF IInv, Alone, Unbegun, Running, At, Busy, ScheduleOf, RunState
<1>12. LateHeld'
  BY <1>1, <1>7 DEF IInv, LateHeld, VersionLate, VersionRun, RunState, Leased, At
<1> QED
  BY <1>5, <1>9, <1>10, <1>11, <1>12 DEF IInv

LEMMA PinRunKeeps ==
  ASSUME IInv, NEW s \in 1..Len(signal), UNCHANGED engine, PinRun(s)
  PROVE  IInv'
<1>1. UNCHANGED <<lease, run, stored, source, signal, worker, faults>> /\ Typed
  BY DEF PinRun, IInv
<1>2. PICK choice \in SUBSET signal[s].evidence :
        /\ \A x \in choice : Sound(x, signal[s].watch)
        /\ pinned' = pinned \cup {[signal |-> s, frozen |-> Snapshot(choice)]}
  BY DEF PinRun
<1>3. choice \subseteq Versions
  BY <1>1 DEF Typed, TypeOK
<1>4. Versions' = Versions
  BY <1>1 DEF Versions
<1>5. DOMAIN Snapshot(choice) = choice /\ \A x \in choice : Snapshot(choice)[x] = RunState(VersionRun(x))
  BY DEF Snapshot
<1>6. TypeOK'
  BY <1>1, <1>2, <1>3, <1>4, <1>5 DEF Typed, TypeOK
<1>7. Typed'
  BY <1>1, <1>6 DEF Typed, At
<1>8. FrozenHolds'
  <2> DEFINE pin == [signal |-> s, frozen |-> Snapshot(choice)]
  <2>1. \A x \in choice : RunState(VersionRun(x)) \in Usable
    BY <1>2 DEF Sound
  <2>2. \A x \in DOMAIN pin.frozen :
          x \in Versions /\ pin.frozen[x] = RunState(VersionRun(x)) /\ pin.frozen[x] \in Usable
    BY <1>3, <1>5, <2>1
  <2>3. \A p \in pinned' : p \in pinned \/ p = pin
    BY <1>2
  <2> HIDE DEF pin
  <2>4. \A p \in pinned' : \A x \in DOMAIN p.frozen :
          x \in Versions /\ p.frozen[x] = RunState(VersionRun(x)) /\ p.frozen[x] \in Usable
    BY <2>2, <2>3 DEF IInv, FrozenHolds
  <2>5. \A x : RunState(VersionRun(x))' = RunState(VersionRun(x))
    BY <1>1 DEF RunState, VersionRun
  <2> QED
    BY <1>4, <2>4, <2>5 DEF FrozenHolds
<1>9. Unclaimed' /\ GatheredIsStored' /\ NoTwinSignals'
  BY <1>1 DEF IInv, Unclaimed, GatheredIsStored, NoTwinSignals
<1>10. Alone' /\ Unbegun' /\ Running'
  BY <1>1 DEF IInv, Alone, Unbegun, Running, At, Busy, ScheduleOf, RunState
<1>11. LateHeld'
  BY <1>1, <1>4 DEF IInv, LateHeld, VersionLate, VersionRun, RunState, Leased, At
<1> QED
  BY <1>7, <1>8, <1>9, <1>10, <1>11 DEF IInv

-----------------------------------------------------------------------------
LEMMA InitHolds == Init => IInv
<1> SUFFICES ASSUME Init PROVE IInv
  OBVIOUS
<1>1. Idle \in Work /\ Idle.at = "idle" /\ Idle.seen = {} /\ Idle.triggers = {} /\ Idle.gathered = {}
  BY IdleIsWork DEF Idle
<1>2. \A w \in Workers : worker[w] = Idle
  BY DEF Init
<1>3. worker \in [Workers -> Work]
  BY <1>1 DEF Init
<1>4. {MaxTries, MaxFaults, MaxPins} \subseteq Nat /\ MaxAttempts \in [Schedules -> Nat]
  BY CollectionConstants
<1>5. \A k \in Schedules : run[k] = [n \in 1..MaxAttempts[k] |-> "none"] /\ lease[k] = [attempt |-> 0, live |-> FALSE]
  BY DEF Init
<1>6. TypeOK
  <2>1. lease \in [Schedules -> [attempt: Nat, live: BOOLEAN]]
    BY DEF Init
  <2>2. \A k \in Schedules : lease[k].attempt <= MaxAttempts[k] /\ run[k] \in [1..MaxAttempts[k] -> RunStates]
    <3>1. \A k \in Schedules : MaxAttempts[k] \in Nat /\ 0 <= MaxAttempts[k]
      BY <1>4
    <3>2. \A k \in Schedules : [n \in 1..MaxAttempts[k] |-> "none"] \in [1..MaxAttempts[k] -> RunStates]
      BY DEF RunStates
    <3> QED
      <4>1. \A k \in Schedules : lease[k].attempt = 0
        BY DEF Init
      <4>2. \A k \in Schedules : run[k] \in [1..MaxAttempts[k] -> RunStates]
        BY <1>5, <3>2
      <4> QED
        BY <3>1, <4>1, <4>2
  <2>3. stored \in [Items -> Seq(VersionRow)] /\ source \in [Sources -> SourceStates]
    BY DEF Init, SourceStates
  <2>4. faults \in 0..MaxFaults /\ engine \in Engines /\ Len(signal) = 0 /\ pinned = {}
    BY <1>4 DEF Init
  <2> QED
    BY <1>1, <1>2, <2>1, <2>2, <2>3, <2>4 DEF TypeOK, Places
<1>7. Typed
  <2>1. run = [k \in Schedules |-> run[k]] /\ signal \in Seq(SignalRow)
    BY DEF Init
  <2> QED
    BY <1>1, <1>2, <1>3, <1>6, <2>1 DEF Typed, At, SignalRow
<1>8. Unclaimed /\ Alone /\ Unbegun /\ Running
  BY <1>1, <1>2, <1>5 DEF Unclaimed, Alone, Unbegun, Running, Busy, At
<1>9. FrozenHolds /\ GatheredIsStored /\ NoTwinSignals
  BY <1>1, <1>2 DEF Init, FrozenHolds, GatheredIsStored, NoTwinSignals
<1>10. LateHeld
  BY DEF Init, LateHeld, Versions
<1> QED
  BY <1>7, <1>8, <1>9, <1>10 DEF IInv

LEMMA NextHolds == IInv /\ [Next /\ UNCHANGED engine]_vars => IInv'
<1> SUFFICES ASSUME IInv, [Next /\ UNCHANGED engine]_vars PROVE IInv'
  OBVIOUS
<1>1. CASE UNCHANGED vars
  <2>1. UNCHANGED <<engine, lease, run, stored, source, signal, worker, pinned, faults>>
    BY <1>1 DEF vars
  <2>2. Versions' = Versions
    BY <2>1 DEF Versions
  <2>3. TypeOK'
    BY <2>1, <2>2 DEF IInv, Typed, TypeOK
  <2>4. Typed'
    BY <2>1, <2>3 DEF IInv, Typed, At
  <2>5. Unclaimed' /\ GatheredIsStored' /\ NoTwinSignals'
    BY <2>1 DEF IInv, Unclaimed, GatheredIsStored, NoTwinSignals
  <2>6. Alone' /\ Unbegun' /\ Running' /\ FrozenHolds'
    BY <2>1, <2>2 DEF IInv, Alone, Unbegun, Running, FrozenHolds, At, Busy, ScheduleOf, RunState, VersionRun
  <2>7. LateHeld'
    BY <2>1, <2>2 DEF IInv, LateHeld, VersionLate, VersionRun, RunState, Leased, At
  <2> QED
    BY <2>4, <2>5, <2>6, <2>7 DEF IInv
<1>2. ASSUME NEW w \in Workers, NEW k \in Schedules, Claim(w, k), UNCHANGED engine PROVE IInv'
  BY <1>2, ClaimKeeps
<1>3. ASSUME NEW w \in Workers, UNCHANGED engine,
             \/ Probe(w) \/ FetchFails(w) \/ SaveCollides(w) \/ NotRunning(w) \/ CallFails(w)
             \/ LoseLease(w) \/ Crash(w)
      PROVE IInv'
  BY <1>3, FailuresKeep
<1>4. ASSUME NEW w \in Workers, UNCHANGED engine, Fetch(w) \/ FetchAgain(w) \/ Refetch(w) \/ OpenSave(w)
      PROVE IInv'
  BY <1>4, FetchesKeep
<1>5. ASSUME NEW w \in Workers, UNCHANGED engine, Observe(w) \/ Weigh(w) \/ CheckSignal(w) PROVE IInv'
  BY <1>5, DetectionsKeep
<1>6. ASSUME NEW w \in Workers, UNCHANGED engine,
             Begin(w) \/ CommitBegin(w) \/ End(w) \/ CommitEnd(w) \/ LostReply(w) PROVE IInv'
  BY <1>6, ChecksKeep, CommitBeginKeeps, EndsKeep
<1>7. ASSUME NEW w \in Workers, UNCHANGED engine,
             CommitSave(w) \/ RaiseSignal(w) \/ Report(w) \/ CommitReport(w) \/ Close(w) PROVE IInv'
  BY <1>7, CommitSaveKeeps, RaiseSignalKeeps, ReportKeeps, CommitReportKeeps, CloseKeeps
<1>8. ASSUME NEW k \in Schedules, LeasePasses(k), UNCHANGED engine PROVE IInv'
  BY <1>8, LeasePassesKeeps
<1>9. ASSUME NEW s \in 1..Len(signal), CooldownPasses(s) \/ PinRun(s), UNCHANGED engine PROVE IInv'
  BY <1>9, CooldownPassesKeeps, PinRunKeeps
<1> QED
  BY <1>1, <1>2, <1>3, <1>4, <1>5, <1>6, <1>7, <1>8, <1>9 DEF Next

LEMMA Invariance == Spec => []IInv
BY InitHolds, NextHolds, PTL DEF Spec

\* Every value stays in its set, whatever processes do.
THEOREM TypeCorrect == Spec => []TypeOK
<1>1. IInv => TypeOK
  BY DEF IInv, Typed
<1> QED
  BY <1>1, Invariance, PTL

\* What was frozen for research stays acceptable: the run of a stored version that ended
\* is never begun again, written over or collected by another process.
THEOREM PinsStayValid == Spec => []PinnedStaysValid
<1>1. IInv => PinnedStaysValid
  BY DEF IInv, FrozenHolds, PinnedStaysValid, Accepts
<1> QED
  BY <1>1, Invariance, PTL

\* A watchlist has no two signals of the same trigger versions, however late a
\* collection that checked for one comes to its insert.
THEOREM SignalsHaveNoTwins == Spec => []NoTwinSignals
<1>1. IInv => NoTwinSignals
  BY DEF IInv
<1> QED
  BY <1>1, Invariance, PTL

\* A collection that is to be recorded as a success has stored what it was given.
THEOREM SuccessesAreComplete == Spec => []SuccessIsComplete
<1>1. IInv => SuccessIsComplete
  BY DEF IInv, GatheredIsStored, SuccessIsComplete
<1> QED
  BY <1>1, Invariance, PTL

\* What a process stores after its lease has ended is never research: no later check of
\* that process succeeds, so nobody ends its run as a success.
THEOREM LateItemsStay == Spec => []LateItemsStayOut
<1>1. IInv => LateItemsStayOut
  BY DEF IInv, LateHeld, FrozenHolds, LateItemsStayOut
<1> QED
  BY <1>1, Invariance, PTL
=============================================================================
