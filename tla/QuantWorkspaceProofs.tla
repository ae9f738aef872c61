------------------------ MODULE QuantWorkspaceProofs ------------------------
(***************************************************************************)
(* What TLAPS proves of QuantWorkspace for every number of runs, workers,  *)
(* requests and faults and for every budget.                               *)
(*                                                                         *)
(* The properties speak of one commit, which replaces the whole workspace  *)
(* by some actor's copy.  They follow from an invariant of the copies: one *)
(* whose row_version is current goes on from the committed snapshot        *)
(* (Follows), one that a worker is about to write belongs to the holder of *)
(* the lease, and the run the holder works on is not finished behind its   *)
(* back (Due).                                                             *)
(***************************************************************************)
EXTENDS QuantWorkspace, TLAPS

Finished  == {"completed", "failed"}
Unstarted == {"none", "waiting"}
Underway  == {"running", "generating", "repairing"}

\* A run that does not exist yet has the columns of a new one; one that does
\* keeps its budgets, and one that may be worked on has an iteration left.
Sound(row) ==
  /\ row.state = "none" => row.used = 0 /\ row.repairs = 0 /\ row.child = Nobody /\ row.kind = "single"
  /\ row.state \in Unstarted => row.iteration = 0
  /\ row.state \in Underway => row.iteration < MaxIterations
  /\ row.iteration <= MaxIterations
  /\ row.used <= MaxExperiments /\ row.repairs <= MaxRepairs
  /\ row.tested <= row.used + row.repairs

\* What may become of one run.
GoesOn(old, new) ==
  /\ old.state # "none" => new.state # "none"
  /\ old.state \notin Unstarted => new.state \notin Unstarted
  /\ old.state \in Finished => new.state = old.state
  /\ new.iteration >= old.iteration
  /\ new.used >= old.used /\ new.repairs >= old.repairs
  /\ old.child # Nobody => new.child = old.child
  /\ old.kind # "single" => new.kind = old.kind

\* A copy made for run x goes on from a snapshot; it edits x and new runs only.
Follows(old, new, x) ==
  \A r \in Runs :
    /\ Sound(new[r])
    /\ GoesOn(old[r], new[r])
    /\ new[r] # old[r] => r = x \/ old[r].state = "none"

\* The places of a step before the iteration is counted.
Pending == {"polled", "claimed", "deciding", "tooling", "observed",
            "write_decision", "write_tool", "write_finish"}

\* The run as the step must find it: after its own finish, or not finished.
Due(outcome, row) ==
  /\ row.iteration < MaxIterations
  /\ IF outcome = "terminal" THEN row.state = "completed" ELSE row.state \notin Finished

\* What the run of a step in progress is in the committed snapshot and the copy.
WorkDue(w, pc, outcome, x) ==
  pc \in Pending /\ (pc = "polled" \/ lease.holder = w) =>
    /\ w \in fresh => Due(outcome, cache[w][x])
    /\ pc # "polled" => Due(IF pc = "write_finish" THEN "done" ELSE outcome, runs[x])

WorkerCoherent(w) ==
  worker[w] # IdleWorker =>
    /\ runs[worker[w].run].state \notin Unstarted
    /\ w \in fresh => Follows(runs, cache[w], worker[w].run)
    /\ w \in fresh /\ worker[w].pc \in Writes => lease.holder = w
    /\ worker[w].pc # "polled" /\ lease.holder = w => lease.run = worker[w].run
    /\ worker[w].outcome = "terminal" => worker[w].pc \in {"write_finish", "observed"}
    /\ WorkDue(w, worker[w].pc, worker[w].outcome, worker[w].run)

RequestCoherent(t) == request[t] # IdleRequest /\ t \in fresh => cache[t] = runs

Coherent ==
  /\ \A r \in Runs : Sound(runs[r])
  /\ \A w \in Workers : WorkerCoherent(w)
  /\ \A t \in Threads : RequestCoherent(t)

\* The inductive invariant.
IInv == TypeOK /\ Coherent
-----------------------------------------------------------------------------
(* Rows and snapshots.                                                     *)

LEMMA NewRunRow ==
  ASSUME NEW state \in Starts \cup {"none"}, NEW kind \in {"single", "follow_up", "retry"},
         state = "none" => kind = "single"
  PROVE  NewRun(state, kind) \in RunRow /\ Sound(NewRun(state, kind))
<1>1. NewRun(state, kind) \in RunRow
  BY DEF NewRun, RunRow, Starts, RunStates, Terminal
<1>2. Sound(NewRun(state, kind))
  BY QuantConstants DEF NewRun, Sound, Starts, Unstarted, Underway, QuantConstants
<1> QED
  BY <1>1, <1>2

LEMMA WriteRow ==
  ASSUME NEW s \in Workspace, NEW x \in Runs, NEW row \in RunRow
  PROVE  /\ [s EXCEPT ![x] = row] \in Workspace
         /\ [s EXCEPT ![x] = row][x] = row
         /\ \A r \in Runs : r # x => [s EXCEPT ![x] = row][r] = s[r]
  BY DEF Workspace

LEMMA RowType ==
  ASSUME NEW row \in RunRow
  PROVE  /\ row.iteration \in Nat /\ row.failures \in Nat
         /\ row.used \in Nat /\ row.repairs \in Nat /\ row.tested \in Nat
         /\ row.state \in RunStates /\ row.marked \in BOOLEAN
  BY DEF RunRow

LEMMA GoesOnSelf ==
  ASSUME NEW row \in RunRow
  PROVE  GoesOn(row, row)
  BY RowType DEF GoesOn

LEMMA GoesOnTransitive ==
  ASSUME NEW a \in RunRow, NEW b \in RunRow, NEW c \in RunRow, GoesOn(a, b), GoesOn(b, c)
  PROVE  GoesOn(a, c)
<1>1. c.iteration >= a.iteration /\ c.used >= a.used /\ c.repairs >= a.repairs
  BY RowType DEF GoesOn
<1> QED
  BY <1>1 DEF GoesOn

LEMMA FollowsSelf ==
  ASSUME NEW s \in Workspace, \A r \in Runs : Sound(s[r]), NEW x
  PROVE  Follows(s, s, x)
  BY GoesOnSelf DEF Follows, Workspace

LEMMA FollowsRow ==
  ASSUME NEW s \in Workspace, \A r \in Runs : Sound(s[r]), NEW x \in Runs,
         NEW row \in RunRow, Sound(row), GoesOn(s[x], row)
  PROVE  Follows(s, [s EXCEPT ![x] = row], x)
<1>1. \A r \in Runs : s[r] \in RunRow
  BY DEF Workspace
<1> QED
  BY <1>1, WriteRow, GoesOnSelf DEF Follows

LEMMA FollowsTransitive ==
  ASSUME NEW a \in Workspace, NEW b \in Workspace, NEW c \in Workspace, NEW x,
         Follows(a, b, x), Follows(b, c, x)
  PROVE  Follows(a, c, x)
<1>1. \A r \in Runs : a[r] \in RunRow /\ b[r] \in RunRow /\ c[r] \in RunRow
  BY DEF Workspace
<1>2. \A r \in Runs : GoesOn(a[r], c[r])
  BY <1>1, GoesOnTransitive DEF Follows
<1>3. \A r \in Runs : Sound(c[r])
  BY DEF Follows
<1>4. \A r \in Runs : c[r] # a[r] => r = x \/ a[r].state = "none"
  BY DEF Follows, GoesOn
<1> QED
  BY <1>2, <1>3, <1>4 DEF Follows

\* A snapshot in which a new run was added goes on too.
LEMMA FollowsNew ==
  ASSUME NEW s \in Workspace, \A r \in Runs : Sound(s[r]), NEW c \in Runs, s[c].state = "none",
         NEW row \in RunRow, Sound(row), NEW x
  PROVE  Follows(s, [s EXCEPT ![c] = row], x)
<1>1. \A r \in Runs : s[r] \in RunRow
  BY DEF Workspace
<1>2. GoesOn(s[c], row)
  BY <1>1, RowType DEF Sound, GoesOn, Unstarted, Finished
<1> QED
  BY <1>1, <1>2, WriteRow, GoesOnSelf DEF Follows

-----------------------------------------------------------------------------
(* One actor acts.                                                         *)

\* What a step promises of the committed runs.
Kept == \A r \in Runs : GoesOn(runs[r], runs'[r])

\* What it leaves to the step of another worker: the iteration and whether the
\* run is finished.
Undisturbed(new) ==
  \A r \in Runs : runs[r].state \notin Unstarted =>
    /\ new[r].iteration = runs[r].iteration
    /\ new[r].state = runs[r].state \/ {new[r].state, runs[r].state} \cap Finished = {}

Fenced ==
  \A w \in Workers : worker'[w] # worker[w] /\ runs' # runs =>
    /\ lease.holder = w
    /\ \A r \in Runs : runs'[r] # runs[r] => r = lease.run \/ runs[r].state = "none"

\* The copies of the others stay coherent: they lose their version, or nothing
\* they depend on has changed.
LEMMA ActsAlone ==
  ASSUME IInv, NEW a \in Actors,
         \A v \in Workers \ {a} : worker'[v] = worker[v] /\ cache'[v] = cache[v],
         \A t \in Threads \ {a} : request'[t] = request[t] /\ cache'[t] = cache[t],
         fresh' \ {a} \subseteq fresh,
         runs' # runs => fresh' \subseteq {a},
         Kept, \A r \in Runs : Sound(runs'[r]),
         runs' = runs \/ lease.holder = a \/ Undisturbed(runs'),
         lease' = lease \/ (fresh' \subseteq {a} /\ lease'.holder \in {a, Nobody}),
         a \in Workers => WorkerCoherent(a)',
         a \in Threads => RequestCoherent(a)'
  PROVE  Coherent'
<1>1. ASSUME NEW v \in Workers, v # a  PROVE WorkerCoherent(v)'
  <2> SUFFICES ASSUME worker[v] # IdleWorker  PROVE WorkerCoherent(v)'
    BY <1>1 DEF WorkerCoherent
  <2>0. v # Nobody /\ worker'[v] = worker[v] /\ cache'[v] = cache[v]
    BY <1>1, QuantConstants DEF QuantConstants
  <2>1. worker[v].run \in Runs
    BY DEF IInv, TypeOK, BusyWorkers
  <2>2. WorkerCoherent(v)
    BY DEF IInv, Coherent
  <2>3. runs[worker[v].run].state \notin Unstarted /\ runs'[worker[v].run].state \notin Unstarted
    BY <2>1, <2>2 DEF WorkerCoherent, Kept, GoesOn
  <2>4. v \in fresh' => v \in fresh /\ runs' = runs /\ lease' = lease
    BY <1>1
  <2>5. lease'.holder = v => lease' = lease
    BY <1>1, <2>0
  <2>6. ASSUME NEW outcome, lease.holder = v, Due(outcome, runs[worker[v].run])
        PROVE  Due(outcome, runs'[worker[v].run])
    <3>1. runs' = runs \/ Undisturbed(runs')
      BY <1>1, <2>6
    <3> QED
      BY <2>1, <2>3, <2>6, <3>1 DEF Undisturbed, Due, Finished
  <2>7. WorkDue(v, worker[v].pc, worker[v].outcome, worker[v].run)'
    BY <2>0, <2>2, <2>4, <2>5, <2>6 DEF WorkerCoherent, WorkDue
  <2> QED
    BY <2>0, <2>2, <2>3, <2>4, <2>5, <2>7 DEF WorkerCoherent
<1>2. ASSUME NEW t \in Threads, t # a  PROVE RequestCoherent(t)'
  <2>1. t \in fresh' => t \in fresh /\ runs' = runs
    BY <1>2
  <2> QED
    BY <1>2, <2>1 DEF RequestCoherent, IInv, Coherent
<1> QED
  BY <1>1, <1>2 DEF Coherent
-----------------------------------------------------------------------------
(* The parts of a worker's step.                                           *)

PCs == {"polled", "claimed", "deciding", "tooling", "observed", "releasing"} \cup Writes

LEMMA Busy ==
  ASSUME TypeOK, NEW w \in Workers, worker[w].pc # "idle"
  PROVE  /\ worker[w] # IdleWorker
         /\ worker[w] \in BusyWorkers
         /\ worker[w].run \in Runs /\ worker[w].pc \in PCs
         /\ worker[w].outcome \in {"done", "strict", "terminal"}
         /\ cache[w] \in Workspace
<1>1. worker[w] # IdleWorker
  BY DEF IdleWorker
<1> QED
  BY <1>1 DEF TypeOK, BusyWorkers, PCs

LEMMA Moved ==
  ASSUME TypeOK, NEW w \in Workers, worker[w].pc # "idle", NEW pc \in PCs,
         NEW outcome \in {"done", "strict", "terminal"},
         worker' = [worker EXCEPT ![w] = [@ EXCEPT !.pc = pc, !.outcome = outcome]]
  PROVE  /\ worker' \in [Workers -> {IdleWorker} \cup BusyWorkers]
         /\ worker'[w].pc = pc /\ worker'[w].run = worker[w].run
         /\ worker'[w].outcome = outcome /\ worker'[w] # IdleWorker
         /\ \A v \in Workers : v # w => worker'[v] = worker[v]
<1>1. worker \in [Workers -> {IdleWorker} \cup BusyWorkers]
  BY DEF TypeOK
<1>2. worker[w] \in BusyWorkers
  BY Busy
<1>3. DEFINE moved == [worker[w] EXCEPT !.pc = pc, !.outcome = outcome]
<1>4. moved \in BusyWorkers /\ moved.pc = pc /\ moved.run = worker[w].run /\ moved.outcome = outcome
  BY <1>2 DEF BusyWorkers, PCs
<1>5. pc # "idle"
  BY DEF PCs, Writes
<1> QED
  BY <1>1, <1>4, <1>5 DEF IdleWorker

\* A copy synchronized by the lease check.
LEMMA SyncedCopy ==
  ASSUME IInv, NEW w \in Workers, worker[w].pc # "idle"
  PROVE  /\ Synced(w) \in Workspace
         /\ Follows(runs, Synced(w), worker[w].run)
         /\ \A r \in Runs : Sound(Synced(w)[r])
         /\ Synced(w)[worker[w].run].state \notin Unstarted
<1>1. cache[w] \in Workspace /\ worker[w] # IdleWorker /\ worker[w].run \in Runs
  BY Busy DEF IInv
<1>2. runs \in Workspace /\ \A r \in Runs : Sound(runs[r])
  BY DEF IInv, TypeOK, Coherent
<1>3. runs[worker[w].run].state \notin Unstarted
        /\ (w \in fresh => Follows(runs, cache[w], worker[w].run))
  BY <1>1 DEF IInv, Coherent, WorkerCoherent
<1>4. Follows(runs, Synced(w), worker[w].run) /\ Synced(w) \in Workspace
  BY <1>1, <1>2, <1>3, FollowsSelf DEF Synced
<1> QED
  BY <1>1, <1>3, <1>4 DEF Follows, GoesOn

\* The run of a step in progress is what the step expects, in the synchronized
\* copy and in the committed snapshot.
LEMMA SyncedDue ==
  ASSUME IInv, NEW w \in Workers, lease.holder = w,
         worker[w].pc \in {"claimed", "deciding", "tooling", "observed"}
  PROVE  /\ Due(worker[w].outcome, Synced(w)[worker[w].run])
         /\ Due(worker[w].outcome, runs[worker[w].run])
         /\ worker[w].outcome = "terminal" => worker[w].pc = "observed"
<1>1. worker[w] # IdleWorker /\ worker[w].pc \in Pending
  BY Busy DEF IInv, Pending
<1>2. WorkerCoherent(w)
  BY DEF IInv, Coherent
<1> QED
  BY <1>1, <1>2 DEF WorkerCoherent, WorkDue, Synced

\* Nothing but the copies and the worker's place has changed.
LEMMA KeptSame == ASSUME IInv, UNCHANGED runs PROVE Kept /\ Fenced /\ \A r \in Runs : Sound(runs'[r])
<1>1. \A r \in Runs : runs[r] \in RunRow /\ Sound(runs[r])
  BY DEF IInv, TypeOK, Coherent, Workspace
<1> QED
  BY <1>1, GoesOnSelf DEF Kept, Fenced

\* The claim holder edits its copy.
LEMMA EditKeeps ==
  ASSUME IInv, NEW w \in Workers, worker[w].pc \notin {"idle", "polled"}, lease.holder = w,
         NEW snapshot \in Workspace, Follows(Synced(w), snapshot, worker[w].run),
         NEW pc \in Writes \cup {"observed"}, NEW outcome \in {"done", "strict", "terminal"},
         outcome = "terminal" => pc \in {"write_finish", "observed"},
         pc \in Pending => /\ Due(outcome, snapshot[worker[w].run])
                           /\ Due(IF pc = "write_finish" THEN "done" ELSE outcome, runs[worker[w].run]),
         Edit(w, snapshot, pc, outcome)
  PROVE  IInv' /\ Kept /\ Fenced
<1>1. TypeOK /\ pc \in PCs /\ worker[w].pc # "idle" /\ worker[w] # IdleWorker /\ w \in Actors
  BY Busy DEF IInv, PCs, Actors
<1>2. cache' \in [Actors -> Workspace \cup {Unloaded}] /\ cache'[w] = snapshot
        /\ \A a \in Actors : a # w => cache'[a] = cache[a]
  BY <1>1 DEF Edit, TypeOK
<1>3. /\ worker' \in [Workers -> {IdleWorker} \cup BusyWorkers]
      /\ worker'[w].pc = pc /\ worker'[w].run = worker[w].run /\ worker'[w].outcome = outcome
      /\ \A v \in Workers : v # w => worker'[v] = worker[v]
  <2>1. worker' = [worker EXCEPT ![w] = [@ EXCEPT !.pc = pc, !.outcome = outcome]]
    BY <1>1 DEF Edit, TypeOK
  <2> QED
    BY <1>1, <2>1, Moved
<1>4. TypeOK'
  BY <1>1, <1>2, <1>3 DEF Edit, TypeOK, Actors
<1>5. Kept /\ Fenced /\ \A r \in Runs : Sound(runs'[r])
  BY KeptSame DEF Edit
<1>6. Follows(runs, snapshot, worker[w].run)
  <2>1. runs \in Workspace
    BY <1>1 DEF TypeOK
  <2> QED
    BY <1>1, <2>1, SyncedCopy, FollowsTransitive
<1>7. WorkerCoherent(w)'
  <2>1. WorkerCoherent(w)
    BY DEF IInv, Coherent
  <2> QED
    BY <1>1, <1>2, <1>3, <1>6, <2>1 DEF Edit, WorkerCoherent, WorkDue, Pending
<1>8. Coherent'
  BY <1>1, <1>2, <1>3, <1>5, <1>7, ActsAlone, QuantConstants DEF Edit, Actors, QuantConstants
<1> QED
  BY <1>4, <1>5, <1>8 DEF IInv

\* A refused write: the step is over.
LEMMA ExitKeeps ==
  ASSUME IInv, NEW w \in Workers, Exit(w), faults' \in Nat,
         UNCHANGED <<runs, lease, request, requests>>
  PROVE  IInv' /\ Kept /\ Fenced
<1>1. TypeOK /\ w \in Actors
  BY DEF IInv, Actors
<1>2. /\ worker'[w] = IdleWorker /\ \A v \in Workers : v # w => worker'[v] = worker[v]
      /\ worker' \in [Workers -> {IdleWorker} \cup BusyWorkers]
      /\ \A a \in Actors : a # w => cache'[a] = cache[a]
      /\ cache' \in [Actors -> Workspace \cup {Unloaded}]
  BY <1>1 DEF Exit, Drop, TypeOK
<1>3. TypeOK'
  BY <1>1, <1>2, QuantConstants DEF Exit, TypeOK, Actors, QuantConstants
<1>4. Kept /\ Fenced /\ \A r \in Runs : Sound(runs'[r])
  BY KeptSame
<1>5. WorkerCoherent(w)'
  BY <1>2 DEF WorkerCoherent
<1>6. Coherent'
  BY <1>1, <1>2, <1>4, <1>5, ActsAlone, QuantConstants DEF Exit, Actors, QuantConstants
<1> QED
  BY <1>3, <1>4, <1>6 DEF IInv

\* The step goes on without a commit.
LEMMA GotoKeeps ==
  ASSUME IInv, NEW w \in Workers,
         worker[w].pc \in {"claimed", "deciding", "tooling", "write_tool", "write_stop"},
         NEW pc \in PCs \ Writes, Goto(w, pc), faults' \in Nat, pc # "polled",
         worker[w].pc = "write_stop" => pc = "releasing",
         UNCHANGED <<runs, lease, cache, fresh, request, requests>>
  PROVE  IInv' /\ Kept /\ Fenced
<1>1. TypeOK /\ w \in Actors /\ worker[w] # IdleWorker
  BY Busy DEF IInv, Actors
<1>2. /\ worker' \in [Workers -> {IdleWorker} \cup BusyWorkers]
      /\ worker'[w].pc = pc /\ worker'[w].run = worker[w].run /\ worker'[w].outcome = worker[w].outcome
      /\ \A v \in Workers : v # w => worker'[v] = worker[v]
  <2>1. worker' = [worker EXCEPT ![w] = [@ EXCEPT !.pc = pc, !.outcome = worker[w].outcome]]
    <3>1. worker[w] \in BusyWorkers
      BY <1>1, Busy
    <3>2. [worker[w] EXCEPT !.pc = pc] = [worker[w] EXCEPT !.pc = pc, !.outcome = worker[w].outcome]
      BY <3>1 DEF BusyWorkers
    <3>3. worker' = [worker EXCEPT ![w] = [worker[w] EXCEPT !.pc = pc]]
      BY DEF Goto
    <3> QED
      BY <3>2, <3>3
  <2>2. worker[w].pc # "idle" /\ worker[w].outcome \in {"done", "strict", "terminal"}
    <3>1. worker[w] \in BusyWorkers
      BY <1>1, Busy
    <3> QED
      BY <3>1 DEF BusyWorkers, Writes
  <2> QED
    BY <1>1, <2>1, <2>2, Moved
<1>3. TypeOK'
  BY <1>1, <1>2 DEF TypeOK
<1>4. Kept /\ Fenced /\ \A r \in Runs : Sound(runs'[r])
  BY KeptSame
<1>5. WorkerCoherent(w)'
  <2>1. WorkerCoherent(w)
    BY DEF IInv, Coherent
  <2>2. WorkDue(w, worker[w].pc, worker[w].outcome, worker[w].run)'
    BY <1>1, <1>2, <2>1 DEF WorkerCoherent, WorkDue, Pending, Writes
  <2> QED
    BY <1>1, <1>2, <2>1, <2>2 DEF WorkerCoherent
<1>6. Coherent'
  BY <1>1, <1>2, <1>4, <1>5, ActsAlone, QuantConstants DEF Actors, QuantConstants
<1> QED
  BY <1>3, <1>4, <1>6 DEF IInv

\* A worker's commit goes on from the committed runs, under its own lease.
LEMMA Committed ==
  ASSUME IInv, NEW w \in Workers, worker[w].pc \in Writes, Store(w, cache[w]),
         \A v \in Workers : v # w => worker'[v] = worker[v]
  PROVE  /\ runs' \in Workspace /\ runs' = cache[w] /\ fresh' = {w}
         /\ Kept /\ Fenced /\ \A r \in Runs : Sound(runs'[r])
<1>1. worker[w].pc # "idle" /\ worker[w].pc # "polled"
  BY DEF Writes
<1>2. w \in fresh /\ runs' = cache[w] /\ fresh' = {w}
  BY DEF Store, Storable
<1>3. cache[w] \in Workspace /\ worker[w] # IdleWorker
  BY <1>1, Busy DEF IInv
<1>4. Follows(runs, cache[w], worker[w].run) /\ lease.holder = w /\ lease.run = worker[w].run
  BY <1>1, <1>2, <1>3 DEF IInv, Coherent, WorkerCoherent
<1>5. Kept /\ \A r \in Runs : Sound(runs'[r])
  BY <1>2, <1>4 DEF Kept, Follows
<1>6. Fenced
  BY <1>2, <1>4 DEF Fenced, Follows
<1> QED
  BY <1>2, <1>3, <1>5, <1>6

LEMMA StoreKeeps ==
  ASSUME IInv, NEW w \in Workers, worker[w].pc \in Writes, Store(w, cache[w]),
         NEW pc \in PCs \ Writes, Goto(w, pc), pc # "polled",
         pc \in Pending => worker[w].pc \in Pending,
         worker[w].pc = "write_finish" => pc = "observed",
         UNCHANGED <<lease, cache, request, requests, faults>>
  PROVE  IInv' /\ Kept /\ Fenced
<1>1. TypeOK /\ w \in Actors /\ worker[w] # IdleWorker /\ worker[w].pc \notin {"idle", "polled"}
        /\ cache[w] \in Workspace /\ worker[w].run \in Runs
  BY Busy DEF IInv, Actors, Writes
<1>2. /\ worker' \in [Workers -> {IdleWorker} \cup BusyWorkers]
      /\ worker'[w].pc = pc /\ worker'[w].run = worker[w].run /\ worker'[w].outcome = worker[w].outcome
      /\ \A v \in Workers : v # w => worker'[v] = worker[v]
  <2>1. worker' = [worker EXCEPT ![w] = [@ EXCEPT !.pc = pc, !.outcome = worker[w].outcome]]
    <3>1. worker[w] \in BusyWorkers
      BY <1>1, Busy
    <3>2. [worker[w] EXCEPT !.pc = pc] = [worker[w] EXCEPT !.pc = pc, !.outcome = worker[w].outcome]
      BY <3>1 DEF BusyWorkers
    <3>3. worker' = [worker EXCEPT ![w] = [worker[w] EXCEPT !.pc = pc]]
      BY DEF Goto
    <3> QED
      BY <3>2, <3>3
  <2>2. worker[w].pc # "idle" /\ worker[w].outcome \in {"done", "strict", "terminal"}
    <3>1. worker[w] \in BusyWorkers
      BY <1>1, Busy
    <3> QED
      BY <3>1 DEF BusyWorkers, Writes
  <2> QED
    BY <1>1, <2>1, <2>2, Moved
<1>3. /\ runs' \in Workspace /\ runs' = cache[w] /\ fresh' = {w}
      /\ Kept /\ Fenced /\ \A r \in Runs : Sound(runs'[r])
  BY <1>2, Committed
<1>4. TypeOK'
  BY <1>1, <1>2, <1>3 DEF TypeOK
<1>5. WorkerCoherent(w)'
  <2>1. Follows(runs', cache[w], worker[w].run)
    BY <1>1, <1>3, FollowsSelf
  <2>2. WorkerCoherent(w)
    BY DEF IInv, Coherent
  <2>3. runs'[worker[w].run].state \notin Unstarted
    BY <1>1, <1>3, <2>2 DEF Kept, GoesOn, WorkerCoherent
  <2>4. w \in fresh
    BY DEF Store, Storable
  <2>5. WorkDue(w, worker[w].pc, worker[w].outcome, worker[w].run)'
    BY <1>1, <1>2, <1>3, <2>2, <2>4 DEF WorkerCoherent, WorkDue, Writes
  <2>6. lease'.holder = w => lease'.run = worker[w].run
    BY <1>1, <2>2 DEF WorkerCoherent
  <2>7. worker[w].outcome = "terminal" => pc = "observed"
    BY <1>1, <2>2 DEF WorkerCoherent, Writes
  <2> QED
    BY <1>1, <1>2, <1>3, <2>1, <2>3, <2>5, <2>6, <2>7 DEF WorkerCoherent
<1>6. Coherent'
  <2>1. lease.holder = w
    BY <1>1 DEF Store, Storable, IInv, Coherent, WorkerCoherent
  <2> QED
    BY <1>1, <1>2, <1>3, <1>5, <2>1, ActsAlone, QuantConstants DEF Actors, QuantConstants
<1> QED
  BY <1>3, <1>4, <1>6 DEF IInv

LEMMA FaultsCounted ==
  ASSUME IInv, NEW a \in Actors, WriteFails(a)
  PROVE  faults' \in Nat
  BY DEF IInv, TypeOK, WriteFails
-----------------------------------------------------------------------------
(* The worker's actions.                                                   *)

LEMMA StateNames ==
  /\ {"waiting", "running", "generating", "repairing", "completed", "failed", "cancelled", "none"}
       \subseteq RunStates
  /\ {"waiting", "running"} = Starts
  BY DEF RunStates, Terminal, Starts

LEMMA PollKeeps ==
  ASSUME IInv, NEW w \in Workers, Poll(w)
  PROVE  IInv' /\ Kept /\ Fenced
<1>1. TypeOK /\ w \in Actors /\ runs \in Workspace
  BY DEF IInv, TypeOK, Actors
<1>2. PICK r \in Runs :
        /\ runs[r].state = "running"
        /\ worker' = [worker EXCEPT ![w] = [pc |-> "polled", run |-> r, outcome |-> "done"]]
  BY DEF Poll, Pollable
<1>3. [pc |-> "polled", run |-> r, outcome |-> "done"] \in BusyWorkers
  BY DEF BusyWorkers
<1>4. /\ worker' \in [Workers -> {IdleWorker} \cup BusyWorkers]
      /\ worker'[w].pc = "polled" /\ worker'[w].run = r /\ worker'[w].outcome = "done"
      /\ \A v \in Workers : v # w => worker'[v] = worker[v]
      /\ cache' \in [Actors -> Workspace \cup {Unloaded}] /\ cache'[w] = runs
      /\ \A a \in Actors : a # w => cache'[a] = cache[a]
  BY <1>1, <1>2, <1>3 DEF Poll, TypeOK
<1>5. TypeOK'
  BY <1>1, <1>4, QuantConstants DEF Poll, TypeOK, Actors, QuantConstants
<1>6. Kept /\ Fenced /\ \A q \in Runs : Sound(runs'[q])
  BY KeptSame DEF Poll
<1>7. WorkerCoherent(w)'
  <2>1. Follows(runs, runs, r)
    BY <1>1, FollowsSelf DEF IInv, Coherent
  <2>2. "polled" \notin Writes
    BY DEF Writes
  <2>3. Due("done", runs[r])
    BY <1>2 DEF IInv, Coherent, Sound, Due, Underway, Finished
  <2>4. runs[r].state \notin Unstarted
    BY <1>2 DEF Unstarted
  <2> QED
    BY <1>2, <1>4, <2>1, <2>2, <2>3, <2>4 DEF Poll, WorkerCoherent, WorkDue
<1>8. Coherent'
  BY <1>1, <1>4, <1>6, <1>7, ActsAlone, QuantConstants DEF Poll, Actors, QuantConstants
<1> QED
  BY <1>5, <1>6, <1>8 DEF IInv

LEMMA ClaimKeeps ==
  ASSUME IInv, NEW w \in Workers, Claim(w)
  PROVE  IInv' /\ Kept /\ Fenced
<1>1. TypeOK /\ w \in Actors /\ worker[w].pc = "polled" /\ worker[w].pc # "idle"
        /\ worker[w] # IdleWorker /\ worker[w].run \in Runs
  BY Busy DEF IInv, Actors, Claim
<1>2. CASE Storable(w) /\ ~lease.live
  <2>1. /\ lease' = [holder |-> w, run |-> worker[w].run, live |-> TRUE]
        /\ fresh' = {w} /\ Goto(w, "claimed") /\ w \in fresh
        /\ UNCHANGED <<cache, runs, request, requests, faults>>
    BY <1>2 DEF Claim, Storable
  <2>2. /\ worker' \in [Workers -> {IdleWorker} \cup BusyWorkers]
        /\ worker'[w].pc = "claimed" /\ worker'[w].run = worker[w].run
        /\ worker'[w].outcome = worker[w].outcome
        /\ \A v \in Workers : v # w => worker'[v] = worker[v]
    <3>1. worker' = [worker EXCEPT ![w] = [@ EXCEPT !.pc = "claimed", !.outcome = worker[w].outcome]]
      BY <1>1, <2>1, Busy DEF Goto, TypeOK, BusyWorkers
    <3> QED
      BY <1>1, <3>1, Moved, Busy DEF PCs
  <2>3. TypeOK'
    BY <1>1, <2>1, <2>2 DEF TypeOK, Actors
  <2>4. Kept /\ Fenced /\ \A q \in Runs : Sound(runs'[q])
    BY <2>1, KeptSame
  <2>5. WorkerCoherent(w)'
    <3>1. WorkerCoherent(w)
      BY DEF IInv, Coherent
    <3>2. Due(worker[w].outcome, cache[w][worker[w].run]) /\ worker[w].outcome # "terminal"
      BY <1>1, <2>1, <3>1 DEF WorkerCoherent, WorkDue, Pending
    <3>3. GoesOn(runs[worker[w].run], cache[w][worker[w].run])
      BY <1>1, <2>1, <3>1 DEF WorkerCoherent, Follows
    <3>4. runs[worker[w].run] \in RunRow /\ cache[w][worker[w].run] \in RunRow
      BY <1>1, Busy DEF TypeOK, Workspace
    <3>5. Due(worker[w].outcome, runs[worker[w].run])
      BY <3>2, <3>3, <3>4, RowType, QuantConstants DEF GoesOn, Due, QuantConstants
    <3> QED
      BY <1>1, <2>1, <2>2, <3>1, <3>2, <3>5 DEF WorkerCoherent, WorkDue, Pending, Writes
  <2>6. Coherent'
    BY <1>1, <2>1, <2>2, <2>4, <2>5, ActsAlone, QuantConstants DEF Actors, QuantConstants
  <2> QED
    BY <2>3, <2>4, <2>6 DEF IInv
<1>3. CASE ~(Storable(w) /\ ~lease.live)
  BY <1>1, <1>3, ExitKeeps DEF Claim, TypeOK
<1> QED
  BY <1>2, <1>3

LEMMA HeartbeatKeeps ==
  ASSUME IInv, NEW w \in Workers, Heartbeat(w) \/ Refuse(w) \/ ToolRefused(w) \/ CompletionRefused(w)
  PROVE  IInv' /\ Kept /\ Fenced
<1>1. faults \in Nat /\ {"deciding", "releasing", "observed"} \subseteq PCs \ (Writes \cup {"polled"})
  BY DEF IInv, TypeOK, PCs, Writes
<1>2. CASE Heartbeat(w)
  BY <1>1, <1>2, GotoKeeps, ExitKeeps DEF Heartbeat
<1>3. CASE Refuse(w)
  BY <1>1, <1>3, GotoKeeps, ExitKeeps DEF Refuse
<1>4. CASE ToolRefused(w)
  BY <1>1, <1>4, GotoKeeps DEF ToolRefused
<1>5. CASE CompletionRefused(w)
  BY <1>1, <1>5, ExitKeeps DEF CompletionRefused
<1> QED
  BY <1>2, <1>3, <1>4, <1>5

LEMMA ReleaseKeeps ==
  ASSUME IInv, NEW w \in Workers, Release(w)
  PROVE  IInv' /\ Kept /\ Fenced
<1>1. TypeOK /\ w \in Actors /\ faults' \in Nat
  BY DEF IInv, TypeOK, Actors, Release
<1>2. CASE lease.holder = w
  <2>1. /\ worker'[w] = IdleWorker /\ \A v \in Workers : v # w => worker'[v] = worker[v]
        /\ worker' \in [Workers -> {IdleWorker} \cup BusyWorkers]
        /\ \A a \in Actors : a # w => cache'[a] = cache[a]
        /\ cache' \in [Actors -> Workspace \cup {Unloaded}]
    BY <1>1 DEF Release, Drop, TypeOK
  <2>2. TypeOK'
    BY <1>1, <1>2, <2>1, QuantConstants DEF Release, TypeOK, Actors, QuantConstants
  <2>3. Kept /\ Fenced /\ \A q \in Runs : Sound(runs'[q])
    BY KeptSame DEF Release
  <2>4. WorkerCoherent(w)'
    BY <2>1 DEF WorkerCoherent
  <2>5. Coherent'
    BY <1>1, <1>2, <2>1, <2>3, <2>4, ActsAlone, QuantConstants DEF Release, NoLease, Actors, QuantConstants
  <2> QED
    BY <2>2, <2>3, <2>5 DEF IInv
<1>3. CASE lease.holder # w
  BY <1>1, <1>3, ExitKeeps DEF Release, Exit
<1> QED
  BY <1>2, <1>3

LEMMA CrashKeeps ==
  ASSUME IInv, NEW w \in Workers, Crash(w)
  PROVE  IInv' /\ Kept /\ Fenced
<1>1. faults' \in Nat
  BY DEF IInv, TypeOK, Crash
<1> QED
  BY <1>1, ExitKeeps DEF Crash

LEMMA WriteKeeps ==
  ASSUME IInv, NEW w \in Workers,
         WriteDecision(w) \/ WriteFailure(w) \/ WriteStep(w) \/ WriteScript(w) \/ WriteStop(w) \/ WriteTool(w)
  PROVE  IInv' /\ Kept /\ Fenced
<1>1. w \in Actors /\ {"tooling", "releasing", "observed"} \subseteq PCs \ (Writes \cup {"polled"})
        /\ {"write_decision", "write_failure", "write_step", "write_script", "write_stop", "write_tool"}
              \subseteq Writes
        /\ faults \in Nat /\ "idle" \notin Writes /\ "polled" \notin Writes
  BY DEF Actors, PCs, Writes, IInv, TypeOK
<1>2. ASSUME NEW pc \in Writes, NEW next \in PCs \ (Writes \cup {"polled"}),
             next \in Pending => pc \in Pending, pc # "write_finish", WriteOrRaise(w, pc, next)
      PROVE  IInv' /\ Kept /\ Fenced
  BY <1>1, <1>2, StoreKeeps, ExitKeeps, FaultsCounted DEF WriteOrRaise
<1>3. CASE WriteDecision(w) \/ WriteFailure(w) \/ WriteStep(w)
  BY <1>1, <1>2, <1>3 DEF WriteDecision, WriteFailure, WriteStep, Pending
<1>4. CASE WriteScript(w)
  BY <1>1, <1>2, <1>4, ExitKeeps DEF WriteScript, Pending
<1>5. CASE WriteStop(w)
  BY <1>1, <1>5, StoreKeeps, GotoKeeps, FaultsCounted DEF WriteStop, Pending
<1>6. CASE WriteTool(w)
  BY <1>1, <1>6, StoreKeeps, GotoKeeps, FaultsCounted DEF WriteTool, Pending
<1> QED
  BY <1>3, <1>4, <1>5, <1>6
-----------------------------------------------------------------------------
(* What one step of a worker does to its run.                              *)

\* A row the step may write over the run it works on.
Legal(old, new) == new \in RunRow /\ Sound(new) /\ GoesOn(old, new)

\* A run that a step may still work on.
Workable(row) == row \in RunRow /\ Sound(row) /\ Due("done", row) /\ row.state \notin Unstarted

LEMMA Unmarked ==
  ASSUME NEW row, Workable(row)
  PROVE  /\ Legal(row, [row EXCEPT !.marked = FALSE])
         /\ Due("done", [row EXCEPT !.marked = FALSE])
<1>1. row \in RunRow
  BY DEF Workable
<1>2. [row EXCEPT !.marked = FALSE] \in RunRow
  BY <1>1 DEF RunRow
<1> QED
  BY <1>1, <1>2, RowType DEF Workable, Legal, RunRow, Sound, GoesOn, Due

\* The last state of a run: nothing else is asked of a row that ends.
LEMMA Ended ==
  ASSUME NEW row, Workable(row), NEW state \in Finished, NEW marked \in BOOLEAN,
         NEW iteration \in Nat, row.iteration <= iteration, iteration <= MaxIterations,
         NEW failures \in Nat
  PROVE  Legal(row, [row EXCEPT !.state = state, !.marked = marked,
                                !.iteration = iteration, !.failures = failures])
<1> DEFINE new == [row EXCEPT !.state = state, !.marked = marked,
                              !.iteration = iteration, !.failures = failures]
<1>1. row \in RunRow /\ Sound(row) /\ row.state \notin Finished /\ row.state \notin Unstarted
  BY DEF Workable, Due
<1>2. new \in RunRow
  BY <1>1 DEF RunRow, RunStates, Terminal, Finished
<1>3. Sound(new)
  BY <1>1 DEF RunRow, Sound, Finished, Unstarted, Underway
<1>4. GoesOn(row, new)
  BY <1>1 DEF RunRow, GoesOn, Finished, Unstarted
<1> QED
  BY <1>2, <1>3, <1>4 DEF Legal

LEMMA FailureCounted ==
  ASSUME NEW row, Workable(row), NEW new \in ProviderFailure(row)
  PROVE  Legal(row, new)
<1> DEFINE counted == [row EXCEPT !.iteration = @ + 1, !.failures = @ + 1, !.marked = FALSE]
           failed  == [counted EXCEPT !.state = "failed"]
<1>1. row \in RunRow /\ Sound(row) /\ row.iteration < MaxIterations
        /\ row.state \notin Finished \cup Unstarted
  BY DEF Workable, Due
<1>2. /\ row.iteration \in Nat /\ row.failures \in Nat /\ MaxIterations \in Nat
      /\ row.iteration + 1 \in Nat /\ row.failures + 1 \in Nat
      /\ row.iteration <= row.iteration + 1 /\ row.iteration + 1 <= MaxIterations
  BY <1>1, RowType, QuantConstants DEF QuantConstants
<1>3. Legal(row, failed)
  <2>1. failed = [row EXCEPT !.state = "failed", !.marked = FALSE,
                             !.iteration = row.iteration + 1, !.failures = row.failures + 1]
    BY <1>1 DEF RunRow
  <2> QED
    BY <1>2, <2>1, Ended DEF Finished
<1>4. ASSUME row.iteration + 1 < MaxIterations  PROVE Legal(row, counted)
  <2>1. counted \in RunRow
    BY <1>1, <1>2 DEF RunRow
  <2>2. Sound(counted)
    BY <1>1, <1>2, <1>4 DEF RunRow, Sound, Unstarted, Underway
  <2>3. GoesOn(row, counted)
    BY <1>1, <1>2 DEF RunRow, GoesOn
  <2> QED
    BY <2>1, <2>2, <2>3 DEF Legal
<1>5. counted.iteration = row.iteration + 1
  BY <1>1 DEF RunRow
<1>6. new = failed \/ (new = counted /\ row.iteration + 1 < MaxIterations)
  BY <1>2, <1>5 DEF ProviderFailure
<1> QED
  BY <1>3, <1>4, <1>6

\* A tool stays within the budgets and leaves the run workable.
LEMMA ToolUsed ==
  ASSUME NEW row, Workable(row),
         NEW new \in Create(row) \cup Revise(row) \cup Backtest(row) \cup Compare(row)
  PROVE  Legal(row, new) /\ Due("done", new)
<1>1. row \in RunRow /\ Sound(row) /\ row.iteration < MaxIterations
        /\ row.state \notin Finished \cup Unstarted
  BY DEF Workable, Due
<1>2. row.iteration \in Nat /\ row.used \in Nat /\ row.repairs \in Nat /\ row.tested \in Nat
        /\ row.used + 1 \in Nat /\ row.repairs + 1 \in Nat
        /\ {MaxIterations, MaxExperiments, MaxRepairs} \subseteq Nat
  BY <1>1, RowType, QuantConstants DEF QuantConstants
<1>3. CASE new \in Create(row)
  <2>1. row.used < MaxExperiments /\ new = [row EXCEPT !.used = @ + 1, !.state = "generating"]
    BY <1>3 DEF Create
  <2>2. new \in RunRow
    BY <1>1, <1>2, <2>1, StateNames DEF RunRow
  <2> QED
    BY <1>1, <1>2, <2>1, <2>2 DEF Legal, Due, RunRow, Sound, GoesOn, Unstarted, Underway, Finished
<1>4. CASE new \in Revise(row)
  <2>1. PICK n \in Tested(row) :
          /\ row.repairs < MaxRepairs
          /\ new = [row EXCEPT !.repairs = @ + 1, !.tested = n, !.state = "repairing"]
    BY <1>4 DEF Revise
  <2>2. n \in Nat /\ n <= row.tested
    BY <1>2, <2>1 DEF Tested
  <2>3. new \in RunRow
    BY <1>1, <1>2, <2>1, <2>2, StateNames DEF RunRow
  <2> QED
    BY <1>1, <1>2, <2>1, <2>2, <2>3 DEF Legal, Due, RunRow, Sound, GoesOn, Unstarted, Underway, Finished
<1>5. CASE new \in Backtest(row)
  <2>1. PICK n \in {row.tested, row.tested + 1} :
          /\ row.tested < row.used + row.repairs
          /\ new = [row EXCEPT !.tested = n, !.state = "running"]
    BY <1>5 DEF Backtest
  <2>2. n \in Nat /\ n <= row.used + row.repairs
    BY <1>2, <2>1
  <2>3. new \in RunRow
    BY <1>1, <1>2, <2>1, <2>2, StateNames DEF RunRow
  <2> QED
    BY <1>1, <1>2, <2>1, <2>2, <2>3 DEF Legal, Due, RunRow, Sound, GoesOn, Unstarted, Underway, Finished
<1>6. CASE new \in Compare(row)
  BY <1>1, <1>6, GoesOnSelf DEF Compare, Legal, Workable
<1> QED
  BY <1>3, <1>4, <1>5, <1>6

\* complete_agent_step: within the budget, and a finished run stays finished.
LEMMA StepCompleted ==
  ASSUME NEW row \in RunRow, Sound(row), NEW outcome \in {"done", "strict", "terminal"},
         Due(outcome, row), row.state \notin Unstarted
  PROVE  Legal(row, Completed(row, outcome))
<1> DEFINE new == Completed(row, outcome)
<1>1. /\ row.iteration \in Nat /\ row.failures \in Nat /\ MaxIterations \in Nat
      /\ row.used \in Nat /\ row.repairs \in Nat /\ row.tested \in Nat
      /\ row.state \in RunStates /\ row.iteration < MaxIterations /\ row.iteration + 1 \in Nat
  BY RowType, QuantConstants DEF Due, QuantConstants
<1>2. /\ new.iteration = row.iteration + 1 /\ new.failures = 0
      /\ new.used = row.used /\ new.repairs = row.repairs /\ new.tested = row.tested
      /\ new.child = row.child /\ new.kind = row.kind
  BY DEF Completed, RunRow
<1>3. new \in RunRow
  <2>1. \A state \in RunStates, marked \in BOOLEAN :
          [row EXCEPT !.iteration = row.iteration + 1, !.failures = 0,
                      !.state = state, !.marked = marked] \in RunRow
    BY <1>1 DEF RunRow
  <2>2. \E state \in RunStates, marked \in BOOLEAN :
          new = [row EXCEPT !.iteration = row.iteration + 1, !.failures = 0,
                            !.state = state, !.marked = marked]
    BY <1>1, StateNames, Zenon DEF Completed
  <2> QED
    BY <2>1, <2>2
<1>4. \/ new.state = "failed" /\ row.state \notin Finished
      \/ new.state = row.state /\ row.state \in Terminal
      \/ new.state = "running" /\ row.state \notin Finished /\ row.iteration + 1 < MaxIterations
  BY <1>1 DEF Completed, RunRow, Due, Terminal, Finished
<1>5. Sound(new)
  BY <1>1, <1>2, <1>4 DEF Sound, Unstarted, Underway, Terminal
<1>6. GoesOn(row, new)
  BY <1>1, <1>2, <1>4 DEF GoesOn, Unstarted, Finished, Terminal
<1> QED
  BY <1>3, <1>5, <1>6 DEF Legal
-----------------------------------------------------------------------------
(* The worker's edits.                                                     *)

\* The run of a step that holds the lease.
LEMMA AtWork ==
  ASSUME IInv, NEW w \in Workers, lease.holder = w,
         worker[w].pc \in {"deciding", "tooling"}
  PROVE  /\ Synced(w) \in Workspace /\ worker[w].run \in Runs
         /\ Workable(Synced(w)[worker[w].run])
         /\ Due("done", runs[worker[w].run])
<1>1. worker[w].run \in Runs /\ worker[w].pc # "idle"
  BY Busy DEF IInv
<1>2. /\ Synced(w) \in Workspace /\ \A r \in Runs : Sound(Synced(w)[r])
      /\ Synced(w)[worker[w].run].state \notin Unstarted
  BY <1>1, SyncedCopy
<1>3. /\ Due(worker[w].outcome, Synced(w)[worker[w].run])
      /\ Due(worker[w].outcome, runs[worker[w].run])
      /\ worker[w].outcome # "terminal"
  BY SyncedDue
<1> QED
  BY <1>1, <1>2, <1>3 DEF Workable, Due, Workspace

\* A step that writes a legal row over its run.
LEMMA RowEdited ==
  ASSUME IInv, NEW w \in Workers, lease.holder = w,
         worker[w].pc \in {"deciding", "tooling", "observed"},
         NEW row, Legal(Synced(w)[worker[w].run], row),
         NEW pc \in Writes \ {"write_finish"}, pc \in Pending => Due("done", row) /\ Due("done", runs[worker[w].run]),
         Edit(w, [Synced(w) EXCEPT ![worker[w].run] = row], pc, "done")
  PROVE  IInv' /\ Kept /\ Fenced
<1> DEFINE edited == [Synced(w) EXCEPT ![worker[w].run] = row]
<1>1. worker[w].run \in Runs /\ worker[w].pc # "idle" /\ worker[w].pc # "polled"
  BY Busy DEF IInv
<1>2. Synced(w) \in Workspace /\ \A r \in Runs : Sound(Synced(w)[r])
  BY <1>1, SyncedCopy
<1>3. row \in RunRow /\ Sound(row) /\ GoesOn(Synced(w)[worker[w].run], row)
  BY DEF Legal
<1>4. edited \in Workspace /\ edited[worker[w].run] = row
  BY <1>1, <1>2, <1>3, WriteRow
<1>5. Follows(Synced(w), edited, worker[w].run)
  BY <1>1, <1>2, <1>3, FollowsRow
<1> HIDE DEF edited
<1> QED
  BY <1>1, <1>4, <1>5, EditKeeps DEF edited

LEMMA DecideKeeps ==
  ASSUME IInv, NEW w \in Workers, Decide(w)
  PROVE  IInv' /\ Kept /\ Fenced
<1> DEFINE x == worker[w].run
           row == Synced(w)[x]
<1>1. /\ lease.holder = w /\ worker[w].pc = "deciding"
      /\ {"write_decision", "write_failure", "write_stop"} \subseteq Writes \ {"write_finish"}
      /\ {"write_failure", "write_stop"} \cap Pending = {}
  BY DEF Decide, Writable, Current, Writes, Pending
<1>2. Synced(w) \in Workspace /\ x \in Runs /\ Workable(row) /\ Due("done", runs[x])
  BY <1>1, AtWork
<1>3. CASE Edit(w, [Synced(w) EXCEPT ![x].marked = FALSE], "write_decision", "done")
  <2>1. Edit(w, [Synced(w) EXCEPT ![x] = [row EXCEPT !.marked = FALSE]], "write_decision", "done")
    BY <1>2, <1>3 DEF Workspace
  <2> QED
    BY <1>1, <1>2, <2>1, Unmarked, RowEdited
<1>4. CASE \E new \in ProviderFailure(row) :
             Edit(w, [Synced(w) EXCEPT ![x] = new], "write_failure", "done")
  BY <1>1, <1>2, <1>4, FailureCounted, RowEdited
<1>5. CASE Edit(w, [Synced(w) EXCEPT ![x].state = "failed", ![x].marked = FALSE,
                                     ![x].iteration = Least(@ + 1, MaxIterations)],
                "write_stop", "done")
  <2>1. row \in RunRow /\ row.iteration \in Nat /\ row.failures \in Nat /\ MaxIterations \in Nat
          /\ row.iteration < MaxIterations
    BY <1>2, RowType, QuantConstants DEF Workable, Due, QuantConstants
  <2>2. Least(row.iteration + 1, MaxIterations) = row.iteration + 1
          /\ row.iteration + 1 \in Nat /\ row.iteration <= row.iteration + 1
          /\ row.iteration + 1 <= MaxIterations
    BY <2>1 DEF Least
  <2>3. Legal(row, [row EXCEPT !.state = "failed", !.marked = FALSE,
                               !.iteration = row.iteration + 1, !.failures = row.failures])
    BY <1>2, <2>1, <2>2, Ended DEF Finished
  <2>4. [Synced(w) EXCEPT ![x].state = "failed", ![x].marked = FALSE,
                          ![x].iteration = Least(@ + 1, MaxIterations)]
          = [Synced(w) EXCEPT ![x] = [row EXCEPT !.state = "failed", !.marked = FALSE,
                                         !.iteration = row.iteration + 1, !.failures = row.failures]]
    BY <1>2, <2>1, <2>2 DEF Workspace, RunRow
  <2> QED
    BY <1>1, <1>5, <2>3, <2>4, RowEdited
<1> QED
  BY <1>3, <1>4, <1>5 DEF Decide

LEMMA RunScriptKeeps ==
  ASSUME IInv, NEW w \in Workers, RunScript(w)
  PROVE  IInv' /\ Kept /\ Fenced
<1> DEFINE x == worker[w].run
           row == Synced(w)[x]
<1>1. /\ lease.holder = w /\ worker[w].pc = "deciding"
      /\ "write_script" \in Writes \ {"write_finish"} /\ "write_script" \notin Pending
  BY DEF RunScript, Writable, Current, Writes, Pending
<1>2. Synced(w) \in Workspace /\ x \in Runs /\ Workable(row)
  BY <1>1, AtWork
<1>3. PICK state \in Finished : Edit(w, [Synced(w) EXCEPT ![x].state = state], "write_script", "done")
  BY DEF RunScript, Finished
<1>4. row \in RunRow /\ row.iteration \in Nat /\ row.failures \in Nat /\ row.marked \in BOOLEAN
        /\ row.iteration <= row.iteration /\ row.iteration <= MaxIterations
  BY <1>2, RowType DEF Workable, Sound
<1>5. Legal(row, [row EXCEPT !.state = state, !.marked = row.marked,
                             !.iteration = row.iteration, !.failures = row.failures])
  BY <1>2, <1>4, Ended
<1>6. [Synced(w) EXCEPT ![x].state = state]
        = [Synced(w) EXCEPT ![x] = [row EXCEPT !.state = state, !.marked = row.marked,
                                       !.iteration = row.iteration, !.failures = row.failures]]
  BY <1>2, <1>4 DEF Workspace, RunRow
<1> QED
  BY <1>1, <1>3, <1>5, <1>6, RowEdited
\* Linking a run to its new child.
LEMMA Linked ==
  ASSUME NEW row \in RunRow, Sound(row), row.child = Nobody, row.state # "none", NEW c \in Runs
  PROVE  Legal(row, [row EXCEPT !.child = c])
<1>1. [row EXCEPT !.child = c] \in RunRow
  BY DEF RunRow
<1> QED
  BY <1>1, RowType DEF Legal, RunRow, Sound, GoesOn

\* finish_agent_research, with or without its follow-up run.
LEMMA FinishFollows ==
  ASSUME NEW s \in Workspace, \A r \in Runs : Sound(s[r]), NEW x \in Runs, Workable(s[x]),
         NEW edited \in Finish(s, x)
  PROVE  edited \in Workspace /\ Follows(s, edited, x) /\ Due("terminal", edited[x])
<1> DEFINE row == [s[x] EXCEPT !.state = "completed", !.marked = FALSE]
           finished == [s EXCEPT ![x] = row]
<1>1. /\ s[x] \in RunRow /\ s[x].iteration \in Nat /\ s[x].failures \in Nat /\ Sound(s[x])
      /\ s[x].iteration < MaxIterations /\ MaxIterations \in Nat /\ s[x].state \notin Unstarted
  BY RowType, QuantConstants DEF Workable, Due, QuantConstants
<1>2. Legal(s[x], row) /\ row.state = "completed" /\ row.iteration = s[x].iteration
        /\ row.child = s[x].child
  <2>1. row = [s[x] EXCEPT !.state = "completed", !.marked = FALSE,
                           !.iteration = s[x].iteration, !.failures = s[x].failures]
    BY <1>1 DEF RunRow
  <2>2. s[x].iteration <= s[x].iteration /\ s[x].iteration <= MaxIterations
    BY <1>1
  <2>3. Legal(s[x], [s[x] EXCEPT !.state = "completed", !.marked = FALSE,
                                 !.iteration = s[x].iteration, !.failures = s[x].failures])
    BY <1>1, <2>2, Ended DEF Finished
  <2>4. Legal(s[x], row)
    BY <2>1, <2>3
  <2> QED
    BY <1>1, <2>4 DEF RunRow
<1>3. CASE edited = [s EXCEPT ![x].state = "completed", ![x].marked = FALSE]
  <2>1. edited = finished
    BY <1>1, <1>3 DEF Workspace
  <2>2. row \in RunRow /\ Sound(row) /\ GoesOn(s[x], row)
    BY <1>2 DEF Legal
  <2> HIDE DEF row
  <2>3. finished \in Workspace /\ finished[x] = row
    BY <2>2, WriteRow
  <2>4. Follows(s, finished, x)
    BY <2>2, FollowsRow
  <2> QED
    BY <1>1, <1>2, <2>1, <2>3, <2>4 DEF Due
<1>4. CASE edited # [s EXCEPT ![x].state = "completed", ![x].marked = FALSE]
  <2>1. PICK c \in Unused(s), state \in Starts :
          /\ s[x].child = Nobody
          /\ edited = [[s EXCEPT ![x].state = "completed", ![x].marked = FALSE]
                          EXCEPT ![x].child = c, ![c] = NewRun(state, "follow_up")]
    BY <1>4 DEF Finish
  <2> DEFINE linked == [row EXCEPT !.child = c]
             copy   == [s EXCEPT ![x] = linked]
             new    == NewRun(state, "follow_up")
  <2>2. c \in Runs /\ s[c].state = "none" /\ c # x
    BY <1>1 DEF Unused, Unstarted
  <2>3. Legal(s[x], linked) /\ linked.state = "completed" /\ linked.iteration = s[x].iteration
    <3>1. row \in RunRow /\ Sound(row) /\ row.child = Nobody /\ row.state # "none"
      BY <1>2, <2>1 DEF Legal
    <3>2. Legal(row, linked)
      BY <2>2, <3>1, Linked
    <3>3. GoesOn(s[x], linked) /\ linked \in RunRow /\ Sound(linked)
      BY <1>1, <1>2, <3>1, <3>2, GoesOnTransitive DEF Legal
    <3> QED
      BY <1>2, <3>1, <3>3 DEF Legal, RunRow
  <2>4. linked \in RunRow /\ Sound(linked) /\ GoesOn(s[x], linked)
    BY <2>3 DEF Legal
  <2>5. edited = [copy EXCEPT ![c] = new]
    BY <1>1, <2>1, <2>2 DEF Workspace, RunRow
  <2> HIDE DEF new, linked
  <2>6. copy \in Workspace /\ copy[x] = linked /\ copy[c] = s[c] /\ Follows(s, copy, x)
    BY <2>2, <2>4, WriteRow, FollowsRow
  <2>7. (\A r \in Runs : Sound(copy[r])) /\ new \in RunRow /\ Sound(new)
    BY <2>6, NewRunRow DEF Follows, Starts, new
  <2> HIDE DEF copy
  <2>8. [copy EXCEPT ![c] = new] \in Workspace /\ [copy EXCEPT ![c] = new][x] = linked
    BY <2>2, <2>6, <2>7, WriteRow
  <2>9. Follows(copy, edited, x)
    BY <2>2, <2>5, <2>6, <2>7, FollowsNew
  <2>10. Follows(s, edited, x)
    BY <2>5, <2>6, <2>8, <2>9, FollowsTransitive
  <2> QED
    BY <1>1, <2>3, <2>5, <2>8, <2>10 DEF Due
<1> QED
  BY <1>3, <1>4

LEMMA UseToolKeeps ==
  ASSUME IInv, NEW w \in Workers, UseTool(w)
  PROVE  IInv' /\ Kept /\ Fenced
<1> DEFINE x == worker[w].run
           row == Synced(w)[x]
<1>1. /\ lease.holder = w /\ worker[w].pc = "tooling"
      /\ "write_tool" \in Writes \ {"write_finish"} /\ "write_finish" \in Writes
      /\ "observed" \notin Writes
  BY DEF UseTool, Writable, Current, Writes
<1>2. Synced(w) \in Workspace /\ x \in Runs /\ Workable(row) /\ Due("done", runs[x])
  BY <1>1, AtWork
<1>3. \A r \in Runs : Sound(Synced(w)[r])
  BY <1>1, SyncedCopy
<1>4. CASE \E edited \in Create(row) \cup Revise(row) \cup Backtest(row) \cup Compare(row) :
             Edit(w, [Synced(w) EXCEPT ![x] = edited], "write_tool", "done")
  BY <1>1, <1>2, <1>4, ToolUsed, RowEdited
<1>5. CASE \E edited \in Finish(Synced(w), x) : Edit(w, edited, "write_finish", "terminal")
  <2>1. PICK edited \in Finish(Synced(w), x) : Edit(w, edited, "write_finish", "terminal")
    BY <1>5
  <2>2. edited \in Workspace /\ Follows(Synced(w), edited, x) /\ Due("terminal", edited[x])
    BY <1>2, <1>3, FinishFollows
  <2> QED
    BY <1>1, <1>2, <2>1, <2>2, EditKeeps
<1>6. CASE \E outcome \in {"done", "strict"} : Edit(w, Synced(w), "observed", outcome)
  <2>1. PICK outcome \in {"done", "strict"} : Edit(w, Synced(w), "observed", outcome)
    BY <1>6
  <2>2. Follows(Synced(w), Synced(w), x)
    BY <1>2, <1>3, FollowsSelf
  <2>3. Due(outcome, row) /\ Due(outcome, runs[x])
    BY <1>2 DEF Workable, Due
  <2> QED
    BY <1>1, <1>2, <2>1, <2>2, <2>3, EditKeeps
<1> QED
  BY <1>4, <1>5, <1>6 DEF UseTool

LEMMA CompleteStepKeeps ==
  ASSUME IInv, NEW w \in Workers, CompleteStep(w)
  PROVE  IInv' /\ Kept /\ Fenced
<1> DEFINE x == worker[w].run
           row == Synced(w)[x]
<1>1. /\ lease.holder = w /\ worker[w].pc = "observed" /\ worker[w].pc # "idle"
      /\ "write_step" \in Writes \ {"write_finish"} /\ "write_step" \notin Pending
  BY DEF CompleteStep, Current, Writes, Pending
<1>2. /\ x \in Runs /\ Synced(w) \in Workspace /\ Sound(row) /\ row.state \notin Unstarted
      /\ worker[w].outcome \in {"done", "strict", "terminal"}
  BY <1>1, Busy, SyncedCopy DEF IInv
<1>3. row \in RunRow /\ Due(worker[w].outcome, row)
  BY <1>1, <1>2, SyncedDue DEF Workspace
<1>4. Legal(row, Completed(row, worker[w].outcome))
  BY <1>2, <1>3, StepCompleted
<1>5. Edit(w, [Synced(w) EXCEPT ![x] = Completed(row, worker[w].outcome)], "write_step", "done")
  BY <1>2 DEF CompleteStep, Workspace
<1> QED
  BY <1>1, <1>4, <1>5, RowEdited

LEMMA WriteFinishKeeps ==
  ASSUME IInv, NEW w \in Workers, WriteFinish(w)
  PROVE  IInv' /\ Kept /\ Fenced
<1>1. TypeOK /\ w \in Actors /\ worker[w].pc = "write_finish" /\ worker[w].pc # "idle"
        /\ "observed" \in PCs \ Writes /\ "observed" \in Pending
        /\ worker[w].pc \in Writes \cap Pending
  BY DEF IInv, Actors, WriteFinish, PCs, Writes, Pending
<1>2. worker[w] # IdleWorker /\ worker[w].run \in Runs /\ runs \in Workspace
  BY <1>1, Busy DEF TypeOK
<1>3. CASE Store(w, cache[w]) /\ Goto(w, "observed") /\ UNCHANGED <<cache, faults>>
  BY <1>1, <1>3, StoreKeeps DEF WriteFinish
<1>4. CASE /\ WriteFails(w) /\ UNCHANGED runs
           /\ cache' = [cache EXCEPT ![w] = runs] /\ fresh' = fresh \cup {w}
           /\ worker' = [worker EXCEPT ![w].pc = "observed", ![w].outcome = "done"]
  <2>1. UNCHANGED <<runs, lease, request, requests>> /\ faults' \in Nat
    BY <1>1, <1>4, FaultsCounted DEF WriteFinish
  <2>2. /\ worker' \in [Workers -> {IdleWorker} \cup BusyWorkers]
        /\ worker'[w].pc = "observed" /\ worker'[w].run = worker[w].run
        /\ worker'[w].outcome = "done"
        /\ \A v \in Workers : v # w => worker'[v] = worker[v]
    <3>1. worker' = [worker EXCEPT ![w] = [@ EXCEPT !.pc = "observed", !.outcome = "done"]]
      BY <1>1, <1>4 DEF TypeOK
    <3> QED
      BY <1>1, <3>1, Moved
  <2>3. /\ cache' \in [Actors -> Workspace \cup {Unloaded}] /\ cache'[w] = runs
        /\ \A a \in Actors : a # w => cache'[a] = cache[a]
    BY <1>1, <1>2, <1>4 DEF TypeOK
  <2>4. TypeOK'
    BY <1>1, <1>2, <1>4, <2>1, <2>2, <2>3, QuantConstants DEF TypeOK, Actors, QuantConstants
  <2>5. Kept /\ Fenced /\ \A q \in Runs : Sound(runs'[q])
    BY <2>1, KeptSame
  <2>6. WorkerCoherent(w)'
    <3>1. WorkerCoherent(w)
      BY DEF IInv, Coherent
    <3>2. Follows(runs, runs, worker[w].run)
      BY <1>2, FollowsSelf DEF IInv, Coherent
    <3>3. lease.holder = w => Due("done", runs[worker[w].run])
      BY <1>1, <1>2, <3>1 DEF WorkerCoherent, WorkDue
    <3> QED
      BY <1>1, <1>2, <2>1, <2>2, <2>3, <3>1, <3>2, <3>3 DEF WorkerCoherent, WorkDue
  <2>7. Coherent'
    BY <1>1, <1>4, <2>1, <2>2, <2>3, <2>5, <2>6, ActsAlone, QuantConstants DEF Actors, QuantConstants
  <2> QED
    BY <2>4, <2>5, <2>7 DEF IInv
<1> QED
  BY <1>3, <1>4 DEF WriteFinish

LEMMA ExpireKeeps ==
  ASSUME IInv, ExpireLease
  PROVE  IInv' /\ Kept /\ Fenced
<1>1. TypeOK /\ lease \in [holder: Workers, run: Runs, live: BOOLEAN]
  BY DEF IInv, TypeOK, ExpireLease, NoLease
<1>2. /\ lease' \in [holder: Workers, run: Runs, live: BOOLEAN]
      /\ lease'.holder = lease.holder /\ lease'.run = lease.run
  BY <1>1 DEF ExpireLease
<1>3. faults' \in Nat
  BY <1>1 DEF ExpireLease, TypeOK
<1>4. TypeOK'
  BY <1>1, <1>2, <1>3 DEF TypeOK, ExpireLease
<1>5. Kept /\ Fenced /\ \A r \in Runs : Sound(runs'[r])
  BY KeptSame DEF ExpireLease
<1>6. \A w \in Workers : WorkerCoherent(w)'
  BY <1>2 DEF IInv, Coherent, WorkerCoherent, WorkDue, ExpireLease
<1>7. \A t \in Threads : RequestCoherent(t)'
  BY DEF IInv, Coherent, RequestCoherent, ExpireLease
<1> QED
  BY <1>4, <1>5, <1>6, <1>7 DEF IInv, Coherent
-----------------------------------------------------------------------------
(* API requests.                                                           *)

\* A request that ends: what it has written, if anything, is what is asked of a
\* commit.
LEMMA RespondKeeps ==
  ASSUME IInv, NEW t \in Threads, Respond(t), fresh' \subseteq Actors, faults' \in Nat,
         fresh' \ {t} \subseteq fresh, runs' \in Workspace,
         Kept, \A r \in Runs : Sound(runs'[r]),
         runs' = runs \/ (fresh' \subseteq {t} /\ Undisturbed(runs')),
         lease' = lease \/ (fresh' \subseteq {t} /\ lease' = NoLease),
         UNCHANGED <<worker, requests>>
  PROVE  IInv' /\ Kept /\ Fenced
<1>1. TypeOK /\ t \in Actors /\ t \notin Workers
  BY QuantConstants DEF IInv, Actors, QuantConstants
<1>2. /\ request'[t] = IdleRequest /\ \A u \in Threads : u # t => request'[u] = request[u]
      /\ request' \in [Threads -> {IdleRequest} \cup BusyRequests]
      /\ \A a \in Actors : a # t => cache'[a] = cache[a]
      /\ cache' \in [Actors -> Workspace \cup {Unloaded}]
  BY <1>1 DEF Respond, TypeOK
<1>3. TypeOK'
  BY <1>1, <1>2 DEF TypeOK, Actors
<1>4. Fenced
  BY DEF Fenced
<1>5. RequestCoherent(t)'
  BY <1>2 DEF RequestCoherent
<1>6. lease' = lease \/ (fresh' \subseteq {t} /\ lease'.holder \in {t, Nobody})
  BY DEF NoLease
<1>7. Coherent'
  BY <1>1, <1>2, <1>5, <1>6, ActsAlone DEF Actors
<1> QED
  BY <1>3, <1>4, <1>7 DEF IInv

\* An edited snapshot that may replace the committed one.
Proper(new) ==
  /\ new \in Workspace
  /\ \A r \in Runs : Sound(new[r]) /\ GoesOn(runs[r], new[r])
  /\ Undisturbed(new)

\* A command that writes once and answers.
LEMMA CommandKeeps ==
  ASSUME IInv, NEW t \in Threads, NEW edited, t \in fresh => Proper(edited),
         Write(t, edited), Respond(t), UNCHANGED <<lease, worker, requests>>
  PROVE  IInv' /\ Kept /\ Fenced
<1>1. TypeOK /\ t \in Actors /\ faults \in Nat
  BY DEF IInv, TypeOK, Actors
<1>2. CASE Store(t, edited) /\ UNCHANGED faults
  <2>1. t \in fresh /\ runs' = edited /\ fresh' = {t} /\ Proper(edited)
    BY <1>2 DEF Store, Storable
  <2>2. Kept /\ (\A r \in Runs : Sound(runs'[r])) /\ Undisturbed(runs') /\ runs' \in Workspace
    BY <2>1 DEF Proper, Kept
  <2> QED
    BY <1>1, <1>2, <2>1, <2>2, RespondKeeps
<1>3. CASE WriteFails(t) /\ fresh' = fresh \ {t} /\ UNCHANGED runs
  <2>1. Kept /\ (\A r \in Runs : Sound(runs'[r])) /\ runs' \in Workspace /\ fresh' \subseteq Actors
    BY <1>1, <1>3, KeptSame DEF TypeOK
  <2>2. faults' \in Nat
    BY <1>1, <1>3, FaultsCounted
  <2> QED
    BY <1>3, <2>1, <2>2, RespondKeeps
<1> QED
  BY <1>2, <1>3 DEF Write

\* What a request with a current copy has loaded.
LEMMA Loaded ==
  ASSUME IInv, NEW t \in Threads, request[t].op # "idle"
  PROVE  /\ request[t] \in BusyRequests /\ request[t].run \in Runs /\ cache[t] \in Workspace
         /\ t \in fresh => cache[t] = runs
         /\ runs \in Workspace /\ \A r \in Runs : runs[r] \in RunRow /\ Sound(runs[r])
<1>1. request[t] # IdleRequest
  BY DEF IdleRequest
<1> QED
  BY <1>1 DEF IInv, TypeOK, Coherent, RequestCoherent, BusyRequests, Workspace

\* One row changes, and the step of a worker does not notice.
LEMMA ProperRow ==
  ASSUME NEW s \in Workspace, s = runs, \A r \in Runs : Sound(s[r]), NEW x \in Runs,
         NEW row, Legal(s[x], row),
         s[x].state \notin Unstarted =>
           /\ row.iteration = s[x].iteration
           /\ row.state = s[x].state \/ {row.state, s[x].state} \cap Finished = {}
  PROVE  Proper([s EXCEPT ![x] = row])
<1>1. row \in RunRow /\ Sound(row) /\ GoesOn(s[x], row)
  BY DEF Legal
<1>2. \A r \in Runs : s[r] \in RunRow
  BY DEF Workspace
<1> QED
  BY <1>1, <1>2, WriteRow, GoesOnSelf DEF Proper, Undisturbed

\* A new run in a slot of its own.
LEMMA ProperNew ==
  ASSUME NEW s \in Workspace, Proper(s), NEW c \in Runs, s[c].state = "none", runs[c].state = "none",
         NEW row \in RunRow, Sound(row), runs \in Workspace
  PROVE  Proper([s EXCEPT ![c] = row])
<1>1. \A r \in Runs : s[r] \in RunRow /\ runs[r] \in RunRow
  BY DEF Workspace
<1>2. GoesOn(s[c], row) /\ GoesOn(runs[c], s[c]) /\ runs[c].state \in Unstarted
  BY <1>1, RowType DEF Proper, Sound, GoesOn, Unstarted, Finished
<1>3. GoesOn(runs[c], row)
  BY <1>1, <1>2, GoesOnTransitive
<1> QED
  BY <1>1, <1>2, <1>3, WriteRow DEF Proper, Undisturbed

LEMMA CreateRunKeeps ==
  ASSUME IInv, NEW t \in Threads, CreateRun(t)
  PROVE  IInv' /\ Kept /\ Fenced
<1>1. request[t].op # "idle"
  BY DEF CreateRun
<1>2. PICK r \in Unused(cache[t]), state \in Starts :
        Write(t, [cache[t] EXCEPT ![r] = NewRun(state, "single")])
  BY DEF CreateRun
<1> DEFINE row == NewRun(state, "single")
<1>3. row \in RunRow /\ Sound(row)
  BY NewRunRow DEF Starts
<1>4. ASSUME t \in fresh  PROVE Proper([cache[t] EXCEPT ![r] = row])
  <2>1. cache[t] = runs /\ runs \in Workspace /\ r \in Runs /\ runs[r].state = "none"
    BY <1>1, <1>2, <1>4, Loaded DEF Unused
  <2>2. Proper(runs)
    BY <1>1, Loaded, GoesOnSelf DEF Proper, Undisturbed
  <2> HIDE DEF row
  <2> QED
    BY <1>3, <2>1, <2>2, ProperNew
<1> QED
  BY <1>2, <1>4, CommandKeeps DEF CreateRun

LEMMA ApprovePlanKeeps ==
  ASSUME IInv, NEW t \in Threads, ApprovePlan(t)
  PROVE  IInv' /\ Kept /\ Fenced
<1> DEFINE x == request[t].run
<1>1. request[t].op # "idle" /\ cache[t][x].state = "waiting"
  BY DEF ApprovePlan
<1>2. PICK kind \in {cache[t][x].kind} \cup (IF cache[t][x].kind = "single" THEN {"root"} ELSE {}) :
        Write(t, [cache[t] EXCEPT ![x].state = "running", ![x].kind = kind])
  BY DEF ApprovePlan
<1>3. ASSUME t \in fresh
      PROVE  Proper([cache[t] EXCEPT ![x].state = "running", ![x].kind = kind])
  <2> DEFINE row == [runs[x] EXCEPT !.state = "running", !.kind = kind]
  <2>1. /\ cache[t] = runs /\ runs \in Workspace /\ x \in Runs /\ runs[x] \in RunRow
        /\ Sound(runs[x]) /\ runs[x].state = "waiting" /\ \A r \in Runs : Sound(runs[r])
    BY <1>1, <1>3, Loaded
  <2>2. kind \in {"single", "root", "follow_up", "retry"}
    BY <2>1 DEF RunRow
  <2>3. row \in RunRow
    BY <2>1, <2>2, StateNames DEF RunRow
  <2>4. Legal(runs[x], row)
    <3>1. /\ row.state = "running" /\ row.kind = kind /\ row.iteration = runs[x].iteration
          /\ row.used = runs[x].used /\ row.repairs = runs[x].repairs
          /\ row.tested = runs[x].tested /\ row.child = runs[x].child
      BY <2>1 DEF RunRow
    <3>2. /\ runs[x].kind # "single" => kind = runs[x].kind
          /\ runs[x].iteration = 0 /\ 0 < MaxIterations /\ runs[x].state = "waiting"
      BY <1>2, <2>1, QuantConstants DEF Sound, Unstarted, QuantConstants
    <3> HIDE DEF row
    <3>3. Sound(row)
      BY <2>1, <3>1, <3>2 DEF Sound, Unstarted, Underway
    <3>4. GoesOn(runs[x], row)
      BY <2>1, <3>1, <3>2, RowType DEF GoesOn, Unstarted, Finished
    <3> QED
      BY <2>3, <3>3, <3>4 DEF Legal
  <2>5. [cache[t] EXCEPT ![x].state = "running", ![x].kind = kind] = [runs EXCEPT ![x] = row]
    BY <2>1 DEF Workspace, RunRow
  <2> HIDE DEF row
  <2> QED
    BY <2>1, <2>4, <2>5, ProperRow DEF Unstarted
<1> QED
  BY <1>2, <1>3, CommandKeeps DEF ApprovePlan

LEMMA RequestPlanChangesKeeps ==
  ASSUME IInv, NEW t \in Threads, RequestPlanChanges(t)
  PROVE  IInv' /\ Kept /\ Fenced
<1>1. request[t].op # "idle"
  BY DEF RequestPlanChanges
<1>2. t \in fresh => Proper(cache[t])
  BY <1>1, Loaded, GoesOnSelf DEF Proper, Undisturbed
<1> QED
  BY <1>2, CommandKeeps DEF RequestPlanChanges

LEMMA RetryRunKeeps ==
  ASSUME IInv, NEW t \in Threads, RetryRun(t)
  PROVE  IInv' /\ Kept /\ Fenced
<1> DEFINE x == request[t].run
<1>1. request[t].op # "idle" /\ cache[t][x].state \in Terminal /\ cache[t][x].child = Nobody
  BY DEF RetryRun
<1>2. PICK c \in Unused(cache[t]), state \in Starts :
        Write(t, [cache[t] EXCEPT ![c] = NewRun(state, "retry"), ![x].child = c])
  BY DEF RetryRun
<1> DEFINE edited == [cache[t] EXCEPT ![c] = NewRun(state, "retry"), ![x].child = c]
<1>3. ASSUME t \in fresh  PROVE Proper(edited)
  <2> DEFINE row  == [runs[x] EXCEPT !.child = c]
             copy == [runs EXCEPT ![x] = row]
             new  == NewRun(state, "retry")
  <2>1. /\ cache[t] = runs /\ runs \in Workspace /\ x \in Runs /\ runs[x] \in RunRow
        /\ runs[x].state \in Terminal /\ runs[x].child = Nobody /\ \A r \in Runs : Sound(runs[r])
    BY <1>1, <1>3, Loaded
  <2>2. c \in Runs /\ runs[c].state = "none" /\ c # x
    BY <1>2, <2>1 DEF Unused, Terminal
  <2>3. Legal(runs[x], row)
    BY <2>1, <2>2, Linked DEF Terminal
  <2>4. row.iteration = runs[x].iteration /\ row.state = runs[x].state
    BY <2>1 DEF RunRow
  <2>5. edited = [copy EXCEPT ![c] = new]
    BY <2>1, <2>2 DEF Workspace, RunRow
  <2>6. new \in RunRow /\ Sound(new)
    BY NewRunRow DEF Starts
  <2> HIDE DEF row, new
  <2>7. Proper(copy)
    BY <2>1, <2>3, <2>4, ProperRow
  <2>8. copy \in Workspace /\ copy[c] = runs[c]
    BY <2>1, <2>2, <2>3, WriteRow DEF Legal
  <2> HIDE DEF copy
  <2>9. Proper([copy EXCEPT ![c] = new])
    BY <2>1, <2>2, <2>6, <2>7, <2>8, ProperNew
  <2> QED
    BY <2>5, <2>9
<1> HIDE DEF edited
<1>4. Write(t, edited)
  BY <1>2 DEF edited
<1> QED
  BY <1>3, <1>4, CommandKeeps DEF RetryRun
LEMMA LoadKeeps ==
  ASSUME IInv, NEW t \in Threads, NEW op \in {"create", "approve", "replan", "cancel", "retry"},
         NEW r \in Runs, Load(t, op, r)
  PROVE  IInv' /\ Kept /\ Fenced
<1>1. TypeOK /\ t \in Actors /\ t \notin Workers
  BY QuantConstants DEF IInv, Actors, QuantConstants
<1>2. [op |-> op, run |-> r] \in BusyRequests
  BY DEF BusyRequests
<1>3. /\ request' \in [Threads -> {IdleRequest} \cup BusyRequests]
      /\ \A u \in Threads : u # t => request'[u] = request[u]
      /\ cache' \in [Actors -> Workspace \cup {Unloaded}] /\ cache'[t] = runs
      /\ \A a \in Actors : a # t => cache'[a] = cache[a]
  BY <1>1, <1>2 DEF Load, TypeOK
<1>4. TypeOK'
  BY <1>1, <1>3 DEF Load, TypeOK, Actors
<1>5. Kept /\ Fenced /\ \A q \in Runs : Sound(runs'[q])
  BY KeptSame DEF Load
<1>6. RequestCoherent(t)'
  BY <1>3 DEF Load, RequestCoherent
<1>7. Coherent'
  BY <1>1, <1>3, <1>5, <1>6, ActsAlone DEF Load, Actors
<1> QED
  BY <1>4, <1>5, <1>7 DEF IInv

LEMMA CancelRunKeeps ==
  ASSUME IInv, NEW t \in Threads, CancelRun(t)
  PROVE  IInv' /\ Kept /\ Fenced
<1> DEFINE x == request[t].run
           edited == [cache[t] EXCEPT ![x].state = "cancelled", ![x].marked = TRUE]
           fence  == request' = [request EXCEPT ![t].op = "fence"]
<1>1. TypeOK /\ t \in Actors /\ t \notin Workers /\ request[t].op # "idle" /\ request[t].op = "cancel"
  BY QuantConstants DEF IInv, Actors, QuantConstants, CancelRun
<1>2. /\ request[t] \in BusyRequests /\ x \in Runs /\ cache[t] \in Workspace
      /\ t \in fresh => cache[t] = runs
      /\ runs \in Workspace /\ \A r \in Runs : runs[r] \in RunRow /\ Sound(runs[r])
  BY <1>1, Loaded
<1>3. ASSUME fence
      PROVE  /\ request' \in [Threads -> {IdleRequest} \cup BusyRequests]
             /\ \A u \in Threads : u # t => request'[u] = request[u]
  <2>1. [request[t] EXCEPT !.op = "fence"] \in BusyRequests
    BY <1>2 DEF BusyRequests
  <2>2. request' = [request EXCEPT ![t] = [request[t] EXCEPT !.op = "fence"]]
    BY <1>1, <1>3 DEF TypeOK
  <2> QED
    BY <1>1, <2>1, <2>2 DEF TypeOK
<1>4. CASE fence /\ UNCHANGED <<runs, cache, fresh, faults>>
  <2>1. TypeOK'
    BY <1>1, <1>2, <1>3, <1>4 DEF TypeOK, CancelRun
  <2>2. Kept /\ Fenced /\ \A q \in Runs : Sound(runs'[q])
    BY <1>4, KeptSame
  <2>3. RequestCoherent(t)'
    BY <1>2, <1>4 DEF RequestCoherent
  <2>4. Coherent'
    BY <1>1, <1>3, <1>4, <2>2, <2>3, ActsAlone DEF CancelRun, Actors
  <2> QED
    BY <2>1, <2>2, <2>4 DEF IInv
<1>5. CASE /\ Store(t, edited) /\ fence /\ cache' = [cache EXCEPT ![t] = edited] /\ UNCHANGED faults
           /\ cache[t][x].state \notin Terminal
  <2> DEFINE row == [runs[x] EXCEPT !.state = "cancelled", !.marked = TRUE]
  <2>1. t \in fresh /\ cache[t] = runs /\ runs' = edited /\ fresh' = {t}
    BY <1>2, <1>5 DEF Store, Storable
  <2>2. edited = [runs EXCEPT ![x] = row]
    BY <1>2, <2>1 DEF Workspace, RunRow
  <2>3. runs[x].state \notin Finished \cup {"cancelled"}
    BY <1>5, <2>1 DEF Terminal, Finished
  <2>4. row \in RunRow /\ row.state = "cancelled" /\ row.iteration = runs[x].iteration
    <3>1. runs[x] \in RunRow /\ "cancelled" \in RunStates
      BY <1>2, StateNames
    <3> QED
      BY <3>1 DEF RunRow
  <2>5. Legal(runs[x], row)
    BY <1>2, <2>3, <2>4, RowType
    DEF Legal, RunRow, Sound, GoesOn, Unstarted, Underway, Finished
  <2> HIDE DEF row
  <2>6. Proper([runs EXCEPT ![x] = row])
    BY <1>2, <2>3, <2>4, <2>5, ProperRow DEF Finished
  <2> HIDE DEF edited
  <2>7. /\ runs' \in Workspace /\ Kept /\ Undisturbed(runs') /\ \A q \in Runs : Sound(runs'[q])
        /\ edited \in Workspace
    BY <2>1, <2>2, <2>6 DEF Proper, Kept
  <2>8. /\ cache' \in [Actors -> Workspace \cup {Unloaded}] /\ cache'[t] = edited
        /\ \A a \in Actors : a # t => cache'[a] = cache[a]
    BY <1>1, <1>5, <2>7 DEF TypeOK
  <2>9. TypeOK'
    BY <1>1, <1>2, <1>3, <1>5, <2>1, <2>7, <2>8 DEF TypeOK, CancelRun, Actors
  <2>10. Fenced
    BY DEF CancelRun, Fenced
  <2>11. RequestCoherent(t)'
    BY <2>1, <2>8 DEF RequestCoherent
  <2>12. Coherent'
    BY <1>1, <1>3, <1>5, <2>1, <2>7, <2>8, <2>11, ActsAlone DEF CancelRun, Actors
  <2> QED
    BY <2>7, <2>9, <2>10, <2>12 DEF IInv
<1>6. CASE WriteFails(t) /\ Respond(t) /\ fresh' = fresh \ {t} /\ UNCHANGED runs
  <2>1. Kept /\ (\A r \in Runs : Sound(runs'[r])) /\ fresh' \subseteq Actors /\ faults' \in Nat
    BY <1>1, <1>6, KeptSame, FaultsCounted DEF TypeOK
  <2> QED
    BY <1>2, <1>6, <2>1, RespondKeeps DEF CancelRun
<1> QED
  BY <1>4, <1>5, <1>6 DEF CancelRun

LEMMA EndRequestKeeps ==
  ASSUME IInv, NEW t \in Threads, InvalidateLease(t) \/ EndRequest(t)
  PROVE  IInv' /\ Kept /\ Fenced
<1>1. /\ UNCHANGED <<runs, worker, requests>> /\ Respond(t)
      /\ fresh' = {} \/ fresh' = fresh \ {t}
      /\ lease' = lease \/ (fresh' = {} /\ lease' = NoLease)
  BY DEF InvalidateLease, EndRequest
<1>2. fresh' \subseteq Actors /\ runs' \in Workspace /\ faults' \in Nat
  BY <1>1 DEF IInv, TypeOK, InvalidateLease, EndRequest
<1>3. Kept /\ \A r \in Runs : Sound(runs'[r])
  BY <1>1, KeptSame
<1> QED
  BY <1>1, <1>2, <1>3, RespondKeeps

-----------------------------------------------------------------------------
(* The invariant.                                                          *)

LEMMA InitIInv == Init => IInv
<1> SUFFICES ASSUME Init  PROVE IInv
  OBVIOUS
<1>1. NewRun("none", "single") \in RunRow /\ Sound(NewRun("none", "single"))
  BY NewRunRow
<1>2. TypeOK
  BY <1>1 DEF Init, TypeOK, Workspace, IdleWorker, IdleRequest
<1>3. Coherent
  BY <1>1 DEF Init, Coherent, WorkerCoherent, RequestCoherent
<1> QED
  BY <1>2, <1>3 DEF IInv

LEMMA StepKeeps ==
  ASSUME IInv, NEW w \in Workers, Step(w)
  PROVE  IInv' /\ Kept /\ Fenced
  BY PollKeeps, ClaimKeeps, HeartbeatKeeps, DecideKeeps, RunScriptKeeps, UseToolKeeps,
     CompleteStepKeeps, WriteKeeps, WriteFinishKeeps, ReleaseKeeps DEF Step

LEMMA HandleKeeps ==
  ASSUME IInv, NEW t \in Threads, Handle(t)
  PROVE  IInv' /\ Kept /\ Fenced
  BY CreateRunKeeps, ApprovePlanKeeps, RequestPlanChangesKeeps, CancelRunKeeps, RetryRunKeeps,
     EndRequestKeeps DEF Handle

LEMMA NextKeeps ==
  ASSUME IInv, [Next]_vars
  PROVE  IInv' /\ Kept /\ Fenced
<1>1. CASE UNCHANGED vars
  <2>1. Kept /\ Fenced
    BY <1>1, KeptSame DEF vars
  <2>2. IInv'
    BY <1>1 DEF vars, IInv, TypeOK, Coherent, WorkerCoherent, WorkDue, RequestCoherent
  <2> QED
    BY <2>1, <2>2
<1>2. CASE Next
  BY <1>2, LoadKeeps, HandleKeeps, StepKeeps, CrashKeeps, ExpireKeeps DEF Next
<1> QED
  BY <1>1, <1>2

-----------------------------------------------------------------------------
(* Cancelled runs.                                                         *)

\* What a commit may do to a cancelled run on which there is no claim.
Unrevived == \A r \in Runs : runs[r].state = "cancelled" /\ lease.run # r => runs'[r].state = "cancelled"

\* A worker that commits goes on to its next place, so the commit is fenced.
LEMMA CommitsMove ==
  ASSUME IInv, NEW w \in Workers, Step(w), runs' # runs
  PROVE  worker'[w] # worker[w]
<1>1. TypeOK
  BY DEF IInv
<1>2. ASSUME NEW pc, NEW next, next # pc, WriteOrRaise(w, pc, next)  PROVE worker'[w] # worker[w]
  <2>1. worker[w].pc = pc /\ Goto(w, next)
    BY <1>2 DEF WriteOrRaise
  <2>2. worker'[w] = [worker[w] EXCEPT !.pc = next]
    BY <1>1, <2>1 DEF Goto, TypeOK
  <2>3. ASSUME worker'[w] = worker[w]  PROVE FALSE
    <3>1. worker[w] \in {IdleWorker} \cup BusyWorkers
      BY <1>1 DEF TypeOK
    <3>2. worker'[w].pc = next
      BY <2>2, <3>1 DEF IdleWorker, BusyWorkers
    <3> QED
      BY <1>2, <2>1, <2>3, <3>2
  <2> QED
    BY <2>3
<1>3. CASE WriteDecision(w) \/ WriteFailure(w) \/ WriteStep(w) \/ WriteScript(w)
  BY <1>2, <1>3 DEF WriteDecision, WriteFailure, WriteStep, WriteScript
<1>4. CASE WriteStop(w) \/ WriteTool(w) \/ WriteFinish(w)
  <2>1. \E next \in {"releasing", "observed"} :
          worker[w].pc \in {"write_stop", "write_tool", "write_finish"} /\ Goto(w, next)
    BY <1>4 DEF WriteStop, WriteTool, WriteFinish
  <2>2. PICK next \in {"releasing", "observed"} :
          worker[w].pc \in {"write_stop", "write_tool", "write_finish"} /\ Goto(w, next)
    BY <2>1
  <2>3. worker'[w] = [worker[w] EXCEPT !.pc = next] /\ worker[w] \in {IdleWorker} \cup BusyWorkers
    BY <1>1, <2>2 DEF Goto, TypeOK
  <2>4. worker'[w].pc = next
    BY <2>3 DEF IdleWorker, BusyWorkers
  <2> QED
    BY <2>2, <2>4
<1> QED
  BY <1>3, <1>4 DEF Step, Poll, Claim, Heartbeat, Decide, Refuse, RunScript, UseTool, ToolRefused,
                    CompleteStep, CompletionRefused, Release, Edit

LEMMA WorkersRevive ==
  ASSUME IInv, NEW w \in Workers, Step(w) \/ Crash(w)
  PROVE  Unrevived
<1>1. CASE runs' # runs
  <2>1. Step(w) /\ Fenced
    BY <1>1, StepKeeps DEF Crash
  <2> QED
    BY <1>1, <2>1, CommitsMove DEF Unrevived, Fenced
<1> QED
  BY <1>1 DEF Unrevived

\* A request writes over a current copy, and no command takes a run out of cancelled.
LEMMA RequestsRevive ==
  ASSUME IInv, NEW t \in Threads, Handle(t)
  PROVE  Unrevived
<1> SUFFICES ASSUME NEW r \in Runs, runs[r].state = "cancelled", runs' # runs
             PROVE  runs'[r].state = "cancelled"
  BY DEF Unrevived
<1> DEFINE x == request[t].run
<1>1. request[t].op # "idle" /\ t \in fresh
  BY DEF Handle, CreateRun, ApprovePlan, RequestPlanChanges, CancelRun, InvalidateLease, RetryRun,
         EndRequest, Write, Store, Storable, IdleRequest
<1>2. /\ cache[t] = runs /\ x \in Runs /\ runs \in Workspace
      /\ runs[r] \in RunRow /\ runs[x] \in RunRow
  BY <1>1, Loaded
<1>3. CASE CreateRun(t)
  <2>1. PICK c \in Unused(runs), state \in Starts : runs' = [runs EXCEPT ![c] = NewRun(state, "single")]
    BY <1>2, <1>3 DEF CreateRun, Write, Store
  <2> QED
    BY <1>2, <2>1 DEF Unused, Workspace
<1>4. CASE ApprovePlan(t)
  <2>1. runs[x].state = "waiting"
    BY <1>2, <1>4 DEF ApprovePlan
  <2>2. \E kind : runs' = [runs EXCEPT ![x].state = "running", ![x].kind = kind]
    BY <1>2, <1>4 DEF ApprovePlan, Write, Store
  <2> QED
    BY <1>2, <2>1, <2>2 DEF Workspace
<1>5. CASE RequestPlanChanges(t)
  BY <1>2, <1>5 DEF RequestPlanChanges, Write, Store
<1>6. CASE CancelRun(t)
  <2>1. runs' = [runs EXCEPT ![x].state = "cancelled", ![x].marked = TRUE]
    BY <1>2, <1>6 DEF CancelRun, Store
  <2>2. x = r => runs'[r] = [runs[x] EXCEPT !.state = "cancelled", !.marked = TRUE]
    BY <1>2, <2>1 DEF Workspace
  <2>3. x # r => runs'[r] = runs[r]
    BY <1>2, <2>1 DEF Workspace
  <2> QED
    BY <1>2, <2>2, <2>3 DEF RunRow
<1>7. CASE RetryRun(t)
  <2>1. PICK c \in Unused(runs), state \in Starts :
          runs' = [runs EXCEPT ![c] = NewRun(state, "retry"), ![x].child = c]
    BY <1>2, <1>7 DEF RetryRun, Write, Store
  <2>2. r # c
    BY <2>1 DEF Unused
  <2>3. x = r => runs'[r] = [runs[r] EXCEPT !.child = c]
    BY <1>2, <2>1, <2>2 DEF Workspace
  <2>4. x # r => runs'[r] = runs[r]
    BY <1>2, <2>1, <2>2 DEF Workspace
  <2> QED
    BY <1>2, <2>3, <2>4 DEF RunRow
<1> QED
  BY <1>3, <1>4, <1>5, <1>6, <1>7 DEF Handle, InvalidateLease, EndRequest

LEMMA NextRevives ==
  ASSUME IInv, [Next]_vars
  PROVE  Unrevived
<1>1. CASE UNCHANGED runs
  BY <1>1 DEF Unrevived
<1>2. CASE Next
  <2>1. ASSUME NEW t \in Threads, NEW op \in {"create", "approve", "replan", "cancel", "retry"},
               NEW r \in Runs, Load(t, op, r)
        PROVE  UNCHANGED runs
    BY <2>1 DEF Load
  <2>2. ExpireLease => UNCHANGED runs
    BY DEF ExpireLease
  <2> QED
    BY <1>1, <1>2, <2>1, <2>2, RequestsRevive, WorkersRevive DEF Next
<1> QED
  BY <1>1, <1>2 DEF vars

THEOREM Invariance == Spec => []IInv
<1>1. Init => IInv
  BY InitIInv
<1>2. IInv /\ [Next]_vars => IInv'
  BY NextKeeps
<1> QED
  BY <1>1, <1>2, PTL DEF Spec

\* The snapshot, the lease and every copy keep their types, and a worker in the
\* middle of a step or a request in progress always has a loaded copy.
THEOREM TypeCorrect == Spec => []TypeOK
<1>1. IInv => TypeOK
  BY DEF IInv
<1> QED
  BY <1>1, Invariance, PTL

\* The budgets of the approved plan hold in every committed snapshot.
THEOREM BudgetsAlwaysHold == Spec => []BudgetsHold
<1>1. IInv => BudgetsHold
  BY DEF IInv, Coherent, BudgetsHold, Sound, Underway
<1> QED
  BY <1>1, Invariance, PTL

\* No commit takes back what an earlier one has written.
THEOREM NothingIsLost == Spec => NothingLost
<1>1. IInv /\ [Next]_vars =>
        [\A r \in Runs :
           /\ runs[r].state # "none" => runs'[r].state # "none"
           /\ runs'[r].iteration >= runs[r].iteration
           /\ runs'[r].used >= runs[r].used /\ runs'[r].repairs >= runs[r].repairs
           /\ runs[r].child # Nobody => runs'[r].child = runs[r].child
           /\ runs[r].kind # "single" => runs'[r].kind = runs[r].kind]_vars
  BY NextKeeps DEF Kept, GoesOn
<1> QED
  BY <1>1, Invariance, PTL DEF Spec, NothingLost

\* A worker commits only to the run of the lease it holds and to a new run.
THEOREM WritesAreFenced == Spec => FencedWrites
<1>1. IInv /\ [Next]_vars =>
        [\A w \in Workers : worker'[w] # worker[w] /\ runs' # runs =>
           /\ lease.holder = w
           /\ \A r \in Runs : runs'[r] # runs[r] => r = lease.run \/ runs[r].state = "none"]_vars
  BY NextKeeps DEF Fenced
<1> QED
  BY <1>1, Invariance, PTL DEF Spec, FencedWrites

\* A completed or failed run never changes its state again.
THEOREM FinishedStaysFinal == Spec => FinishedIsFinal
<1>1. IInv /\ [Next]_vars =>
        [\A r \in Runs : runs[r].state \in {"completed", "failed"} => runs'[r].state = runs[r].state]_vars
  BY NextKeeps DEF Kept, GoesOn, Finished
<1> QED
  BY <1>1, Invariance, PTL DEF Spec, FinishedIsFinal

\* Nothing revives a cancelled run once no claim on it is left.
THEOREM CancellationHolds == Spec => CancelHolds
<1>1. IInv /\ [Next]_vars =>
        [\A r \in Runs :
           runs[r].state = "cancelled" /\ lease.run # r => runs'[r].state = "cancelled"]_vars
  BY NextRevives DEF Unrevived
<1> QED
  BY <1>1, Invariance, PTL DEF Spec, CancelHolds
=============================================================================
