--------------------------- MODULE QuantWorkspace ---------------------------
(***************************************************************************)
(* The quant repository: every run of a workspace lives in one row, a JSON *)
(* snapshot with a row_version and one worker lease.  Each API request and *)
(* each worker poll builds its own QuantStore, loads the whole snapshot,   *)
(* edits its copy and writes the copy back when row_version still is the   *)
(* one it loaded.  The worker runs one agent step per claim: a decision, a *)
(* tool and the completion of the step, each committed on its own.         *)
(*                                                                         *)
(* row_version only grows and is only compared with a loaded one, so what  *)
(* is kept of it is who may still write: fresh holds the actors whose      *)
(* loaded version is current.  A lease token is new at every claim and a   *)
(* process has one claim at a time, so the token is the claiming process.  *)
(***************************************************************************)
EXTENDS Integers, FiniteSets

CONSTANTS
  Runs,            \* run slots; their order is the order of created_at
  Workers,         \* worker processes
  FixtureWorkers,  \* those started with kind quant-fixture
  Threads,         \* concurrent API requests
  Nobody,          \* "no holder" and "no follow-up run"
  MaxIterations,   \* run.max_agent_iterations
  MaxExperiments,  \* run.max_experiments
  MaxRepairs,      \* run.max_repairs
  MaxFailures,     \* MAX_CONSECUTIVE_AGENT_PROVIDER_FAILURES
  MaxRequests,     \* bound on API requests
  MaxFaults        \* bound on crashes, stalls and database errors

ASSUME QuantConstants ==
  /\ Runs \subseteq Nat /\ IsFiniteSet(Runs)
  /\ FixtureWorkers \subseteq Workers
  /\ Workers \cap Threads = {}
  /\ Nobody \notin Runs \cup Workers
  /\ {MaxIterations, MaxExperiments, MaxRepairs, MaxFailures, MaxRequests, MaxFaults} \subseteq Nat
  /\ MaxIterations > 0

VARIABLES
  runs,      \* the committed snapshot: one row per run
  lease,     \* the lease columns of the repository row
  cache,     \* the snapshot each actor has loaded and edits
  fresh,     \* actors whose loaded row_version is the committed one
  worker,    \* where each worker is in its step
  request,   \* API requests in progress
  requests, faults  \* counters for the bounds

vars == <<runs, lease, cache, fresh, worker, request, requests, faults>>

-----------------------------------------------------------------------------
Actors    == Workers \cup Threads
Terminal  == {"completed", "failed", "cancelled"}
RunStates == Terminal \cup {"none", "waiting", "running", "generating", "repairing"}

\* marked is agent_status = "cancelled"; child is the retry or the follow-up run;
\* kind says where the run comes from, or that it is the root of a series.
RunRow == [state: RunStates, marked: BOOLEAN, kind: {"single", "root", "follow_up", "retry"},
           iteration: Nat, failures: Nat, used: Nat, repairs: Nat, tested: Nat,
           child: Runs \cup {Nobody}]

NewRun(state, kind) ==
  [state |-> state, marked |-> FALSE, kind |-> kind, iteration |-> 0, failures |-> 0,
   used |-> 0, repairs |-> 0, tested |-> 0, child |-> Nobody]

Workspace == [Runs -> RunRow]
Unloaded  == <<>>
NoLease   == [holder |-> Nobody, run |-> Nobody, live |-> FALSE]

Writes == {"write_decision", "write_failure", "write_stop", "write_tool",
           "write_finish", "write_step", "write_script"}

IdleWorker  == [pc |-> "idle"]
BusyWorkers == [pc: {"polled", "claimed", "deciding", "tooling", "observed", "releasing"} \cup Writes,
                run: Runs, outcome: {"done", "strict", "terminal"}]
IdleRequest  == [op |-> "idle"]
BusyRequests == [op: {"create", "approve", "replan", "cancel", "fence", "retry"}, run: Runs]

TypeOK ==
  /\ runs \in Workspace
  /\ lease \in [holder: Workers, run: Runs, live: BOOLEAN] \cup {NoLease}
  /\ cache \in [Actors -> Workspace \cup {Unloaded}]
  /\ fresh \subseteq Actors
  /\ worker \in [Workers -> {IdleWorker} \cup BusyWorkers]
  /\ request \in [Threads -> {IdleRequest} \cup BusyRequests]
  /\ \A w \in Workers : worker[w] # IdleWorker => cache[w] \in Workspace
  /\ \A t \in Threads : request[t] # IdleRequest => cache[t] \in Workspace
  /\ requests \in Nat /\ faults \in Nat

Init ==
  /\ runs = [r \in Runs |-> NewRun("none", "single")]
  /\ lease = NoLease
  /\ cache = [a \in Actors |-> Unloaded]
  /\ fresh = {}
  /\ worker = [w \in Workers |-> IdleWorker]
  /\ request = [t \in Threads |-> IdleRequest]
  /\ requests = 0 /\ faults = 0

-----------------------------------------------------------------------------
(* The store.                                                              *)

\* Mutant of Storable: the snapshot is written without comparing row_version.
StorableBlind(a) == a \in Actors

\* _persist_workspace: the committed row_version is the one this store loaded.
Storable(a) == a \in fresh

\* The commit replaces the whole snapshot and makes every other store stale.
Store(a, snapshot) ==
  /\ Storable(a)
  /\ runs' = snapshot
  /\ fresh' = {a}

\* A write that is refused, or that the database loses.
WriteFails(a) ==
  \/ ~Storable(a) /\ UNCHANGED faults
  \/ faults < MaxFaults /\ faults' = faults + 1

\* The next run id; ids are derived from their input and never reused.
Unused(snapshot) ==
  {r \in Runs : snapshot[r].state = "none" /\ \A q \in Runs : q < r => snapshot[q].state # "none"}

\* A new run waits for plan approval, or starts at once in AUTO mode.
Starts == {"waiting", "running"}

-----------------------------------------------------------------------------
(* API requests: load, then edit and write.                                *)

Respond(t) ==
  /\ request' = [request EXCEPT ![t] = IdleRequest]
  /\ cache' = [cache EXCEPT ![t] = Unloaded]

Load(t, op, r) ==
  /\ request[t] = IdleRequest
  /\ requests < MaxRequests
  /\ requests' = requests + 1
  /\ op = "create" <=> runs[r].state = "none"
  /\ request' = [request EXCEPT ![t] = [op |-> op, run |-> r]]
  /\ cache' = [cache EXCEPT ![t] = runs]
  /\ fresh' = fresh \cup {t}
  /\ UNCHANGED <<runs, lease, worker, faults>>

\* A command whose guard holds on the loaded snapshot: it is written, or the
\* request ends with a version conflict and nothing has changed.
Write(t, edited) ==
  \/ Store(t, edited) /\ UNCHANGED faults
  \/ WriteFails(t) /\ fresh' = fresh \ {t} /\ UNCHANGED runs

CreateRun(t) ==
  /\ request[t].op = "create"
  /\ \E r \in Unused(cache[t]), state \in Starts :
       Write(t, [cache[t] EXCEPT ![r] = NewRun(state, "single")])
  /\ Respond(t)
  /\ UNCHANGED <<lease, worker, requests>>

\* With a research loop policy a run of its own becomes the root of a series.
ApprovePlan(t) ==
  LET r == request[t].run  IN
  /\ request[t].op = "approve"
  /\ cache[t][r].state = "waiting"
  /\ \E kind \in {cache[t][r].kind} \cup (IF cache[t][r].kind = "single" THEN {"root"} ELSE {}) :
       Write(t, [cache[t] EXCEPT ![r].state = "running", ![r].kind = kind])
  /\ Respond(t)
  /\ UNCHANGED <<lease, worker, requests>>

\* A new plan revision, written over the same run.
RequestPlanChanges(t) ==
  /\ request[t].op = "replan"
  /\ cache[t][request[t].run].state = "waiting"
  /\ Write(t, cache[t])
  /\ Respond(t)
  /\ UNCHANGED <<lease, worker, requests>>

\* Cancel commits the run first; the lease is invalidated by a second commit.
CancelRun(t) ==
  LET r      == request[t].run
      edited == [cache[t] EXCEPT ![r].state = "cancelled", ![r].marked = TRUE]
      fence  == request' = [request EXCEPT ![t].op = "fence"]
  IN
  /\ request[t].op = "cancel"
  /\ cache[t][r].state \notin Terminal \ {"cancelled"}
  /\ IF cache[t][r].state = "cancelled"
       THEN fence /\ UNCHANGED <<runs, cache, fresh, faults>>
       ELSE \/ Store(t, edited) /\ fence /\ cache' = [cache EXCEPT ![t] = edited] /\ UNCHANGED faults
            \/ WriteFails(t) /\ Respond(t) /\ fresh' = fresh \ {t} /\ UNCHANGED runs
  /\ UNCHANGED <<lease, worker, requests>>

\* Mutant of InvalidateLease: the fence does not advance row_version.
InvalidateLeaseUnversioned(t) ==
  /\ request[t].op = "fence"
  /\ IF Storable(t) /\ lease.run = request[t].run
       THEN lease' = NoLease /\ fresh' = fresh \ {t}
       ELSE UNCHANGED lease /\ fresh' = fresh \ {t}
  /\ Respond(t)
  /\ UNCHANGED <<runs, worker, requests, faults>>

\* _ensure_worker_lease_invalidated: compare row_version again, clear a lease on
\* this run.  A stale version leaves the lease alone, error or not.
InvalidateLease(t) ==
  /\ request[t].op = "fence"
  /\ IF Storable(t) /\ lease.run = request[t].run
       THEN lease' = NoLease /\ fresh' = {}
       ELSE UNCHANGED lease /\ fresh' = fresh \ {t}
  /\ Respond(t)
  /\ UNCHANGED <<runs, worker, requests, faults>>

\* One retry child per run, and none for a bounded series.
RetryRun(t) ==
  LET r == request[t].run  IN
  /\ request[t].op = "retry"
  /\ cache[t][r].state \in Terminal
  /\ cache[t][r].child = Nobody /\ cache[t][r].kind \in {"single", "retry"}
  /\ \E c \in Unused(cache[t]), state \in Starts :
       Write(t, [cache[t] EXCEPT ![c] = NewRun(state, "retry"), ![r].child = c])
  /\ Respond(t)
  /\ UNCHANGED <<lease, worker, requests>>

\* A rejected or replayed command, or an API process that dies before a commit.
EndRequest(t) ==
  /\ request[t] # IdleRequest
  /\ IF request[t].op = "fence" THEN faults < MaxFaults /\ faults' = faults + 1 ELSE UNCHANGED faults
  /\ Respond(t)
  /\ fresh' = fresh \ {t}
  /\ UNCHANGED <<runs, lease, worker, requests>>

-----------------------------------------------------------------------------
(* The worker.                                                             *)

\* A step that ends or raises: the store is dropped and the lease, if it still
\* is this worker's, stays until it expires.
Drop(w) ==
  /\ worker' = [worker EXCEPT ![w] = IdleWorker]
  /\ cache' = [cache EXCEPT ![w] = Unloaded]

Exit(w) == Drop(w) /\ fresh' = fresh \ {w}

Goto(w, pc) == worker' = [worker EXCEPT ![w].pc = pc]

\* Mutant of Pollable: a run left inside a tool is polled again.
PollableUnfinished(r) == runs[r].state \notin Terminal \cup {"none", "waiting"}

\* Only runs between two steps are polled.
Pollable(r) == runs[r].state = "running"

\* A poll builds a new store and picks the oldest running run.
Poll(w) ==
  /\ worker[w] = IdleWorker
  /\ \E r \in Runs :
       /\ Pollable(r) /\ \A q \in Runs : Pollable(q) => r <= q
       /\ worker' = [worker EXCEPT ![w] = [pc |-> "polled", run |-> r, outcome |-> "done"]]
  /\ cache' = [cache EXCEPT ![w] = runs]
  /\ fresh' = fresh \cup {w}
  /\ UNCHANGED <<runs, lease, request, requests, faults>>

\* Mutant of Claim: a claim does not advance row_version.
ClaimUnversioned(w) ==
  /\ worker[w].pc = "polled"
  /\ Storable(w) /\ ~lease.live
  /\ lease' = [holder |-> w, run |-> worker[w].run, live |-> TRUE]
  /\ Goto(w, "claimed") /\ UNCHANGED <<cache, fresh>>
  /\ UNCHANGED <<runs, request, requests, faults>>

\* The claim compares row_version and the lease under a lock on the row.
Claim(w) ==
  /\ worker[w].pc = "polled"
  /\ IF Storable(w) /\ ~lease.live
       THEN /\ lease' = [holder |-> w, run |-> worker[w].run, live |-> TRUE]
            /\ fresh' = {w}
            /\ Goto(w, "claimed") /\ UNCHANGED cache
       ELSE Exit(w) /\ UNCHANGED lease
  /\ UNCHANGED <<runs, request, requests, faults>>

\* The lease columns still are this worker's claim, and it has not expired.
Current(w) == lease.holder = w /\ lease.live

Heartbeat(w) ==
  /\ worker[w].pc = "claimed"
  /\ IF Current(w) THEN Goto(w, "deciding") /\ UNCHANGED <<cache, fresh>> ELSE Exit(w)
  /\ UNCHANGED <<runs, lease, request, requests, faults>>

\* Mutant of Writable: the lease is not looked at.
WritableUnleased(w) ==
  LET run == cache[w][worker[w].run]  IN
  run.state = "running" /\ (run.marked => w \in FixtureWorkers)

\* _agent_claim_is_writable tests the run in the loaded snapshot, and only then
\* the lease, which loads a newer snapshot.  A fixture does not look at the mark.
Writable(w) ==
  LET run == cache[w][worker[w].run]  IN
  run.state = "running" /\ (run.marked => w \in FixtureWorkers) /\ Current(w)

\* What _fixture_lease_is_current leaves in the store.
Synced(w) == IF w \in fresh THEN cache[w] ELSE runs

\* The store holds the edited snapshot and is about to write it.
Edit(w, snapshot, pc, outcome) ==
  /\ cache' = [cache EXCEPT ![w] = snapshot]
  /\ fresh' = fresh \cup {w}
  /\ worker' = [worker EXCEPT ![w].pc = pc, ![w].outcome = outcome]
  /\ UNCHANGED <<runs, lease, request, requests, faults>>

\* record_agent_provider_failure: exhausted iterations and repeated failures fail
\* the run, unless the Mock provider takes over.
ProviderFailure(run) ==
  LET counted == [run EXCEPT !.iteration = @ + 1, !.failures = @ + 1, !.marked = FALSE]
      failed  == [counted EXCEPT !.state = "failed"]
  IN  IF counted.iteration >= MaxIterations THEN {failed}
      ELSE IF counted.failures >= MaxFailures THEN {failed, counted} ELSE {counted}

Least(i, j) == IF i <= j THEN i ELSE j

\* One model call: a decision, a provider failure, or an unrepaired tool contract.
Decide(w) ==
  LET snapshot == Synced(w)
      r        == worker[w].run
  IN
  /\ worker[w].pc = "deciding"
  /\ w \notin FixtureWorkers
  /\ Writable(w)
  /\ \/ Edit(w, [snapshot EXCEPT ![r].marked = FALSE], "write_decision", "done")
     \/ \E run \in ProviderFailure(snapshot[r]) :
          Edit(w, [snapshot EXCEPT ![r] = run], "write_failure", "done")
     \/ Edit(w, [snapshot EXCEPT ![r].state = "failed", ![r].marked = FALSE,
                                 ![r].iteration = Least(@ + 1, MaxIterations)],
             "write_stop", "done")

\* A run or a lease that changed during the model call: the claim is released,
\* or, after a provider failure, left to expire.
Refuse(w) ==
  /\ worker[w].pc = "deciding"
  /\ ~Writable(w)
  /\ \/ w \notin FixtureWorkers /\ Goto(w, "releasing") /\ UNCHANGED <<cache, fresh>>
     \/ Exit(w)
  /\ UNCHANGED <<runs, lease, request, requests, faults>>

\* execute_fixture_claim builds the whole script; _finish_run sets its last state.
RunScript(w) ==
  /\ worker[w].pc = "deciding"
  /\ w \in FixtureWorkers
  /\ Writable(w)
  /\ \E state \in {"completed", "failed"} :
       Edit(w, [Synced(w) EXCEPT ![worker[w].run].state = state], "write_script", "done")

\* The tools that edit the run, and the snapshots they leave.
Tested(run) == IF run.tested > 0 THEN {run.tested, run.tested - 1} ELSE {run.tested}

Create(run) == IF run.used < MaxExperiments
  THEN {[run EXCEPT !.used = @ + 1, !.state = "generating"]} ELSE {}

Revise(run) == IF run.repairs < MaxRepairs /\ run.used + run.repairs > 0
  THEN {[run EXCEPT !.repairs = @ + 1, !.tested = n, !.state = "repairing"] : n \in Tested(run)} ELSE {}

Backtest(run) == IF run.tested < run.used + run.repairs
  THEN {[run EXCEPT !.tested = n, !.state = "running"] : n \in {run.tested, run.tested + 1}} ELSE {}

Compare(run) == IF run.tested > 0 THEN {run} ELSE {}

MayFinish(run) == run.tested > 0 \/ run.iteration >= MaxIterations - 1

\* Finishing the root of a series may start its one follow-up run.
Finish(snapshot, r) ==
  LET finished == [snapshot EXCEPT ![r].state = "completed", ![r].marked = FALSE]  IN
  {finished} \cup
  (IF snapshot[r].kind = "root" /\ snapshot[r].child = Nobody /\ snapshot[r].tested > 0
     THEN {[finished EXCEPT ![r].child = c, ![c] = NewRun(state, "follow_up")] :
             c \in Unused(snapshot), state \in Starts}
     ELSE {})

UseTool(w) ==
  LET snapshot == Synced(w)
      r        == worker[w].run
      run      == snapshot[r]
  IN
  /\ worker[w].pc = "tooling"
  /\ Writable(w)
  /\ \/ \E edited \in Create(run) \cup Revise(run) \cup Backtest(run) \cup Compare(run) :
          Edit(w, [snapshot EXCEPT ![r] = edited], "write_tool", "done")
     \/ MayFinish(run) /\ \E edited \in Finish(snapshot, r) : Edit(w, edited, "write_finish", "terminal")
     \/ \E outcome \in {"done", "strict"} : Edit(w, snapshot, "observed", outcome)  \* nothing to write

\* STALE_CLAIM is an observation like any other.
ToolRefused(w) ==
  /\ worker[w].pc = "tooling"
  /\ ~Writable(w)
  /\ Goto(w, "observed")
  /\ UNCHANGED <<runs, lease, cache, fresh, request, requests, faults>>

\* Mutant of Completed: the budget is compared with the count before this step.
CompletedOffByOne(run, outcome) ==
  [run EXCEPT !.iteration = @ + 1, !.failures = 0,
     !.state = IF outcome = "terminal" \/ @ \in Terminal THEN @
               ELSE IF run.iteration >= MaxIterations THEN "failed" ELSE "running",
     !.marked = @ /\ run.state = "cancelled" /\ outcome = "done"]

\* complete_agent_step on the run: it never asks whether the run was cancelled.
Completed(run, outcome) ==
  LET iteration == run.iteration + 1
      exhausted == \/ outcome = "strict" /\ run.used >= MaxExperiments
                   \/ outcome # "terminal" /\ iteration >= MaxIterations
      over      == outcome = "terminal" \/ run.state \in Terminal
  IN [run EXCEPT !.iteration = iteration, !.failures = 0,
        !.state = IF exhausted THEN "failed" ELSE IF over THEN @ ELSE "running",
        !.marked = @ /\ ~exhausted /\ run.state \in Terminal /\ outcome # "terminal"]

CompleteStep(w) ==
  LET r == worker[w].run  IN
  /\ worker[w].pc = "observed"
  /\ Current(w)
  /\ Edit(w, [Synced(w) EXCEPT ![r] = Completed(@, worker[w].outcome)], "write_step", "done")

\* Without the lease the step returns False and releases nothing.
CompletionRefused(w) ==
  /\ worker[w].pc = "observed"
  /\ ~Current(w)
  /\ Exit(w)
  /\ UNCHANGED <<runs, lease, request, requests, faults>>

\* The write of a decision, a provider failure, a completed step or a script: a
\* refused write raises and ends the step with the lease still held.
WriteOrRaise(w, pc, next) ==
  /\ worker[w].pc = pc
  /\ \/ Store(w, cache[w]) /\ Goto(w, next) /\ UNCHANGED <<cache, faults>>
     \/ WriteFails(w) /\ Exit(w) /\ UNCHANGED runs
  /\ UNCHANGED <<lease, request, requests>>

WriteDecision(w) == WriteOrRaise(w, "write_decision", "tooling")
WriteFailure(w)  == WriteOrRaise(w, "write_failure", "releasing")
WriteStep(w)     == WriteOrRaise(w, "write_step", "releasing")

\* The lease and the version are checked once more, without loading again.
WriteScript(w) ==
  \/ Current(w) /\ WriteOrRaise(w, "write_script", "releasing")
  \/ /\ worker[w].pc = "write_script" /\ ~Current(w) /\ Exit(w)
     /\ UNCHANGED <<runs, lease, request, requests, faults>>

\* record_agent_contract_repair_exhausted releases the claim either way.
WriteStop(w) ==
  /\ worker[w].pc = "write_stop"
  /\ \/ Store(w, cache[w]) /\ UNCHANGED faults
     \/ WriteFails(w) /\ UNCHANGED <<runs, fresh>>
  /\ Goto(w, "releasing")
  /\ UNCHANGED <<lease, cache, request, requests>>

\* A tool's write has no restore: when it raises, the runner reports the failure
\* and the store keeps the edited snapshot.
WriteTool(w) ==
  /\ worker[w].pc = "write_tool"
  /\ \/ Store(w, cache[w]) /\ UNCHANGED faults
     \/ WriteFails(w) /\ UNCHANGED <<runs, fresh>>
  /\ Goto(w, "observed")
  /\ UNCHANGED <<lease, cache, request, requests>>

\* finish_agent_research puts the committed snapshot back when its write raises.
WriteFinish(w) ==
  /\ worker[w].pc = "write_finish"
  /\ \/ Store(w, cache[w]) /\ Goto(w, "observed") /\ UNCHANGED <<cache, faults>>
     \/ /\ WriteFails(w) /\ UNCHANGED runs
        /\ cache' = [cache EXCEPT ![w] = runs] /\ fresh' = fresh \cup {w}
        /\ worker' = [worker EXCEPT ![w].pc = "observed", ![w].outcome = "done"]
  /\ UNCHANGED <<lease, request, requests>>

\* release_agent_claim clears a lease that still is this claim.
Release(w) ==
  /\ worker[w].pc = "releasing"
  /\ IF lease.holder = w THEN lease' = NoLease /\ fresh' = {} ELSE UNCHANGED lease /\ fresh' = fresh \ {w}
  /\ Drop(w)
  /\ UNCHANGED <<runs, request, requests, faults>>

Crash(w) ==
  /\ worker[w] # IdleWorker
  /\ faults < MaxFaults
  /\ faults' = faults + 1
  /\ Exit(w)
  /\ UNCHANGED <<runs, lease, request, requests>>

\* A claim in progress; its lease can only expire when the worker stalls.
Working(w) == worker[w].pc \notin {"idle", "polled"}

ExpireLease ==
  /\ lease.live
  /\ lease' = [lease EXCEPT !.live = FALSE]
  /\ IF Working(lease.holder) THEN faults < MaxFaults /\ faults' = faults + 1 ELSE UNCHANGED faults
  /\ UNCHANGED <<runs, cache, fresh, worker, request, requests>>

-----------------------------------------------------------------------------
Handle(t) ==
  \/ CreateRun(t) \/ ApprovePlan(t) \/ RequestPlanChanges(t) \/ CancelRun(t)
  \/ InvalidateLease(t) \/ RetryRun(t) \/ EndRequest(t)

Step(w) ==
  \/ Poll(w) \/ Claim(w) \/ Heartbeat(w) \/ Decide(w) \/ Refuse(w) \/ RunScript(w)
  \/ UseTool(w) \/ ToolRefused(w) \/ CompleteStep(w) \/ CompletionRefused(w)
  \/ WriteDecision(w) \/ WriteFailure(w) \/ WriteStep(w) \/ WriteScript(w)
  \/ WriteStop(w) \/ WriteTool(w) \/ WriteFinish(w) \/ Release(w)

Next ==
  \/ \E t \in Threads, op \in {"create", "approve", "replan", "cancel", "retry"}, r \in Runs : Load(t, op, r)
  \/ \E t \in Threads : Handle(t)
  \/ \E w \in Workers : Step(w) \/ Crash(w)
  \/ ExpireLease

Spec == Init /\ [][Next]_vars

\* Requests end, live workers keep polling and working, and the lease of a
\* worker that is gone runs out.  Nobody has to send a request.
Fairness ==
  /\ \A t \in Threads : WF_vars(Handle(t))
  /\ \A w \in Workers : WF_vars(Step(w))
  /\ WF_vars(ExpireLease /\ ~Working(lease.holder))

FairSpec == Spec /\ Fairness
-----------------------------------------------------------------------------
(* Properties.                                                             *)

\* The agent never spends more than the approved plan: experiments, repairs and
\* iterations stay within their budgets, and a run that may still be polled has
\* an iteration left, whatever was restored, conflicted or retried on the way.
BudgetsHold ==
  \A r \in Runs :
    /\ runs[r].used <= MaxExperiments /\ runs[r].repairs <= MaxRepairs
    /\ runs[r].tested <= runs[r].used + runs[r].repairs
    /\ runs[r].iteration <= MaxIterations
    /\ runs[r].state = "running" => runs[r].iteration < MaxIterations

\* No write undoes what another committed, although each of them replaces the
\* whole workspace: runs, links and spent budget never go back.
NothingLost ==
  [][\A r \in Runs :
       /\ runs[r].state # "none" => runs'[r].state # "none"
       /\ runs'[r].iteration >= runs[r].iteration
       /\ runs'[r].used >= runs[r].used /\ runs'[r].repairs >= runs[r].repairs
       /\ runs[r].child # Nobody => runs'[r].child = runs[r].child
       /\ runs[r].kind # "single" => runs'[r].kind = runs[r].kind]_vars

\* A worker commits only under the claim it holds: to the claimed run, and to a
\* new follow-up run.  A worker that was overtaken commits nothing.
FencedWrites ==
  [][\A w \in Workers : worker'[w] # worker[w] /\ runs' # runs =>
       /\ lease.holder = w
       /\ \A r \in Runs : runs'[r] # runs[r] => r = lease.run \/ runs[r].state = "none"]_vars

\* A completed or failed run is immutable, whoever still works on it.
FinishedIsFinal ==
  [][\A r \in Runs : runs[r].state \in {"completed", "failed"} => runs'[r].state = runs[r].state]_vars

\* Once no claim on a cancelled run is left, nothing revives it: neither a worker
\* that polled it before, nor one that held it, nor a request.
CancelHolds ==
  [][\A r \in Runs :
       runs[r].state = "cancelled" /\ lease.run # r => runs'[r].state = "cancelled"]_vars

\* Documented (docs/POKIEQUANT_STATE_MATRIX.md:138): terminal run records are immutable.
CancelledIsFinal ==
  [][\A r \in Runs : runs[r].state = "cancelled" => runs'[r].state = "cancelled"]_vars

\* A run left inside a tool: its claim is gone, and only running runs are polled.
Stranded(r) ==
  /\ runs[r].state \in {"generating", "repairing"}
  /\ \A w \in Workers : Working(w) => worker[w].run # r

NoCancellation == [](\A t \in Threads : request[t].op # "cancel")

\* Without cancellations every running run comes to an end, through conflicts,
\* provider failures, crashes and lost leases, or is left inside a tool.
RunsFinishOrStrand ==
  NoCancellation =>
    \A r \in Runs : runs[r].state = "running" ~> runs[r].state \in Terminal \/ Stranded(r)

\* Documented (docs/POKIEQUANT_AUTONOMOUS_AGENT_IMPLEMENTATION.md:85): rebuilding
\* the store between polls recovers from durable state.
RunsFinish ==
  NoCancellation => \A r \in Runs : runs[r].state = "running" ~> runs[r].state \in Terminal
=============================================================================
