----------------------------- MODULE ResearchRuns -----------------------------
(***************************************************************************)
(* One Research Run: the workers that claim it, write its events and its   *)
(* result, the API request that cancels it, and the client that follows    *)
(* its event stream.                                                       *)
(*                                                                         *)
(*   services/api/app/modules/research/service.py      claim, start, result*)
(*   services/api/app/modules/common.py                append_run_event    *)
(*   services/worker/app/repositories/sqlalchemy_adapter.py                *)
(*   services/worker/app/pipelines/{research,model_research}.py            *)
(*   services/api/app/api/routes_research.py           cancel, stream      *)
(*   apps/mac/src/{sse.ts,lib/run-cursor.ts,hooks/useRunStream.ts}         *)
(*                                                                         *)
(* The database runs at READ COMMITTED.  A transaction that only updates   *)
(* rows it has locked is one step; one that read the run before it locked  *)
(* it is two, and the first leaves what it read in the process.  An event  *)
(* append is two steps as well, so that the row lock it holds between them *)
(* is part of the model.  Time is the lease: live, or late once it passed. *)
(***************************************************************************)
EXTENDS Naturals, Sequences, FiniteSets

CONSTANTS
  Workers,      \* worker processes
  Attempts,     \* worker attempt ids; an id is used again once nothing holds it
  Nobody,       \* no attempt, no lock holder
  Jobs,         \* the runs considered: [kind, evidence, flags]
  MayLackProvider, \* may the model configuration be missing or invalid?
  Watched,      \* is there a client?
  MaxLates,     \* leases that run out under a worker that still works
  MaxCrashes,   \* worker processes that die
  MaxCancels,   \* cancel requests
  MaxCuts,      \* connections lost
  MaxReloads    \* times the window is opened again

ASSUME AttemptsAreNumbers == Attempts \subseteq Nat

ASSUME NobodyIsNone == Nobody \notin Attempts \cup Workers

Kinds == {"rules", "model"}

ASSUME JobsTyped ==
  Jobs \subseteq [kind : Kinds, evidence : BOOLEAN, flags : BOOLEAN]

VARIABLES
  job,      \* the run's immutable input: its generation method and content
  run,      \* the row: [state, attempt, lease, latest]
  events,   \* the run_events rows: [seq, what]
  results,  \* attempts whose Evidence and Claim rows exist
  holder,   \* who holds the row's lock: a worker inside append_run_event
  worker,   \* per worker: [todo, attempt, phase, base, known]
  cancels,  \* [asked, reading]: requests made; those that have read an unfinished run
  client,   \* [phase, heard, cursor, shown]
  faults,   \* [lates, crashes, cuts, reloads]
  overtaken \* HISTORY: a lease ran out between a result's check and its commit

vars == <<job, run, events, results, holder, worker, cancels, client, faults, overtaken>>

Terminal   == {"completed", "failed", "cancelled"}
Unfinished == {"queued", "running", "waiting_for_input"}
States     == Unfinished \cup Terminal

(***************************************************************************)
(* What an event says.  Most keys are the run, the type and the payload, so*)
(* every attempt writes the same one; the keys of mark_started and of the  *)
(* result name the attempt.                                                *)
(***************************************************************************)
Shared(name) == [name |-> name, by |-> Nobody]
Own(name, attempt) == [name |-> name, by |-> attempt]

TerminalWhat(s) == {e.what.name : e \in s} \cap {"completed", "cancelled"}

(***************************************************************************)
(* The worker's program, DeterministicResearchRunner.run or                *)
(* DeepSeekResearchRunner.run, as the calls it makes on the domain adapter.*)
(***************************************************************************)
When(condition, steps) == IF condition THEN steps ELSE <<>>

RulesProgram(j) ==
  <<"start", "task_started", "beat">>
  \o When(j.flags, <<"injection">>)
  \o When(~j.evidence, <<"no_evidence">>)
  \o <<"task_completed", "beat", "review">>
  \o When(j.evidence, <<"persist">>)
  \o <<"complete">>

\* A graph that proposes nothing, and content with markers, raise.
ModelProgram(j) ==
  <<"start", "task_started", "beat", "propose">>
  \o IF j.evidence /\ ~j.flags
     THEN <<"task_completed", "review", "beat", "persist", "complete">>
     ELSE When(j.evidence, <<"injection">>) \o <<"raise">>

Program(j) == IF j.kind = "rules" THEN RulesProgram(j) ELSE ModelProgram(j)

Failure       == <<"task_failed", "fail">>
ConfigFailure == <<"config_failed", "fail">>

EventSteps == {"task_started", "injection", "no_evidence", "task_completed", "review",
               "task_failed", "config_failed"}

IdleWorker == [todo |-> <<>>, attempt |-> Nobody, phase |-> "ready", base |-> 0, known |-> {}]

Init ==
  /\ job \in Jobs
  /\ run = [state |-> "queued", attempt |-> Nobody, lease |-> "none", latest |-> 1]
  /\ events = {[seq |-> 1, what |-> Shared("queued")]}
  /\ results = {}
  /\ holder = Nobody
  /\ worker = [w \in Workers |-> IdleWorker]
  /\ cancels = [asked |-> 0, reading |-> 0]
  /\ client = [phase |-> "off", heard |-> Nobody, cursor |-> 0, shown |-> {}]
  /\ faults = [lates |-> 0, crashes |-> 0, cuts |-> 0, reloads |-> 0]
  /\ overtaken = FALSE

(***************************************************************************)
(* Helpers on the row, the events and the worker.                          *)
(***************************************************************************)
\* Mutant of RowFree: no no-op update locks the row before the key is looked up.
RowUnlocked == TRUE

RowFree == holder = Nobody

WhatIsKnown == {e.what : e \in events}

\* Records of the given kinds, numbered after n.
Numbered(n, whats) == {[seq |-> n + i, what |-> whats[i]] : i \in 1..Len(whats)}

AtStep(w, step) ==
  /\ worker[w].todo # <<>>
  /\ Head(worker[w].todo) = step
  /\ worker[w].phase = "ready"

Proceed(w) ==
  worker' = [worker EXCEPT ![w] =
    IF Len(worker[w].todo) = 1
    THEN IdleWorker
    ELSE [IdleWorker EXCEPT !.todo = Tail(worker[w].todo), !.attempt = worker[w].attempt]]

(***************************************************************************)
(* An exception.  The model runner catches one raised after task.started,  *)
(* records the failure and raises it again; any other one ends the attempt *)
(* at once.                                                                *)
(***************************************************************************)
Caught(w) ==
  /\ job.kind = "model"
  /\ Head(worker[w].todo) \notin {"start", "task_started", "task_failed", "fail"}

Raise(w) ==
  worker' = [worker EXCEPT ![w] =
    IF Caught(w) THEN [IdleWorker EXCEPT !.todo = Failure, !.attempt = worker[w].attempt]
    ELSE IdleWorker]

HasLease(a) == run.attempt = a /\ run.lease = "live"

(***************************************************************************)
(* _run_research_once: claim_queued takes a queued or running run whose    *)
(* lease is absent or has passed, under an attempt id nobody else uses.    *)
(* When the model provider is not configured the attempt only records the  *)
(* failure.                                                                *)
(***************************************************************************)
\* Mutant of Claimable: an attempt that died is never taken over.
ClaimableQueued == run.state = "queued" /\ run.lease \in {"none", "late"}

Claimable == run.state \in {"queued", "running"} /\ run.lease \in {"none", "late"}

FreeAttempts ==
  Attempts \ ({worker[w].attempt : w \in Workers} \cup {e.what.by : e \in events})

Claim(w) ==
  /\ worker[w].todo = <<>>
  /\ RowFree
  /\ Claimable
  /\ \E a \in FreeAttempts :
     /\ \A b \in FreeAttempts : a <= b
     /\ run' = [run EXCEPT !.attempt = a, !.lease = "live"]
     /\ \E todo \in {Program(job)} \cup
                    (IF job.kind = "model" /\ MayLackProvider THEN {ConfigFailure} ELSE {}) :
          worker' = [worker EXCEPT ![w] = [IdleWorker EXCEPT !.todo = todo, !.attempt = a]]
  /\ UNCHANGED <<job, events, results, holder, cancels, client, faults, overtaken>>

(***************************************************************************)
(* transition_research_run to running: the row is locked, a run that is    *)
(* running already is left alone whoever asks, and mark_started starts a   *)
(* queued one for the attempt that holds its lease.                        *)
(***************************************************************************)
MayStart(w) == run.state = "queued" /\ HasLease(worker[w].attempt)

Start(w) ==
  /\ AtStep(w, "start")
  /\ RowFree
  /\ \/ /\ run.state = "running"
        /\ Proceed(w)
        /\ UNCHANGED <<run, events>>
     \/ /\ MayStart(w)
        /\ run' = [run EXCEPT !.state = "running", !.latest = @ + 1]
        /\ events' = events \cup Numbered(run.latest, <<Own("started", worker[w].attempt)>>)
        /\ Proceed(w)
     \/ /\ run.state # "running" /\ ~MayStart(w)
        /\ Raise(w)
        /\ UNCHANGED <<run, events>>
  /\ UNCHANGED <<job, results, holder, cancels, client, faults, overtaken>>

(***************************************************************************)
(* append_run_event: a no-op update locks the run's row; under the lock the*)
(* key is looked up and, when it is new, the next number is taken and the  *)
(* event inserted.  The lock is released by the commit.  Nothing here asks *)
(* whether the attempt still owns the run, or in what state the run is.    *)
(***************************************************************************)
LockForEvent(w) ==
  /\ \E step \in EventSteps : AtStep(w, step)
  /\ RowFree
  /\ holder' = w
  /\ worker' = [worker EXCEPT ![w] =
       [@ EXCEPT !.phase = "locked", !.base = run.latest, !.known = WhatIsKnown]]
  /\ UNCHANGED <<job, run, events, results, cancels, client, faults, overtaken>>

AppendEvent(w) ==
  /\ worker[w].phase = "locked"
  /\ LET what == Shared(Head(worker[w].todo)) IN
     IF what \in worker[w].known
     THEN UNCHANGED <<run, events>>
     ELSE /\ events' = events \cup Numbered(worker[w].base, <<what>>)
          /\ run' = [run EXCEPT !.latest = worker[w].base + 1]
  /\ holder' = Nobody
  /\ Proceed(w)
  /\ UNCHANGED <<job, results, cancels, client, faults, overtaken>>

(***************************************************************************)
(* heartbeat_research_run: an update that asks for the attempt and a lease *)
(* that has not passed, not for the state.                                 *)
(***************************************************************************)
Beat(w) ==
  /\ AtStep(w, "beat")
  /\ RowFree
  /\ IF HasLease(worker[w].attempt) THEN Proceed(w) ELSE Raise(w)
  /\ UNCHANGED <<job, run, events, results, holder, cancels, client, faults, overtaken>>

(***************************************************************************)
(* The model graph: the provider's answer is usable or it is not.          *)
(***************************************************************************)
Propose(w) ==
  /\ \/ AtStep(w, "propose") /\ (Proceed(w) \/ Raise(w))
     \/ AtStep(w, "raise") /\ Raise(w)
  /\ UNCHANGED <<job, run, events, results, holder, cancels, client, faults, overtaken>>

(***************************************************************************)
(* persist_research_proposals and persist_deterministic_result: the run is *)
(* read without a lock and checked; the events, the Evidence, the Claim and*)
(* the state completed are written later, in the transaction whose first   *)
(* append takes the lock.  The columns written do not depend on what became*)
(* of the row in between.                                                  *)
(***************************************************************************)
\* Mutant of MayPersist: the result is checked for the state, not for the attempt.
MayPersistAnyone(w) == run.state = "running"

MayPersist(w) == run.state = "running" /\ HasLease(worker[w].attempt)

CheckResult(w) ==
  /\ AtStep(w, "persist")
  /\ IF MayPersist(w)
     THEN worker' = [worker EXCEPT ![w].phase = "checked"]
     ELSE Raise(w)
  /\ UNCHANGED <<job, run, events, results, holder, cancels, client, faults, overtaken>>

ResultEvents(a) ==
  <<Own("evidence", a), Own("claim", a)>>
  \o When(job.flags, <<Own("injection_review", a)>>)
  \o <<Own("completed", a)>>

CommitResult(w) ==
  /\ worker[w].phase = "checked"
  /\ RowFree
  /\ LET a == worker[w].attempt IN
     /\ events' = events \cup Numbered(run.latest, ResultEvents(a))
     /\ run' = [run EXCEPT !.state = "completed", !.lease = "none",
                           !.latest = @ + Len(ResultEvents(a))]
     /\ results' = results \cup {a}
  /\ Proceed(w)
  /\ UNCHANGED <<job, holder, cancels, client, faults, overtaken>>

(***************************************************************************)
(* transition_research_run to completed never writes: the result's own     *)
(* transaction does.  A run that is not completed by now keeps its state,  *)
(* and its lease.                                                          *)
(***************************************************************************)
Complete(w) ==
  /\ AtStep(w, "complete")
  /\ RowFree
  /\ IF run.state = "completed" \/ (run.state = "running" /\ HasLease(worker[w].attempt))
     THEN Proceed(w)
     ELSE Raise(w)
  /\ UNCHANGED <<job, run, events, results, holder, cancels, client, faults, overtaken>>

(***************************************************************************)
(* transition_research_run to failed asks only for the attempt, not for the*)
(* state the run is in, and no event is written.                           *)
(***************************************************************************)
Fail(w) ==
  /\ AtStep(w, "fail")
  /\ RowFree
  /\ run' = IF run.attempt = worker[w].attempt THEN [run EXCEPT !.state = "failed"] ELSE run
  /\ Raise(w)
  /\ UNCHANGED <<job, events, results, holder, cancels, client, faults, overtaken>>

(***************************************************************************)
(* A worker process dies; its transaction is rolled back.                  *)
(***************************************************************************)
Crash(w) ==
  /\ worker[w].todo # <<>>
  /\ faults.crashes < MaxCrashes
  /\ faults' = [faults EXCEPT !.crashes = @ + 1]
  /\ worker' = [worker EXCEPT ![w] = IdleWorker]
  /\ holder' = IF holder = w THEN Nobody ELSE holder
  /\ UNCHANGED <<job, run, events, results, cancels, client, overtaken>>

(***************************************************************************)
(* The lease passes: sooner or later when nobody works under it, and a few *)
(* times while somebody does.                                              *)
(***************************************************************************)
Abandoned == \A w \in Workers : worker[w].attempt # run.attempt

LeasePasses ==
  /\ run.lease = "live"
  /\ run' = [run EXCEPT !.lease = "late"]
  /\ \/ Abandoned /\ UNCHANGED <<faults, overtaken>>
     \/ /\ ~Abandoned
        /\ faults.lates < MaxLates
        /\ faults' = [faults EXCEPT !.lates = @ + 1]
        /\ overtaken' = (overtaken \/ \E w \in Workers : worker[w].phase = "checked")
  /\ UNCHANGED <<job, events, results, holder, worker, cancels, client>>

(***************************************************************************)
(* cancel_research_run: the route reads the run without a lock and checks  *)
(* it; the state it writes later is refused by the trigger                 *)
(* glint_guard_api_research_run_state unless the row, as it then is, is    *)
(* unfinished (or cancelled already).                                      *)
(***************************************************************************)
ReadForCancel ==
  /\ cancels.asked < MaxCancels
  /\ run.state \in Unfinished
  /\ cancels' = [asked |-> cancels.asked + 1, reading |-> cancels.reading + 1]
  /\ UNCHANGED <<job, run, events, results, holder, worker, client, faults, overtaken>>

\* Mutant of GuardAllowsCancel: the table without the trigger.
NoTrigger == TRUE

GuardAllowsCancel == run.state \in Unfinished \cup {"cancelled"}

CommitCancel ==
  /\ cancels.reading > 0
  /\ RowFree
  /\ cancels' = [cancels EXCEPT !.reading = @ - 1]
  /\ IF GuardAllowsCancel
     THEN LET new == IF Shared("cancelled") \in WhatIsKnown THEN <<>> ELSE <<Shared("cancelled")>> IN
          /\ events' = events \cup Numbered(run.latest, new)
          /\ run' = [run EXCEPT !.state = "cancelled", !.latest = @ + Len(new)]
     ELSE UNCHANGED <<run, events>>
  /\ UNCHANGED <<job, results, holder, worker, client, faults, overtaken>>

(***************************************************************************)
(* stream_run_events and useRunStream.  A connection starts after the event*)
(* the client names.  Each round the server reads the run, then the events *)
(* after its place, sends them, and closes when the state it had read was  *)
(* terminal; the client then asks for the run once more and stops if it is *)
(* over.  The client's place survives a closed window in localStorage, what*)
(* it shows does not; a window opened on a finished run replays it all.    *)
(***************************************************************************)
\* Mutant of Poll: the events are read first, and the run after them.
PollEventsFirst(c) ==
  [rows |-> {e.seq : e \in {f \in events : f.seq > c.cursor /\ f.seq <= c.heard.latest}},
   state |-> run.state]

Poll(c) == [rows |-> {e.seq : e \in {f \in events : f.seq > c.cursor}},
            state |-> c.heard.state]

\* Mutant of EndsStream: the states a client hears of by an event.
EndsStreamByEvent(s) == s \in {"completed", "cancelled"}

\* The states that end the server's loop and the client's reconnecting.
EndsStream(s) == s \in Terminal

\* reconcileRunCursor: the rows up to the first hole; a hole calls for a reset.
InOrder(c, rows) ==
  IF c.cursor = 0 THEN rows ELSE {n \in rows : (c.cursor + 1)..n \subseteq rows}

LastOf(rows, default) ==
  IF rows = {} THEN default ELSE CHOOSE n \in rows : \A m \in rows : m <= n

\* Mutant of ShowRows: the place is kept only when the stream has ended.
ShowWithoutPlace(c, rows) == [c EXCEPT !.shown = @ \cup rows]

ShowRows(c, rows) ==
  [c EXCEPT !.cursor = LastOf(rows, @), !.shown = @ \cup rows]

Connect ==
  /\ Watched
  /\ client.phase = "off"
  /\ client' = [client EXCEPT !.phase = "open", !.heard = Nobody]
  /\ UNCHANGED <<job, run, events, results, holder, worker, cancels, faults, overtaken>>

StreamReadsRun ==
  /\ client.phase = "open"
  /\ client.heard = Nobody
  /\ client' = [client EXCEPT !.heard = [state |-> run.state, latest |-> run.latest]]
  /\ UNCHANGED <<job, run, events, results, holder, worker, cancels, faults, overtaken>>

StreamSendsEvents ==
  /\ client.phase = "open"
  /\ client.heard # Nobody
  /\ LET poll == Poll(client)
         kept == InOrder(client, poll.rows)
         next == [ShowRows(client, kept) EXCEPT !.heard = Nobody]
     IN client' = CASE kept # poll.rows -> [next EXCEPT !.phase = "off", !.cursor = 0, !.shown = {}]
                    [] kept = poll.rows /\ EndsStream(poll.state) -> [next EXCEPT !.phase = "stopped"]
                    [] OTHER -> next
  /\ UNCHANGED <<job, run, events, results, holder, worker, cancels, faults, overtaken>>

\* The connection is lost after part of what the server sent.
Cut ==
  /\ client.phase = "open"
  /\ faults.cuts < MaxCuts
  /\ faults' = [faults EXCEPT !.cuts = @ + 1]
  /\ \E n \in client.cursor..run.latest :
       LET sent == IF client.heard = Nobody THEN {}
                   ELSE {m \in Poll(client).rows : m <= n}
       IN client' = [ShowRows(client, sent) EXCEPT !.phase = "off", !.heard = Nobody]
  /\ UNCHANGED <<job, run, events, results, holder, worker, cancels, overtaken>>

Reload ==
  /\ Watched
  /\ faults.reloads < MaxReloads
  /\ faults' = [faults EXCEPT !.reloads = @ + 1]
  /\ client' = [phase |-> "off", heard |-> Nobody, shown |-> {},
                cursor |-> IF run.state \in Terminal THEN 0 ELSE client.cursor]
  /\ UNCHANGED <<job, run, events, results, holder, worker, cancels, overtaken>>

WorkerStep(w) ==
  \/ Start(w) \/ LockForEvent(w) \/ AppendEvent(w) \/ Beat(w) \/ Propose(w)
  \/ CheckResult(w) \/ CommitResult(w) \/ Complete(w) \/ Fail(w)

ClientStep == Connect \/ StreamReadsRun \/ StreamSendsEvents

Next ==
  \/ \E w \in Workers : Claim(w) \/ WorkerStep(w) \/ Crash(w)
  \/ LeasePasses
  \/ ReadForCancel \/ CommitCancel
  \/ ClientStep \/ Cut \/ Reload

Spec == Init /\ [][Next]_vars

(***************************************************************************)
(* Fairness.  The worker loop polls and takes its next step for ever, the  *)
(* database commits, a lease nobody renews passes, and the open window     *)
(* reconnects after every lost connection.  Nothing is assumed of crashes, *)
(* cancellations, lost connections or slow workers but that they are few.  *)
(***************************************************************************)
Fairness ==
  /\ \A w \in Workers : WF_vars(Claim(w)) /\ WF_vars(WorkerStep(w))
  /\ WF_vars(LeasePasses /\ Abandoned)
  /\ WF_vars(CommitCancel)
  /\ WF_vars(ClientStep)

FairSpec == Spec /\ Fairness

-----------------------------------------------------------------------------
(* Properties.                                                             *)

\* Every variable keeps its shape, and the row lock is held by who appends.
TypeOK ==
  /\ job \in Jobs
  /\ run \in [state : States, attempt : Attempts \cup {Nobody},
              lease : {"none", "live", "late"}, latest : Nat]
  /\ \A e \in events : e.seq \in 1..run.latest /\ e.what.by \in Attempts \cup {Nobody}
  /\ results \subseteq Attempts
  /\ holder \in Workers \cup {Nobody}
  /\ \A w \in Workers :
       /\ worker[w].phase \in {"ready", "locked", "checked"}
       /\ (worker[w].phase = "locked") <=> (holder = w)
       /\ (worker[w].attempt = Nobody) <=> (worker[w].todo = <<>>)
  /\ client.phase \in {"off", "open", "stopped"}
  /\ client.shown \subseteq 1..run.latest

(***************************************************************************)
(* The row and its event list agree on how the run ended: the last terminal*)
(* event of a run that is completed or cancelled is run.completed or       *)
(* run.cancelled.  (A failed run has no terminal event of its own.)  The   *)
(* row is written from a read that may be stale, so a cancellation and a   *)
(* result may both commit.                                                 *)
(***************************************************************************)
StateFollowsEvents ==
  run.state \in {"completed", "cancelled"} =>
    \E e \in events :
      /\ e.what.name = run.state
      /\ \A f \in events : f.what.name \in {"completed", "cancelled"} => f.seq <= e.seq

(***************************************************************************)
(* A run gets one set of Evidence and one Claim, and once it has them it   *)
(* stays completed: no other attempt adds its own, no cancellation and no  *)
(* failure of an attempt that came late takes the run back.  The exception *)
(* is a lease that passes between the check and the commit of a result.    *)
(***************************************************************************)
ResultIsFinal ==
  ~overtaken =>
    /\ Cardinality(results) <= 1
    /\ results # {} => run.state = "completed"

(***************************************************************************)
(* The event list and the client's view of it implement RunFeed: dense     *)
(* numbers, no occurrence twice, and nothing skipped or shown out of order.*)
(***************************************************************************)
Feed == INSTANCE RunFeed WITH
  FirstWhat <- Shared("queued"), cursor <- client.cursor, shown <- client.shown

FeedIsKept == Feed!Spec

(***************************************************************************)
(* A client that has stopped shows how the run ended, unless it failed: the*)
(* server reads the state before the events, so that it never closes the   *)
(* stream on a state whose event it has not sent.                          *)
(***************************************************************************)
StoppedShowsTheEnd ==
  client.phase = "stopped" =>
    \/ run.state = "failed"
    \/ \E e \in events : e.seq \in client.shown /\ e.what.name \in {"completed", "cancelled"}

(***************************************************************************)
(* A run ends, whatever its workers go through, unless it is a run of the  *)
(* deterministic kind that finds no evidence.                              *)
(***************************************************************************)
RunEnds == (job.kind = "model" \/ job.evidence) => <>(run.state \in Terminal)

\* Whoever follows a run that is over learns that it is, and stops asking.
ClientSettles == (run.state \in Terminal) ~> (client.phase = "stopped")

(***************************************************************************)
(* packages/domain/lifecycle.py: completed, failed and cancelled are       *)
(* terminal, and only a running run fails.                                 *)
(***************************************************************************)
Canonical == INSTANCE RunLifecycle WITH state <- run.state

FollowsLifecycle == Canonical!Spec
=============================================================================
