---------------------------- MODULE QuantLearning ----------------------------
(***************************************************************************)
(* How the quant agent learns from rejected tool calls, and what a saved   *)
(* workspace must look like to be loaded again.  A call that fails closed  *)
(* validation leaves a typed repair in the run's event stream; the next    *)
(* decision must apply it or the run stops.  The outcome of the episode is *)
(* published as a learning trace, traces are pinned as repair memory by    *)
(* later runs, and a pinned repair is applied to the same mistake with a   *)
(* receipt.  _restore_workspace reads all of it back and refuses the whole *)
(* workspace when one link is wrong.                                       *)
(*                                                                         *)
(* One process at a time holds the worker lease; what a process without it *)
(* can write is QuantWorkspace's subject.  Here a cancelled request and    *)
(* the worker meet between the commit of the cancellation and the fence.   *)
(***************************************************************************)
EXTENDS Integers, Sequences, FiniteSets

CONSTANTS
  Runs,                 \* run slots; their order is the order of creation
  Nobody,               \* "no run"
  Create, Finish,       \* the actions: one tool that edits, and finish_research
  Calls,                \* tool calls
  Offers,               \* the calls the model may propose in each run
  NoCall,               \* "no call"
  MaxIterations,        \* run.max_agent_iterations
  MaxProviderFailures,  \* MAX_CONSECUTIVE_AGENT_PROVIDER_FAILURES
  AllowFallback,        \* the allow_mock_fallback setting
  MaxSources,           \* traces named by one memory entry
  MaxEntries,           \* entries of one repair memory
  MaxFaults,            \* bound on cancellations and crashes of the worker
  MaxStarts             \* bound on the calls a run starts

\* The arguments of a call: one field the contract constrains, one field it
\* does not accept, and the rest.
Arguments == [action: {Create, Finish}, need: {"absent", "null", "bad", "worse", "good"},
              extra: BOOLEAN, rest: {1, 2}]

ASSUME LearningConstants ==
  /\ Runs \subseteq Nat /\ IsFiniteSet(Runs) /\ Nobody \notin Runs
  /\ Create # Finish
  /\ Calls \subseteq Arguments /\ NoCall \notin Calls
  /\ \A c \in Calls : [c EXCEPT !.extra = FALSE] \in Calls
  /\ Offers \in [Runs -> SUBSET Calls]
  /\ {MaxIterations, MaxProviderFailures, MaxSources, MaxEntries, MaxFaults, MaxStarts}
       \subseteq Nat
  /\ AllowFallback \in BOOLEAN

VARIABLES
  runs,      \* the run rows
  events,    \* their event streams
  traces,    \* their learning traces
  lease,     \* the run the worker's lease is on, or Nobody
  worker,    \* where the worker is in its step
  unfenced,  \* cancelled runs whose lease the request has not yet taken away
  clock,     \* the time of the last trace or new run
  faults     \* counter for the bound

vars == <<runs, events, traces, lease, worker, unfenced, clock, faults>>

Max(S) == CHOOSE n \in S : \A m \in S : m <= n

-----------------------------------------------------------------------------
(* Validation and repairs.                                                 *)

\* finish_research is told to supply the field when it is absent or null.
Lacks(c) == c.need = "absent" \/ (c.action = Finish /\ c.need = "null")

\* A create_candidate call with a surplus field is told to remove it before
\* anything else is said of it.
Surplus(c) == c.extra /\ (c.action = Create \/ c.need = "good")

\* What validation says of a call.
Violations(c) ==
  (IF Surplus(c) THEN {[path |-> "extra", change |-> "remove"]} ELSE {}) \cup
  (IF c.need = "good" \/ (c.action = Create /\ c.extra) THEN {}
   ELSE {[path |-> "need", change |-> IF Lacks(c) THEN "supply" ELSE "replace"]})

Valid(c) == Violations(c) = {}

\* The action-only repair of a replan ("worse"): every other argument of the
\* call stays as it was.
ReplanOnly(c) == c.action = Create /\ c.need = "worse" /\ ~c.extra
SameButNeed(d, c) == [d EXCEPT !.need = c.need] = c

\* _applies_tool_repair.  Where the repair names the allowed values the new
\* one is among them.
Applies(d, c) ==
  /\ d.action = c.action
  /\ \A v \in Violations(c) :
       CASE v.change = "remove"  -> ~d.extra
         [] v.change = "supply"  -> d.need # "absent"
         [] v.change = "replace" -> d.need \notin {"absent", c.need}
  /\ c.action = Finish /\ c.need # "good" => d.need = "good"
  /\ ReplanOnly(c) => d.need = "good" /\ SameButNeed(d, c)

\* _learning_delta: whether the change of every violated field can be told
\* from the two calls.  A field that is to be supplied must not be there yet.
HasDelta(c, d) ==
  \A v \in Violations(c) :
    CASE v.change = "remove"  -> c.extra /\ ~d.extra
      [] v.change = "supply"  -> c.need = "absent" /\ d.need # "absent"
      [] v.change = "replace" -> c.need # "absent" /\ d.need \notin {"absent", c.need}

-----------------------------------------------------------------------------
(* Runs, events and traces.                                                *)

Terminal  == {"completed", "failed", "cancelled"}
RunStates == Terminal \cup {"none", "running"}

EventTypes == {"selected", "reused", "started", "completed", "failed", "invalid", "stopped",
               "provider_failed", "fallback", "run_ended", "run_cancelled", "published"}

TraceIds == Runs \X Nat
Entries  == [call: Calls, sources: SUBSET TraceIds]
RunRow   == [state: RunStates, provider: {"model", "mock"}, iteration: Nat, failures: Nat,
             retry_of: Runs \cup {Nobody}, memory: SUBSET Entries, created: Nat]

\* An event: its type, the call it is about, the traces a receipt names.
Event(type, call) == [type |-> type, call |-> call, sources |-> {}]
Receipt(entry)    == [type |-> "reused", call |-> entry.call, sources |-> entry.sources]
Events == [type: EventTypes, call: Calls \cup {NoCall}, sources: SUBSET TraceIds]

\* A trace: the failed event, the outcome and its event, the corrected start
\* (0 for a stopped episode), who proposed the calls and when it was closed.
Traces == [failed: Nat, outcome: {"resolved", "failed", "stopped"}, at: Nat, start: Nat,
           provider: {"model", "mock"}, closed: Nat]

IdleWorker == [pc |-> "idle", run |-> Nobody, call |-> NoCall, type |-> "selected"]

TypeOK ==
  /\ runs \in [Runs -> RunRow]
  /\ events \in [Runs -> Seq(Events)]
  /\ traces \in [Runs -> SUBSET Traces]
  /\ lease \in Runs \cup {Nobody}
  /\ worker \in [pc: {"idle", "claimed", "started", "observed"}, run: Runs \cup {Nobody},
                 call: Calls \cup {NoCall}, type: EventTypes]
  /\ worker.pc # "idle" => worker.run \in Runs
  /\ worker.pc \in {"started", "observed"} => worker.call \in Calls
  /\ unfenced \subseteq Runs
  /\ clock \in Nat /\ faults \in Nat

NewRun == [state |-> "none", provider |-> "model", iteration |-> 0, failures |-> 0,
           retry_of |-> Nobody, memory |-> {}, created |-> 0]

Init ==
  /\ runs = [r \in Runs |-> NewRun]
  /\ events = [r \in Runs |-> <<>>]
  /\ traces = [r \in Runs |-> {}]
  /\ lease = Nobody
  /\ worker = IdleWorker
  /\ unfenced = {}
  /\ clock = 0 /\ faults = 0

ToolTypes == {"started", "completed", "failed", "invalid"}
Outcomes  == {"completed", "failed", "invalid"}

Indices(log, types) == {i \in DOMAIN log : log[i].type \in types}

\* The last index below a bound with one of these types, 0 if there is none.
LastBefore(log, types, i) == Max({0} \cup {j \in Indices(log, types) : j < i})

\* latest_invalid_tool_repair: the last tool outcome, across non-tool events.
Pending(log) ==
  LET i == LastBefore(log, Outcomes, Len(log) + 1)
  IN IF i > 0 /\ log[i].type = "invalid" THEN log[i].call ELSE NoCall

StartsOf(r) == Indices(events[r], {"started"})

Untraced(r, log, i) == log[i].type = "invalid" /\ \A t \in traces[r] : t.failed # i

\* _latest_untraced_invalid_failure of one action before an event.
LatestUntraced(r, log, action, i) ==
  Max({0} \cup {j \in 1 .. (i - 1) : Untraced(r, log, j) /\ log[j].call.action = action})

\* _correction_start_for_outcome: the start next before an outcome, with no
\* other tool event in between, and of the outcome's action.
CorrectionStart(log, i) ==
  LET j == LastBefore(log, ToolTypes, i)
  IN IF j > 0 /\ log[j].type = "started" /\ log[j].call.action = log[i].call.action THEN j ELSE 0

-----------------------------------------------------------------------------
(* Repair memory.                                                          *)

\* Traces a run created at a time may learn from: resolved before it, by a
\* change that only removes fields.
Teachable(r, created) ==
  {p \in UNION {{q} \X traces[q] : q \in Runs} :
     /\ p[2].outcome = "resolved" /\ p[2].closed < created
     /\ \A v \in Violations(events[p[1]][p[2].failed].call) : v.change = "remove"}

Learned(S, c) == {p \in S : events[p[1]][p[2].failed].call = c}

\* The n latest of a set of traces.
Latest(S, n) == {p \in S : Cardinality({q \in S : q[2].closed > p[2].closed}) < n}

\* Mutant of ComposeMemory: what is learned so far, not what was learned then.
ComposeMemoryNow(r, created) ==
  LET S == Teachable(r, clock + 1)
  IN {[call |-> c, sources |-> {<<p[1], p[2].failed>> : p \in Latest(Learned(S, c), MaxSources)}]
        : c \in {events[p[1]][p[2].failed].call : p \in S}}

\* _compose_repair_memory_pin.
ComposeMemory(r, created) ==
  LET S     == Teachable(r, created)
      calls == {events[p[1]][p[2].failed].call : p \in S}
      When(c) == Max({p[2].closed : p \in Learned(S, c)})
      kept  == {c \in calls : Cardinality({d \in calls : When(d) > When(c)}) < MaxEntries}
  IN {[call |-> c, sources |-> {<<p[1], p[2].failed>> : p \in Latest(Learned(S, c), MaxSources)}]
        : c \in kept}

-----------------------------------------------------------------------------
(* API requests.                                                           *)

Unused == {r \in Runs : runs[r].state = "none" /\ \A q \in Runs : q < r => runs[q].state # "none"}

\* create_run in AUTO mode: the run is queued and started in one commit.
CreateRun ==
  \E r \in Unused :
    /\ clock' = clock + 1
    /\ runs' = [runs EXCEPT ![r] = [NewRun EXCEPT !.state = "running", !.created = clock',
                                                  !.memory = ComposeMemory(r, clock')]]
    /\ UNCHANGED <<events, traces, lease, worker, unfenced, faults>>

\* retry_run: the child is an exact clone of its terminal source, once.
RetryRun(q) ==
  \E r \in Unused :
    /\ runs[q].state \in Terminal
    /\ \A p \in Runs : runs[p].retry_of # q
    /\ clock' = clock + 1
    /\ runs' = [runs EXCEPT ![r] = [NewRun EXCEPT !.state = "running", !.created = clock',
                                                  !.retry_of = q, !.memory = runs[q].memory,
                                                  !.provider = runs[q].provider]]
    /\ UNCHANGED <<events, traces, lease, worker, unfenced, faults>>

\* cancel_run commits the cancellation; the lease is taken away afterwards.
CancelRun(r) ==
  /\ runs[r].state = "running"
  /\ faults < MaxFaults /\ faults' = faults + 1
  /\ runs' = [runs EXCEPT ![r].state = "cancelled"]
  /\ events' = [events EXCEPT ![r] = Append(@, Event("run_cancelled", NoCall))]
  /\ unfenced' = unfenced \cup {r}
  /\ UNCHANGED <<traces, lease, worker, clock>>

InvalidateLease(r) ==
  /\ r \in unfenced
  /\ unfenced' = unfenced \ {r}
  /\ lease' = IF lease = r THEN Nobody ELSE lease
  /\ UNCHANGED <<runs, events, traces, worker, clock, faults>>

-----------------------------------------------------------------------------
(* The worker.                                                             *)

r0 == worker.run
log0 == events[r0]

Leased == lease = r0

\* _agent_claim_is_writable; only the completion of a step asks for the lease
\* alone.
Writable == Leased /\ runs[r0].state = "running"

\* Mutant of Release: the step forgets its run and stays where it is.
ReleaseHalf == worker' = [worker EXCEPT !.run = Nobody] /\ lease' = IF Leased THEN Nobody ELSE lease

Release == worker' = IdleWorker /\ lease' = IF Leased THEN Nobody ELSE lease

Claim(r) ==
  /\ worker.pc = "idle" /\ lease = Nobody
  /\ runs[r].state = "running"
  /\ lease' = r
  /\ worker' = [IdleWorker EXCEPT !.pc = "claimed", !.run = r]
  /\ UNCHANGED <<runs, events, traces, unfenced, clock, faults>>

\* The worker dies or loses the database; its lease runs out.
Crash ==
  /\ worker.pc # "idle"
  /\ faults < MaxFaults /\ faults' = faults + 1
  /\ worker' = IdleWorker /\ lease' = Nobody
  /\ UNCHANGED <<runs, events, traces, unfenced, clock>>

\* The claim is gone or the run is no longer running: nothing is written.
Refuse ==
  /\ \/ worker.pc = "claimed" /\ ~Writable
     \/ worker.pc = "observed" /\ ~Leased
  /\ Release
  /\ UNCHANGED <<runs, events, traces, unfenced, clock, faults>>

\* record_agent_provider_failure: the iteration is spent; after too many
\* failures in a row the run goes over to the mock provider or fails.
ProviderFailure ==
  LET row  == [runs[r0] EXCEPT !.iteration = @ + 1, !.failures = @ + 1]
      over == row.failures >= MaxProviderFailures
      failed == Append(log0, Event("provider_failed", NoCall))
  IN
  /\ worker.pc = "claimed" /\ Writable
  /\ runs[r0].provider = "model"
  /\ \/ /\ row.iteration >= MaxIterations \/ (over /\ ~AllowFallback)
        /\ runs' = [runs EXCEPT ![r0] = [row EXCEPT !.state = "failed"]]
        /\ events' = [events EXCEPT ![r0] = Append(failed, Event("run_ended", NoCall))]
     \/ /\ row.iteration < MaxIterations /\ over /\ AllowFallback
        /\ runs' = [runs EXCEPT ![r0] = [row EXCEPT !.provider = "mock"]]
        /\ events' = [events EXCEPT ![r0] = Append(failed, Event("fallback", NoCall))]
     \/ /\ row.iteration < MaxIterations /\ ~over
        /\ runs' = [runs EXCEPT ![r0] = row]
        /\ events' = [events EXCEPT ![r0] = failed]
  /\ Release
  /\ UNCHANGED <<traces, unfenced, clock, faults>>

\* _must_use_budget_controller: the last iteration is not the model's.
LastAction(r) == runs[r].iteration + 1 >= MaxIterations

\* What the decision may be: the controller finishes with a valid call.
Proposals(r) ==
  IF LastAction(r)
  THEN {c \in Calls : c.action = Finish /\ Valid(c)}
  ELSE Offers[r]

\* _publish_learning_trace.
Trace(failed, outcome, at, start) ==
  [failed |-> failed, outcome |-> outcome, at |-> at, start |-> start,
   provider |-> runs[r0].provider, closed |-> clock + 1]

\* record_agent_contract_repair_exhausted: the decision ignores the repair.
Stop(c) ==
  LET rejected == Pending(log0)
      at       == Len(log0) + 1
      failed   == Max({0} \cup {j \in DOMAIN log0 : Untraced(r0, log0, j) /\ log0[j].call = rejected})
  IN
  /\ worker.pc = "claimed" /\ Writable
  /\ c \in Proposals(r0)
  /\ rejected # NoCall /\ ~Applies(c, rejected)
  /\ failed > 0
  /\ runs' = [runs EXCEPT ![r0] = [runs[r0] EXCEPT !.state = "failed", !.iteration = @ + 1]]
  /\ LET ended == Append(Append(log0, Event("stopped", rejected)), Event("run_ended", rejected))
     IN events' = [events EXCEPT ![r0] = Append(ended, Event("published", NoCall))]
  /\ traces' = [traces EXCEPT ![r0] = @ \cup {Trace(failed, "stopped", at, 0)}]
  /\ clock' = clock + 1
  /\ Release
  /\ UNCHANGED <<unfenced, faults>>

\* Mutant of Reuses: the repair is not looked up in the pinned memory.
ReusesNothing(r, c) == {}

\* _reuse_verified_repair: the memory entries for exactly this mistake.
Reuses(r, c) == {e \in runs[r].memory : e.call = c}

Corrected(c) == [c EXCEPT !.extra = FALSE]

\* The decision as it is recorded: corrected from memory when nothing else
\* is pending, with the receipt between the selection and the start.
Decided(c) ==
  LET E == IF Pending(log0) = NoCall /\ Valid(Corrected(c)) THEN Reuses(r0, c) ELSE {}
      d == IF E = {} THEN c ELSE Corrected(c)
      selected == Append(log0, Event("selected", d))
      reused   == IF E = {} THEN selected ELSE Append(selected, Receipt(CHOOSE e \in E : TRUE))
  IN [call |-> d, log |-> Append(reused, Event("started", d))]

\* Mutant of Decide: the decision is recorded without asking for a repair.
DecideUnrepaired(c) ==
  /\ worker.pc = "claimed" /\ Writable
  /\ Cardinality(StartsOf(r0)) < MaxStarts
  /\ c \in Proposals(r0)
  /\ events' = [events EXCEPT ![r0] = Decided(c).log]
  /\ worker' = [worker EXCEPT !.pc = "started", !.call = Decided(c).call]
  /\ UNCHANGED <<runs, traces, lease, unfenced, clock, faults>>

\* record_agent_decision.
Decide(c) ==
  /\ worker.pc = "claimed" /\ Writable
  /\ Cardinality(StartsOf(r0)) < MaxStarts
  /\ c \in Proposals(r0)
  /\ Pending(log0) # NoCall => Applies(c, Pending(log0))
  /\ events' = [events EXCEPT ![r0] = Decided(c).log]
  /\ worker' = [worker EXCEPT !.pc = "started", !.call = Decided(c).call]
  /\ UNCHANGED <<runs, traces, lease, unfenced, clock, faults>>

\* The registry answers: rejected by validation, refused by the store, or
\* done.  finish_research commits the end of the run itself.
UseTool ==
  /\ worker.pc = "started"
  /\ \/ /\ ~Valid(worker.call)
        /\ worker' = [worker EXCEPT !.pc = "observed", !.type = "invalid"]
        /\ UNCHANGED <<runs, events>>
     \/ /\ Valid(worker.call)
        /\ worker' = [worker EXCEPT !.pc = "observed", !.type = "failed"]
        /\ UNCHANGED <<runs, events>>
     \/ /\ Valid(worker.call) /\ Writable
        /\ worker' = [worker EXCEPT !.pc = "observed", !.type = "completed"]
        /\ IF worker.call.action = Finish
           THEN /\ runs' = [runs EXCEPT ![r0].state = "completed"]
                /\ events' = [events EXCEPT ![r0] = Append(@, Event("run_ended", NoCall))]
           ELSE UNCHANGED <<runs, events>>
  /\ UNCHANGED <<traces, lease, unfenced, clock, faults>>

\* Every outcome costs one iteration.
Spent(row, type) == row.iteration + 1

\* The completion of a step: the outcome, perhaps the end of the run, and the
\* trace of the episode the outcome closes.
Completion ==
  LET row  == [runs[r0] EXCEPT !.iteration = Spent(runs[r0], worker.type), !.failures = 0]
      over == row.iteration >= MaxIterations /\ row.state = "running"
      at   == Len(log0) + 1
      log  == Append(log0, Event(worker.type, worker.call))
      failed == LatestUntraced(r0, log, worker.call.action, at)
      start  == IF failed > 0 THEN CorrectionStart(log, at) ELSE 0
      ended  == IF over THEN Append(log, Event("run_ended", NoCall)) ELSE log
  IN [row    |-> IF over THEN [row EXCEPT !.state = "failed"] ELSE row,
      log    |-> IF start > 0 THEN Append(ended, Event("published", NoCall)) ELSE ended,
      traced |-> start > 0,
      delta  |-> start > 0 => HasDelta(log[failed].call, log[start].call),
      trace  |-> Trace(failed, IF worker.type = "completed" THEN "resolved" ELSE "failed", at, start)]

\* complete_agent_step, and release_agent_claim after it.
CompleteStep ==
  /\ worker.pc = "observed" /\ Leased
  /\ Completion.delta
  /\ runs' = [runs EXCEPT ![r0] = Completion.row]
  /\ events' = [events EXCEPT ![r0] = Completion.log]
  /\ IF Completion.traced
     THEN traces' = [traces EXCEPT ![r0] = @ \cup {Completion.trace}] /\ clock' = clock + 1
     ELSE UNCHANGED <<traces, clock>>
  /\ Release
  /\ UNCHANGED <<unfenced, faults>>

\* The trace cannot be written: the step is undone, the exception ends the
\* step and the lease runs out.
CompletionRaises ==
  /\ worker.pc = "observed" /\ Leased
  /\ ~Completion.delta
  /\ worker' = IdleWorker /\ lease' = Nobody
  /\ UNCHANGED <<runs, events, traces, unfenced, clock, faults>>

-----------------------------------------------------------------------------
WorkerStep ==
  \/ \E r \in Runs : Claim(r)
  \/ Refuse
  \/ ProviderFailure
  \/ \E c \in Calls : Stop(c) \/ Decide(c)
  \/ UseTool
  \/ CompleteStep
  \/ CompletionRaises

Next ==
  \/ CreateRun
  \/ \E r \in Runs : RetryRun(r) \/ CancelRun(r) \/ InvalidateLease(r)
  \/ WorkerStep
  \/ Crash

Spec == Init /\ [][Next]_vars

-----------------------------------------------------------------------------
(* What _restore_workspace accepts.                                        *)

\* A rejected call stands directly after its start.
RepairsFollowStart(r) ==
  \A i \in Indices(events[r], {"invalid"}) :
    i > 1 /\ events[r][i - 1].type = "started" /\ events[r][i - 1].call = events[r][i].call

\* The identity of a trace: its run's provider, the rejected call and its
\* start, and a publication after the outcome.
TraceIdentityHolds(r, t) ==
  LET log == events[r] IN
  /\ t.provider = runs[r].provider
  /\ log[t.failed].type = "invalid"
  /\ t.failed > 1 /\ log[t.failed - 1].type = "started" /\ log[t.failed - 1].call = log[t.failed].call
  /\ \E j \in Indices(log, {"published"}) : j > t.at

\* A stopped episode binds the stop; any other the next tool outcome, the
\* start of the corrected call and the change it made.
TraceOutcomeHolds(r, t) ==
  LET log == events[r] IN
  IF t.outcome = "stopped"
  THEN log[t.at].type = "stopped" /\ log[t.at].call = log[t.failed].call
  ELSE /\ log[t.at].type \in Outcomes
       /\ {j \in Indices(log, Outcomes) : t.failed < j /\ j < t.at} = {}
       /\ log[t.start].type = "started" /\ t.start = LastBefore(log, ToolTypes, t.at)
       /\ log[t.start].call.action = log[t.failed].call.action
       /\ HasDelta(log[t.failed].call, log[t.start].call)
       /\ (t.outcome = "resolved") <=> (log[t.at].type = "completed")

\* A receipt stands between the selection and the start of the corrected
\* call, and is backed by the pinned memory and by resolved traces.
ReceiptHolds(r, i) ==
  LET log == events[r] IN
  /\ i > 1 /\ i < Len(log)
  /\ log[i - 1].type = "selected" /\ log[i + 1].type = "started"
  /\ log[i - 1].call = log[i + 1].call /\ log[i + 1].call = Corrected(log[i].call)
  /\ \E e \in runs[r].memory : e.call = log[i].call /\ e.sources = log[i].sources
  /\ \A s \in log[i].sources : \E t \in traces[s[1]] : t.failed = s[2] /\ t.outcome = "resolved"

\* An episode that a later outcome of the action or a stop has closed has
\* its trace, and no failure has two.
EpisodesTraced(r) ==
  \A i \in Indices(events[r], {"invalid"}) :
    LET log == events[r]
        later == {j \in DOMAIN log : j > i /\ (\/ log[j].type \in Outcomes
                                               \/ log[j].type = "stopped" /\ log[j].call = log[i].call)}
        first == CHOOSE j \in later : \A k \in later : j <= k
    IN /\ Cardinality({t \in traces[r] : t.failed = i}) <= 1
       /\ later # {} /\ log[first].call.action = log[i].call.action =>
            \E t \in traces[r] : t.failed = i

\* The pinned memory is the clone of the retried run's, or what the traces
\* of the time give when they are read again.
MemoryHolds(r) ==
  IF runs[r].retry_of # Nobody
  THEN runs[r].memory = runs[runs[r].retry_of].memory
  ELSE runs[r].memory = ComposeMemory(r, runs[r].created)

\* A retry and its source name the same provider.
RetryPairHolds(r) ==
  runs[r].retry_of # Nobody => runs[r].provider = runs[runs[r].retry_of].provider

Loads(r) ==
  /\ RepairsFollowStart(r)
  /\ \A t \in traces[r] : TraceIdentityHolds(r, t) /\ TraceOutcomeHolds(r, t)
  /\ \A i \in Indices(events[r], {"reused"}) : ReceiptHolds(r, i)
  /\ EpisodesTraced(r)
  /\ runs[r].state # "none" => MemoryHolds(r) /\ RetryPairHolds(r)

-----------------------------------------------------------------------------
(* Properties.                                                             *)

\* A cancellation was committed while a call of the run was under way.
Overtaken(r) ==
  \E i \in Indices(events[r], {"run_cancelled"}) :
    i > 1 /\ events[r][i - 1].type = "started"

\* Whatever calls, repairs, stops, retries and crashes a workspace has been
\* through, it loads again, unless a cancellation was committed in the middle
\* of a tool call.
Restorable == \A r \in Runs : Overtaken(r) \/ Loads(r)

\* "Rebuilding QuantStore between polls recovers from durable state": every
\* committed workspace loads again.
Reloads == \A r \in Runs : Loads(r)

\* A mistake the pinned memory knows is not made again: without a repair
\* under way no call is started that the memory has the repair of.
MistakesNotRepeated ==
  \A r \in Runs : \A i \in StartsOf(r) :
    Pending(SubSeq(events[r], 1, i - 1)) = NoCall =>
      \A e \in runs[r].memory : Valid(Corrected(e.call)) => events[r][i].call # e.call

\* While a rejected call is open the run only starts repairs of it, or ends.
Open(r)   == Pending(events[r])
Trying(r) == LET i == LastBefore(events[r], ToolTypes, Len(events[r]) + 1)
             IN IF i > 0 /\ events[r][i].type = "started" THEN events[r][i].call ELSE NoCall
Contract == INSTANCE RepairContract WITH
  Repairs <- Applies,
  open    <- [r \in Runs |-> Open(r)],
  trying  <- [r \in Runs |-> Trying(r)],
  ended   <- {r \in Runs : runs[r].state \in Terminal}
ModifyOrStop == Contract!Spec

\* The action budget is kept: a run starts at most one tool for each of its
\* iterations, and one more for each step that a crash cut short.  It fails where
\* the model calls finish_research with a null candidate (LearningBudget.cfg).
ActionBudgetHolds ==
  \A r \in Runs : Cardinality(StartsOf(r)) <= MaxIterations + faults
=============================================================================
