---------------------------- MODULE QuantLineage ----------------------------
(***************************************************************************)
(* Quant runs and how they descend from one another: a root run, its       *)
(* retries, the refinements a user starts from a finished run, and the one *)
(* follow-up a bounded series commits to before its root opens the sealed  *)
(* holdout.  Inside a run the agent creates, backtests, revises and        *)
(* compares candidates and finishes with a report; every run pins, when it *)
(* is created, which strategies its ancestors and the workspace tested.    *)
(*                                                                         *)
(* A tool call and the bookkeeping after it are one step: what happens     *)
(* between the two is QuantWorkspace's subject, the repair of rejected     *)
(* calls QuantLearning's.  The worker always works on the oldest run that  *)
(* is running, which is the one claim_fixture_run hands out.               *)
(***************************************************************************)
EXTENDS Integers, Sequences, FiniteSets, SequencesExt

CONSTANTS
  Runs,           \* run slots, in the order of creation
  NoRun,          \* "no run"
  Keys,           \* canonical strategies: a template with its parameters
  NoKey,          \* "no strategy"
  Template,       \* the template of a strategy
  Planned,        \* the templates of the approved plan
  Rejected,       \* the strategies whose parameters the local kernel rejects
  Rank,           \* the approved objective: a smaller number ranks higher
  Folds,          \* walk-forward folds a strategy passes
  Regimes,        \* market regimes those folds cover
  Trades,         \* trades of a strategy on the training partition
  Offers,         \* the strategies the model may propose as each run's n-th one
  Windows,        \* dataset ranges a run can be created over
  Requests,       \* the windows, modes and series policies users ask for, run by run
  Dataset,        \* the dataset of a window
  Holdout,        \* the bars of the sealed holdout partition of a window
  MaxExperiments, \* run.max_experiments; the 2+1 sequence when it is 3
  MaxRepairs,     \* max_repairs of each run
  MaxSources,     \* RESEARCH_MEMORY_MAX_SOURCE_RUNS
  MaxMemoryKeys,  \* RESEARCH_MEMORY_MAX_CANDIDATE_KEYS
  MaxPending,     \* bound on the candidates of a run waiting for a first backtest
  MaxComparisons, \* bound on the comparisons a run keeps
  MaxEarlyWork,   \* bound on the candidates of a run that ends without a finish
  MaxEarlyEnds    \* bound on runs that are cancelled or run out of iterations

ASSUME LineageConstants ==
  /\ Runs \subseteq Nat /\ IsFiniteSet(Runs) /\ NoRun \notin Runs
  /\ IsFiniteSet(Keys) /\ NoKey \notin Keys /\ Rejected \subseteq Keys
  /\ Windows # {}
  /\ {Rank, Folds, Regimes, Trades} \subseteq [Keys -> Nat]
  /\ \A k1, k2 \in Keys : Rank[k1] = Rank[k2] => k1 = k2
  /\ Offers \in [Runs -> Seq(SUBSET Keys)] /\ MaxRepairs \in [Runs -> Nat]
  /\ {MaxExperiments, MaxSources, MaxMemoryKeys,
      MaxPending, MaxComparisons, MaxEarlyWork, MaxEarlyEnds} \subseteq Nat
  /\ Requests \in [Runs -> SUBSET [window: Windows, mode: {"plan", "auto"},
                         policy: {"none", "stop_after_run", "one_follow_up"}]]

VARIABLES
  runs,     \* the run rows
  work,     \* the candidates, comparisons and feedback of each run
  reports,  \* their research reports
  clock,    \* the time of the last creation or end of a run
  early     \* counter for the bound

vars == <<runs, work, reports, clock, early>>

-----------------------------------------------------------------------------
(* Records.                                                                *)

Terminal  == {"completed", "failed", "cancelled"}
RunStates == Terminal \cup {"absent", "waiting", "running"}

Pin == [sources: Seq(Runs), keys: Seq(Keys)]

\* QuantResearchLoopPolicy, or none: a series of one run or of two.
Policies == {"none", "stop_after_run", "one_follow_up"}

RunRow == [state: RunStates, mode: {"plan", "auto"}, window: Windows,
           parent: Runs \cup {NoRun}, seed: Keys \cup {NoKey},
           retry_of: Runs \cup {NoRun}, retry_child: Runs \cup {NoRun},
           policy: Policies, root: Runs \cup {NoRun}, version: 0..2,
           child: Runs \cup {NoRun}, memory: Pin, created: Nat, ended: Nat,
           used: Nat, repairs: Nat]

Candidate == [key: Keys, state: {"created", "completed", "failed", "revised"},
              measured: BOOLEAN, linked: BOOLEAN, replan: {"none", "refine_parameters", "switch_approved_family"},
              from: Keys \cup {NoKey}]

\* A comparison is kept under the set of candidates it covers; ordinals are
\* those of the run's artifacts.
Comparison == [of: SUBSET Keys, ordinal: Nat]
WorkRow == [candidates: Seq(Candidate), comparisons: SUBSET Comparison,
            feedback: SUBSET [of: SUBSET Keys, reference: Keys],
            artifacts: Nat, changed: Nat]

HoldoutStates == {"fresh_sealed", "development_only", "not_evaluated"}
StopActions   == {"stop_no_novel_candidate", "stop_insufficient_budget"}
NoReport == [selected |-> NoKey, compared |-> {}, holdout |-> "none", stop |-> "none",
             series |-> "none", follow_up |-> NoRun]
Report == [selected: Keys \cup {NoKey}, compared: SUBSET Keys,
           holdout: HoldoutStates \cup {"none"}, stop: StopActions \cup {"none"},
           series: {"none", "stop", "refine_selected"}, follow_up: Runs \cup {NoRun}]

TypeOK ==
  /\ runs \in [Runs -> RunRow]
  /\ work \in [Runs -> WorkRow]
  /\ reports \in [Runs -> Report]
  /\ clock \in Nat
  /\ early \in Nat

EmptyPin  == [sources |-> <<>>, keys |-> <<>>]
EmptyWork == [candidates |-> <<>>, comparisons |-> {}, feedback |-> {},
              artifacts |-> 1, changed |-> 0]
Absent == [state |-> "absent", mode |-> "plan", window |-> CHOOSE w \in Windows : TRUE,
           parent |-> NoRun, seed |-> NoKey, retry_of |-> NoRun, retry_child |-> NoRun,
           policy |-> "none", root |-> NoRun, version |-> 0, child |-> NoRun,
           memory |-> EmptyPin, created |-> 0, ended |-> 0,
           used |-> 0, repairs |-> 0]

Init ==
  /\ runs = [r \in Runs |-> Absent]
  /\ work = [r \in Runs |-> EmptyWork]
  /\ reports = [r \in Runs |-> NoReport]
  /\ clock = 0
  /\ early = 0

Created(rs) == {r \in Runs : rs[r].state # "absent"}
Live(r)     == runs[r].state \in {"waiting", "running"}
Ended(r)    == runs[r].state \in Terminal

\* The next free run slot.
Free(r) == runs[r].state = "absent" /\ \A s \in Runs : s < r => runs[s].state # "absent"

\* claim_fixture_run hands out the oldest running run.
Claimed(r) == /\ runs[r].state = "running"
              /\ \A s \in Runs : runs[s].state = "running" => runs[r].created <= runs[s].created

Tested(r)       == {work[r].candidates[i].key : i \in DOMAIN work[r].candidates}
InState(r, st)  == {work[r].candidates[i].key :
                      i \in {j \in DOMAIN work[r].candidates : work[r].candidates[j].state = st}}
Completed(r)    == InState(r, "completed")
Pending(r)      == InState(r, "created")
LinkedOf(r)     == {work[r].candidates[i].key :
                      i \in {j \in DOMAIN work[r].candidates : work[r].candidates[j].linked}}
IndexOf(r, k)   == CHOOSE i \in DOMAIN work[r].candidates : work[r].candidates[i].key = k
CandidateOf(r, k) == work[r].candidates[IndexOf(r, k)]
Proposals(r)    == LET n == Len(work[r].candidates) + 1
                   IN  IF n \in DOMAIN Offers[r] THEN Offers[r][n] ELSE {}
Leader(S)       == CHOOSE k \in S : \A other \in S : Rank[k] <= Rank[other]

\* _latest_training_comparison: the highest ordinal; candidates for a tie.
LatestComparisons(r) ==
  {c \in work[r].comparisons : \A d \in work[r].comparisons : d.ordinal <= c.ordinal}

-----------------------------------------------------------------------------
(* Research memory.                                                        *)

\* The refinement ancestors of a run: the least set that holds the parent of
\* the run and of its own members.
Ancestors(rs, r) ==
  LET closed(S) == \A s \in S \cup {r} : rs[s].parent \in S \cup {NoRun}
  IN  {s \in Runs \ {r} : \A S \in SUBSET Runs : closed(S) => s \in S}

\* Runs created no later than r that are not its ancestors.
History(rs, r) ==
  {s \in Created(rs) \ ({r} \cup Ancestors(rs, r)) : rs[s].created <= rs[r].created}

\* The newest first, which among ancestors is the nearest first: a run is
\* created after its parent.
NewestFirst(S, created) ==
  CHOOSE order \in SetToSeqs(S) :
    \A i, j \in DOMAIN order : i < j => created[order[i]] > created[order[j]]

\* Mutant of Available: whatever has ended by now.
AvailableNow(rs, target, source, override) == rs[source].state \in Terminal

\* _research_memory_source_was_available: the source had ended when the target
\* was created, or is the series parent that commits to the target right now.
Available(rs, target, source, override) ==
  \/ /\ source = override
     /\ rs[target].parent = source
     /\ rs[target].policy # "none" /\ rs[target].version = 2 /\ rs[source].version = 1
     /\ rs[target].root = rs[source].root
  \/ rs[source].state \in Terminal /\ rs[source].ended <= rs[target].created

\* The completed strategies among cs that are not named yet, in the order they
\* were created and as far as there is room.
NewKeys(known, cs) ==
  LET new[i \in 0..Len(cs)] ==
        IF i = 0 THEN <<>>
        ELSE LET before == new[i - 1]
             IN  IF /\ Len(known) + Len(before) < MaxMemoryKeys
                    /\ cs[i].state = "completed"
                    /\ cs[i].key \notin Range(known) \cup Range(before)
                 THEN Append(before, cs[i].key) ELSE before
  IN  new[Len(cs)]

\* A source that adds none takes no place.
AddSource(pin, s, cs) ==
  LET new == NewKeys(pin.keys, cs)
  IN  IF Len(pin.sources) >= MaxSources \/ new = <<>> THEN pin
      ELSE [sources |-> Append(pin.sources, s), keys |-> pin.keys \o new]

\* The sources add to the pin one after the other.
Gather(order, candidates) ==
  LET pins[i \in 0..Len(order)] ==
        IF i = 0 THEN EmptyPin
        ELSE AddSource(pins[i - 1], order[i], candidates[order[i]])
  IN  pins[Len(order)]

\* _compose_research_memory_pin: the same evidence only, ancestors first.
Usable(rs, r, override) ==
  {s \in Runs : Available(rs, r, s, override) /\ rs[s].window = rs[r].window}

ComposePin(rs, w, r, override) ==
  LET usable  == Usable(rs, r, override)
      created == [s \in usable |-> rs[s].created]
      order   == NewestFirst(usable \cap Ancestors(rs, r), created) \o
                 NewestFirst(usable \cap History(rs, r), created)
  IN  Gather(order, [s \in usable |-> w[s].candidates])

\* The series parent that _validate_restored_research_memory lets count.
OverrideOf(rs, r) == IF rs[r].policy # "none" /\ rs[r].version = 2 THEN rs[r].parent ELSE NoRun

-----------------------------------------------------------------------------
(* Creating, approving, cancelling and retrying runs.                      *)

\* A run row with its memory pinned; an AUTO run starts at once.
Opened(row, r) ==
  LET rs == [runs EXCEPT ![r] = row]
  IN  [rs EXCEPT ![r].memory = ComposePin(rs, work, r, OverrideOf(rs, r))]

\* Mutant of StartState: an AUTO run starts under the name of its mode.
StartMode(mode) == IF mode = "auto" THEN "auto" ELSE "waiting"

StartState(mode) == IF mode = "auto" THEN "running" ELSE "waiting"

\* create_run, create_market_run.  A bounded series starts at a root AUTO run.
CreateRun(r) ==
  \E q \in Requests[r] :
    /\ Free(r)
    /\ q.policy # "none" => q.mode = "auto"
    /\ runs' = Opened([Absent EXCEPT !.state = StartState(q.mode), !.mode = q.mode, !.window = q.window,
                       !.policy = q.policy, !.root = IF q.policy = "none" THEN NoRun ELSE r,
                       !.version = IF q.policy = "none" THEN 0 ELSE 1, !.created = clock + 1], r)
    /\ clock' = clock + 1
    /\ UNCHANGED <<work, reports, early>>

\* _validate_refinement: an ended run of the same dataset, a completed seed.
Refine(r) ==
  \E parent \in Runs, seed \in Keys, q \in Requests[r] :
    /\ Free(r) /\ q.policy = "none"
    /\ Ended(parent)
    /\ Dataset[runs[parent].window] = Dataset[q.window]
    /\ seed \in Completed(parent)
    /\ runs' = Opened([Absent EXCEPT !.state = StartState(q.mode), !.mode = q.mode, !.window = q.window,
                       !.parent = parent, !.seed = seed, !.created = clock + 1], r)
    /\ clock' = clock + 1
    /\ UNCHANGED <<work, reports, early>>

\* _approve_plan_locked; a series policy can be attached to a root plan only.
Approve(r) ==
  \E attach \in BOOLEAN :
    /\ runs[r].state = "waiting"
    /\ attach => /\ runs[r].parent = NoRun /\ runs[r].retry_of = NoRun
                 /\ runs[r].policy = "none" /\ runs[r].mode = "plan"
    /\ runs' = [runs EXCEPT ![r].state = "running",
                            ![r].mode = IF attach THEN "auto" ELSE @,
                            ![r].policy = IF attach THEN "one_follow_up" ELSE @,
                            ![r].root = IF attach THEN r ELSE @,
                            ![r].version = IF attach THEN 1 ELSE @]
    /\ UNCHANGED <<work, reports, clock, early>>

Ends(r, st) == runs' = [runs EXCEPT ![r].state = st, ![r].ended = clock + 1]

\* The bound on runs that end without a finish.
EndsEarly(r) == early < MaxEarlyEnds /\ Len(work[r].candidates) <= MaxEarlyWork

\* _cancel_run_locked
Cancel(r) ==
  /\ Live(r) /\ EndsEarly(r)
  /\ Ends(r, "cancelled")
  /\ clock' = clock + 1 /\ early' = early + 1
  /\ UNCHANGED <<work, reports>>

\* _retry_run_locked: a fresh attempt with the pins of its source.
Retry(r) ==
  \E source \in Runs :
    /\ Free(r)
    /\ Ended(source) /\ runs[source].policy = "none" /\ runs[source].retry_child = NoRun
    /\ runs' = [runs EXCEPT
         ![r] = [Absent EXCEPT !.state = StartState(runs[source].mode), !.mode = runs[source].mode,
                   !.window = runs[source].window, !.parent = runs[source].parent,
                   !.seed = runs[source].seed, !.retry_of = source,
                   !.memory = runs[source].memory, !.created = clock + 1],
         ![source].retry_child = r]
    /\ clock' = clock + 1
    /\ UNCHANGED <<work, reports, early>>

-----------------------------------------------------------------------------
(* The agent's tools, each with complete_agent_step after it.  Iterations   *)
(* are not counted here (QuantLearning's ActionBudgetHolds is about them):  *)
(* a run may run out of them after any call.                                *)

\* A run fails when its iterations are spent or its provider stays away, which
\* may be after any call.
RunOut(r) ==
  /\ Claimed(r) /\ EndsEarly(r)
  /\ Ends(r, "failed")
  /\ clock' = clock + 1 /\ early' = early + 1
  /\ UNCHANGED <<work, reports>>

\* _validate_iteration_feedback_artifact: the candidates it was drawn from are
\* still completed base candidates, and its reference is still their leader.
FeedbackValid(w, r, f) ==
  LET cs == w[r].candidates
  IN  /\ \A k \in f.of : \E i \in DOMAIN cs : cs[i].key = k /\ cs[i].state = "completed" /\ ~cs[i].linked
      /\ \E c \in w[r].comparisons : c.of = f.of
      /\ f.reference = Leader(f.of)

\* _validate_candidate_replan_decision: the action that fits a strategy.
ReplanFor(k, f) ==
  IF Template[k] = Template[f.reference] THEN "refine_parameters" ELSE "switch_approved_family"

AddCandidate(w, k, linked, replan, from) ==
  [w EXCEPT !.candidates = Append(@, [key |-> k, state |-> "created", measured |-> FALSE,
                                      linked |-> linked, replan |-> replan, from |-> from]),
            !.artifacts = @ + 1, !.changed = w.artifacts + 1]

\* Mutant of Novel: the pinned memory is not looked at.
NovelInRun(r, k) == k \notin Tested(r)

\* Neither this run nor the runs its memory names have the strategy.
Novel(r, k) == k \notin Tested(r) /\ k \notin Range(runs[r].memory.keys)

\* create_agent_candidate: once two candidates are completed, one more may be
\* created, and it answers the feedback.
CreateCandidate(r) ==
  \E k \in Proposals(r) :
    /\ Claimed(r)
    /\ runs[r].used < MaxExperiments /\ Cardinality(Pending(r)) < MaxPending
    /\ Template[k] \in Planned
    /\ Novel(r, k)
    /\ \/ /\ Cardinality(Completed(r)) < 2
          /\ work' = [work EXCEPT ![r] = AddCandidate(@, k, FALSE, "none", NoKey)]
       \/ \E f \in work[r].feedback :
            /\ Cardinality(Completed(r)) >= 2
            /\ LinkedOf(r) = {}
            /\ FeedbackValid(work, r, f)
            /\ work' = [work EXCEPT ![r] = AddCandidate(@, k, TRUE, ReplanFor(k, f), NoKey)]
    /\ runs' = [runs EXCEPT ![r].used = @ + 1]
    /\ UNCHANGED <<reports, clock, early>>

\* run_agent_backtest.  The artifacts of a candidate that was measured before
\* are replaced, under a new ordinal.
Backtest(r) ==
  \E i \in DOMAIN work[r].candidates :
    LET w == work[r]
        c == w.candidates[i]
        measured == [w.candidates EXCEPT ![i] = [c EXCEPT !.state = "completed", !.measured = TRUE]]
        failed   == [w.candidates EXCEPT ![i] = [c EXCEPT !.state = "failed"]]
        count    == IF c.measured THEN w.artifacts ELSE w.artifacts + 3
    IN  /\ Claimed(r)
        /\ c.state # "completed"
        /\ IF c.key \in Rejected
           THEN work' = [work EXCEPT ![r] = [w EXCEPT !.candidates = failed]]
           ELSE work' = [work EXCEPT ![r] = [w EXCEPT !.candidates = measured, !.artifacts = count,
                                                      !.changed = w.artifacts + 1]]
        /\ UNCHANGED <<runs, reports, clock, early>>

\* revise_agent_candidate: any candidate of the run, a completed one included.
Revise(r) ==
  \E i \in DOMAIN work[r].candidates, k \in Proposals(r) :
    LET c == work[r].candidates[i]
    IN  /\ Claimed(r)
        /\ runs[r].repairs < MaxRepairs[r]
        /\ Template[k] = Template[c.key]
        /\ Novel(r, k)
        /\ work' = [work EXCEPT ![r] =
                      AddCandidate([@ EXCEPT !.candidates[i].state = "revised"], k, FALSE, "none", c.key)]
        /\ runs' = [runs EXCEPT ![r].repairs = @ + 1]
        /\ UNCHANGED <<reports, clock, early>>

\* compare_agent_candidates with _persist_iteration_feedback_if_eligible.
Compare(r) ==
  LET w == work[r]
      done == Completed(r)
      repeated == {c \in w.comparisons : c.of = done}
      latest == [of |-> done, ordinal |-> w.artifacts + 1]
      count == IF repeated = {} THEN w.artifacts + 1 ELSE w.artifacts
      feeds == Cardinality(done) >= 2 /\ runs[r].used < MaxExperiments /\ w.feedback = {}
      compared == [w EXCEPT !.comparisons = (w.comparisons \ repeated) \cup {latest}]
  IN  /\ Claimed(r)
      /\ done # {}
      /\ repeated = {} => Cardinality(w.comparisons) < MaxComparisons
      /\ work' = [work EXCEPT ![r] =
             IF feeds THEN [compared EXCEPT !.feedback = {[of |-> done, reference |-> Leader(done)]},
                                            !.artifacts = count + 1]
                      ELSE [compared EXCEPT !.artifacts = count]]
      /\ UNCHANGED <<runs, reports, clock, early>>

-----------------------------------------------------------------------------
(* finish_research.                                                        *)

\* _strict_iteration_finish_error is silent: two base candidates, the feedback
\* on exactly those, and one completed answer to it.
StrictSequence(r) ==
  MaxExperiments = 3 =>
    LET done == Completed(r)
        base == done \ LinkedOf(r)
    IN  /\ Cardinality(base) = 2
        /\ \E f \in work[r].feedback : f.of = base /\ FeedbackValid(work, r, f)
        /\ runs[r].used = MaxExperiments
        /\ Cardinality(LinkedOf(r)) = 1 /\ LinkedOf(r) \subseteq done
        /\ Cardinality(done) = 3

\* _stop_replan_finish_error is silent: the two compared candidates only, and
\* no room, or no strategy, for a third.  How many iterations are left is not
\* modelled; the proposal of a novelty stop is any strategy of the plan.
StopAccepted(w, r, action) ==
  LET cs == w[r].candidates
      done == {cs[i].key : i \in {j \in DOMAIN cs : cs[j].state = "completed"}}
  IN  /\ Cardinality(done) = 2
      /\ \E f \in w[r].feedback : f.of = done /\ FeedbackValid(w, r, f)
      /\ \A i \in DOMAIN cs : ~cs[i].linked
      /\ CASE action = "stop_insufficient_budget" -> TRUE
           [] action = "stop_no_novel_candidate" ->
                \E k \in done \cup Range(runs[r].memory.keys) : Template[k] \in Planned

\* Mutant of FinalComparison: any comparison will do.
FinalEarlier(r, c) == c \in work[r].comparisons

\* The latest comparison covers what is completed and is newer than every
\* candidate and backtest.
FinalComparison(r, c) ==
  /\ c \in LatestComparisons(r)
  /\ c.of = Completed(r)
  /\ c.ordinal > work[r].changed

Surpasses(score, S, k) == \A other \in S \ {k} : score[k] > score[other]

\* _validate_research_decision: the leader of the ranking, or one of the overrides
\* walk_forward_stability, regime_coverage and minimum_trade_evidence.
DecisionValid(S, k) ==
  /\ k \in S
  /\ \/ k = Leader(S)
     \/ Surpasses(Folds, S, k)
     \/ Surpasses(Regimes, S, k) /\ Regimes[k] >= 2
     \/ /\ Trades[Leader(S)] = 0 /\ Trades[k] >= 1
        /\ k = Leader({other \in S : Trades[other] >= 1})

\* _research_series_context: the series has a version and no child yet.
MayRefine(r) ==
  /\ runs[r].policy = "one_follow_up" /\ runs[r].version = 1
  /\ runs[r].mode = "auto" /\ runs[runs[r].root].child = NoRun

SeriesValid(r, series, selected) ==
  IF runs[r].policy = "none" THEN series = "none"
  ELSE /\ selected # NoKey
       /\ series \in {"stop", "refine_selected"}
       /\ series = "refine_selected" => MayRefine(r)

\* Mutant of Sources: a retry forgets its source.
SourcesRefined(rs, r) == {rs[r].parent} \ {NoRun}

\* The links that _run_lineage_closure follows.
Sources(rs, r) == {rs[r].parent, rs[r].retry_of} \ {NoRun}

\* _run_lineage_closure: everything a run descends from, retries included, which
\* is the least set that holds the sources of the run and of its own members.
Closure(rs, r) ==
  LET closed(S) == \A s \in S \cup {r} : Sources(rs, s) \subseteq S
  IN  {s \in Runs \ {r} : \A S \in SUBSET Runs : closed(S) => s \in S}

\* _holdout_evidence_state
HoldoutState(r, selected) ==
  IF selected = NoKey \/ (runs[r].policy # "none" /\ runs[r].version = 2) THEN "not_evaluated"
  ELSE IF \E s \in Closure(runs, r) :
            /\ reports[s].holdout = "fresh_sealed"
            /\ Dataset[runs[s].window] = Dataset[runs[r].window]
            /\ Holdout[runs[s].window] \cap Holdout[runs[r].window] # {}
       THEN "development_only"
       ELSE "fresh_sealed"

\* The rows after a finish; the child of a series is committed with it, and is
\* created before its parent ends.
Completed_(rs, r, end) ==
  [rs EXCEPT ![r].state = "completed", ![r].ended = end]

ChildRow(r, selected) ==
  [Absent EXCEPT !.state = "running", !.mode = "auto", !.window = runs[r].window, !.parent = r,
                 !.seed = selected, !.policy = runs[r].policy, !.root = runs[r].root,
                 !.version = 2, !.created = clock + 1]

\* _finish_agent_research_mutating without a follow-up.  Without a completed
\* candidate the code accepts it in the last iteration only, which is not counted.
FinishAlone(r, report) ==
  /\ runs' = Completed_(runs, r, clock + 1)
  /\ reports' = [reports EXCEPT ![r] = report]
  /\ clock' = clock + 1

\* The same with _precommit_research_series_child.
FinishWithChild(r, report) ==
  \E child \in Runs :
    /\ Free(child)
    /\ LET linked == [runs EXCEPT ![child] = ChildRow(r, report.selected),
                                  ![runs[r].root].child = child]
           pinned == [linked EXCEPT ![child].memory = ComposePin(linked, work, child, r)]
       IN  runs' = Completed_(pinned, r, clock + 2)
    /\ reports' = [reports EXCEPT ![r] = [report EXCEPT !.follow_up = child]]
    /\ clock' = clock + 2

Finish(r) ==
  \E stop \in StopActions \cup {"none"}, series \in {"none", "stop", "refine_selected"} :
    /\ Claimed(r)
    /\ stop # "none" => series # "refine_selected"
    /\ UNCHANGED <<work, early>>
    /\ \/ /\ Completed(r) = {}
          /\ SeriesValid(r, series, NoKey)
          /\ FinishAlone(r, [NoReport EXCEPT !.holdout = "not_evaluated", !.stop = stop])
       \/ \E c \in work[r].comparisons, k \in Completed(r) :
            LET report == [NoReport EXCEPT !.selected = k, !.compared = c.of, !.stop = stop,
                             !.series = series, !.holdout = HoldoutState(r, k)]
            IN  /\ IF stop = "none" THEN StrictSequence(r)
                   ELSE StopAccepted(work, r, stop)
                /\ FinalComparison(r, c)
                /\ DecisionValid(c.of, k)
                /\ SeriesValid(r, series, k)
                /\ IF series = "refine_selected" THEN FinishWithChild(r, report)
                   ELSE FinishAlone(r, report)

\* A finish that breaks the 2+1 sequence ends the run once no candidate can be
\* created any more.
FinishRefused(r) ==
  /\ Claimed(r)
  /\ Completed(r) # {} /\ ~StrictSequence(r)
  /\ runs[r].used >= MaxExperiments
  /\ Ends(r, "failed")
  /\ clock' = clock + 1
  /\ UNCHANGED <<work, reports, early>>

-----------------------------------------------------------------------------
Agent(r) == CreateCandidate(r) \/ Backtest(r) \/ Revise(r) \/ Compare(r)
            \/ Finish(r) \/ FinishRefused(r) \/ RunOut(r)
User(r)  == CreateRun(r) \/ Refine(r) \/ Retry(r) \/ Approve(r) \/ Cancel(r)

Next == \E r \in Runs : User(r) \/ Agent(r)
Spec == Init /\ [][Next]_vars

-----------------------------------------------------------------------------
(* What _restore_workspace demands of the lineage.                         *)

\* Retry links agree in both directions and the child keeps its source's pins.
RetryLinks ==
  \A r \in Created(runs) :
    /\ \A s \in Created(runs) : runs[s].retry_of = r <=> runs[r].retry_child = s
    /\ runs[r].retry_of # NoRun =>
         LET s == runs[r].retry_of
         IN  /\ runs[r].window = runs[s].window /\ runs[r].memory = runs[s].memory
             /\ runs[r].parent = runs[s].parent /\ runs[r].seed = runs[s].seed
             /\ runs[r].policy = runs[s].policy /\ runs[r].mode = runs[s].mode

\* A refinement descends from an ended run of its dataset through a candidate
\* that is completed there.
RefinementLinks ==
  \A r \in Created(runs) : runs[r].parent # NoRun =>
    LET p == runs[r].parent
    IN  /\ Ended(p) /\ runs[r].seed \in Completed(p)
        /\ Dataset[runs[p].window] = Dataset[runs[r].window]

\* A series is its root and at most one follow-up, which the root's final
\* comparison and selection justify.
SeriesLinks ==
  \A r \in Created(runs) :
    /\ runs[r].policy = "none" <=> runs[r].root = NoRun
    /\ runs[r].policy # "none" =>
         LET root == runs[r].root
             follow_ups == {s \in Created(runs) : runs[s].root = root /\ runs[s].version = 2}
         IN  /\ runs[root].root = root /\ runs[root].policy = runs[r].policy
             /\ runs[r].mode = "auto"
             /\ follow_ups = {runs[root].child} \ {NoRun}
             /\ runs[r].version = 1 => r = root
             /\ runs[r].version = 2 => reports[r].holdout \in {"none", "not_evaluated"}
             /\ runs[r].version = 2 =>
                  LET source == runs[r].parent
                  IN  /\ runs[source].root = root /\ runs[source].version = 1
                      /\ runs[source].window = runs[r].window
                      /\ reports[source].series = "refine_selected"
                      /\ reports[source].selected = runs[r].seed
                      /\ \A c \in LatestComparisons(source) :
                           c.of = Completed(source) /\ c.ordinal > work[source].changed

\* The pinned memory is what composing it again gives today.
MemoryCanonical ==
  \A r \in Created(runs) : runs[r].retry_of = NoRun =>
    runs[r].memory = ComposePin(runs, work, r, OverrideOf(runs, r))

\* A report's selection is valid for the latest comparison, and a run that
\* stopped after two candidates says why.
ReportsBound ==
  \A r \in Created(runs) : reports[r].selected # NoKey =>
    /\ \A c \in LatestComparisons(r) :
         c.of = Completed(r) /\ DecisionValid(c.of, reports[r].selected)
    /\ Cardinality(Completed(r)) = 2 /\ LinkedOf(r) = {} => reports[r].stop # "none"

\* The links of the lineage that _restore_workspace demands hold in every state
\* that can be committed: retries, refinements and series, the pinned memories
\* that are composed again at every load, and the decisions of the reports.
LineageRestores ==
  RetryLinks /\ RefinementLinks /\ SeriesLinks /\ MemoryCanonical /\ ReportsBound

\* The evidence that _restore_workspace reads again: feedback and the answer
\* to it, the stop a report carries, and the strategies of a series.
EvidenceRestores ==
  \A r \in Created(runs) :
    /\ \A f \in work[r].feedback : FeedbackValid(work, r, f)
    /\ \A i \in DOMAIN work[r].candidates :
         work[r].candidates[i].linked =>
           \E f \in work[r].feedback :
             work[r].candidates[i].replan = ReplanFor(work[r].candidates[i].key, f)
    /\ reports[r].stop # "none" => StopAccepted(work, r, reports[r].stop)
    /\ \A s \in Created(runs) :
         runs[r].root # NoRun /\ runs[s].root = runs[r].root /\ runs[s].version # runs[r].version =>
           Tested(r) \cap Tested(s) = {}

\* Every committed workspace can be loaded again.
Reloads == LineageRestores /\ EvidenceRestores

-----------------------------------------------------------------------------
(* What the lineage is for.                                                *)

\* Everything a run descends from, retries included.
Descent(r) ==
  LET closed(S) == \A s \in S \cup {r} : /\ runs[s].parent \in S \cup {NoRun}
                                         /\ runs[s].retry_of \in S \cup {NoRun}
  IN  {s \in Runs \ {r} : \A S \in SUBSET Runs : closed(S) => s \in S}

\* Along a line of descent, retries included, the bars of a sealed holdout are
\* opened as fresh evidence at most once.
HoldoutOpenedOnce ==
  \A r \in Runs : \A s \in Descent(r) :
    reports[r].holdout = "fresh_sealed" /\ reports[s].holdout = "fresh_sealed" =>
      \/ Dataset[runs[r].window] # Dataset[runs[s].window]
      \/ Holdout[runs[r].window] \cap Holdout[runs[s].window] = {}

\* A run never tests again, on the same evidence, a strategy that the run it
\* refines completed, nor does a retry of it.
RefinementIsNovel ==
  \A r \in Created(runs) : LET p == runs[r].parent IN
    p # NoRun /\ runs[p].window = runs[r].window => Tested(r) \cap Completed(p) = {}

\* A report rests on everything its run completed: the two compared candidates
\* and one answer to their feedback, or the two and the reason to stop there.
ReportsAreComplete ==
  \A r \in Created(runs) : reports[r].selected # NoKey =>
    /\ reports[r].compared = Completed(r)
    /\ \/ Cardinality(Completed(r)) = 3 /\ Cardinality(LinkedOf(r)) = 1
       \/ Cardinality(Completed(r)) = 2 /\ reports[r].stop # "none"

=============================================================================
