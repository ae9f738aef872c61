------------------------------ MODULE Collection ------------------------------
(***************************************************************************)
(* A scheduled collection from its claim to its end (main.py,              *)
(* jobs/collection.py over sqlalchemy_adapter.py): what it stores, the     *)
(* signal it may raise, and the research run the API freezes from that     *)
(* signal (research/service.py).                                           *)
(*                                                                         *)
(* Every call of the adapter is a transaction that checks the schedule's   *)
(* lease and that the run is still running; a process whose lease ran out  *)
(* can only give up.  The check locks nothing, and other processes and the *)
(* clock act before the commit, so every call that writes is two steps     *)
(* here, a check and a commit; only the claim and the completion of a      *)
(* schedule test the lease in their UPDATE.  Storing items also locks the  *)
(* ContentItem rows that exist, and knows nothing of those it inserts.     *)
(*                                                                         *)
(* Left out: the time windows (all that is stored stays in the current     *)
(* window and grows enough), the columns persist_dedupe_assignments writes *)
(* and nobody here reads, and the rate limiter, which main.py never passes. *)
(***************************************************************************)
EXTENDS Naturals, FiniteSets, Sequences

CONSTANTS
  Workers,      \* worker processes
  Schedules,    \* enabled schedules of active watchlists
  SourceOf,     \* the source a schedule collects
  WatchOf,      \* the watchlist it collects for
  NewSources,   \* the sources whose first validation may not have ended
  Refetching,   \* the schedules with a refetch_limit
  Items,        \* external items, told apart by their canonical URL
  ItemSource,   \* the source that publishes an item
  ContentsOf,   \* the texts an item may have, one at a time
  OriginOf,     \* the author or feed an item comes from
  Gone,         \* the text stored for an item the source has deleted
  Engines,      \* the databases: "sqlite" (local runtime), "postgresql" (production)
  MaxAttempts,  \* bound on the claims of each schedule
  MaxTries,     \* RetryPolicy.max_attempts
  MaxFaults,    \* bound on crashes, timeouts, lost replies and database errors
  MaxPins       \* bound on research runs

Sources == {SourceOf[k] : k \in Schedules}
Watches == {WatchOf[k] : k \in Schedules}
ItemsOf(src) == {i \in Items : ItemSource[i] = src}
Texts == UNION {ContentsOf[i] : i \in Items} \cup {Gone}

ASSUME CollectionConstants ==
  /\ \A k, l \in Schedules :
       SourceOf[k] = SourceOf[l] /\ WatchOf[k] = WatchOf[l] => k = l
  /\ Refetching \subseteq Schedules
  /\ \A i \in Items : ItemSource[i] \in Sources /\ Gone \notin ContentsOf[i]
  /\ Engines \subseteq {"sqlite", "postgresql"}
  /\ MaxAttempts \in [Schedules -> Nat]
  /\ {MaxTries, MaxFaults, MaxPins} \subseteq Nat
  /\ MaxFaults < MaxTries  \* so the timeouts that are retried need no count of their own

VARIABLES
  engine,  \* the database this installation runs on
  lease,   \* lease_attempt of each schedule, and whether the lease of that claim is live
  run,     \* the state of the CollectionRun of each attempt of a schedule
  stored,  \* the ContentVersions of each item, with the run that collected them
  source,  \* SourceConnection.status
  signal,  \* the signals, oldest first
  worker,  \* where each process is, and what it has read
  pinned,  \* research runs: the signal, the frozen versions and the state of their runs
  faults   \* counter for the bound

vars == <<engine, lease, run, stored, source, signal, worker, pinned, faults>>

-----------------------------------------------------------------------------
RunStates == {"none", "running", "succeeded", "partial_success", "failed"}
Usable == {"succeeded", "partial_success"}

\* "usable" is healthy or degraded, "broken" failed or auth_required.
SourceStates == {"validating", "usable", "broken"}

Runs == UNION {{<<k, n>> : n \in 1..MaxAttempts[k]} : k \in Schedules}

\* The last field is history, for LateItemsStayOut: the commit came after the lease of
\* the run had ended.
VersionRow == [text: Texts, run: Runs, late: BOOLEAN]

\* A version is its item and its version_number.
Versions == UNION {{<<i, v>> : v \in 1..Len(stored[i])} : i \in Items}
VersionText(x) == stored[x[1]][x[2]].text
VersionRun(x) == stored[x[1]][x[2]].run
VersionLate(x) == stored[x[1]][x[2]].late

\* What a feed, or a refetch, may return: one text for some of the items.
Batches(items, texts) ==
  {b \in UNION {[I -> Texts] : I \in SUBSET items} : \A i \in DOMAIN b : b[i] \in texts[i]}

NoBatch == [i \in {} |-> Gone]

Idle == [at |-> "idle", run |-> <<>>, probe |-> FALSE, batch |-> NoBatch, missing |-> {},
         gathered |-> {}, again |-> FALSE, outcome |-> "none",
         seen |-> {}, triggers |-> {}]

Places == {"idle", "claimed", "beginning", "probing", "fetching", "storing", "saving",
           "refetching", "detecting", "weighing", "checking", "raising", "reporting",
           "healing", "ending", "recording", "closing"}

\* The places between the last check of a call and its commit.
Committing == {"beginning", "raising", "healing", "recording"}

\* The schedule, source and watchlist a process works on.
ScheduleOf(w) == worker[w].run[1]
Src(w) == SourceOf[ScheduleOf(w)]
Watch(w) == WatchOf[ScheduleOf(w)]
RunState(x) == run[x[1]][x[2]]

TypeOK ==
  /\ engine \in Engines
  /\ lease \in [Schedules -> [attempt: Nat, live: BOOLEAN]]
  /\ \A k \in Schedules :
       lease[k].attempt <= MaxAttempts[k] /\ run[k] \in [1..MaxAttempts[k] -> RunStates]
  /\ stored \in [Items -> Seq(VersionRow)]
  /\ source \in [Sources -> SourceStates]
  /\ \A s \in 1..Len(signal) :
       /\ signal[s].watch \in Watches /\ signal[s].cooling \in BOOLEAN
       /\ signal[s].triggers \subseteq signal[s].evidence /\ signal[s].evidence \subseteq Versions
  /\ \A w \in Workers :
       /\ worker[w].at \in Places
       /\ worker[w].at # "idle" => worker[w].run \in Runs
       /\ worker[w].triggers \subseteq worker[w].seen /\ worker[w].seen \subseteq Versions
  /\ \A p \in pinned : p.signal \in 1..Len(signal) /\ DOMAIN p.frozen \subseteq Versions
  /\ faults \in 0..MaxFaults

Init ==
  /\ engine \in Engines
  /\ lease = [k \in Schedules |-> [attempt |-> 0, live |-> FALSE]]
  /\ run = [k \in Schedules |-> [n \in 1..MaxAttempts[k] |-> "none"]]
  /\ stored = [i \in Items |-> <<>>]
  /\ source \in [Sources -> {"validating", "usable"}]
  /\ \A src \in Sources \ NewSources : source[src] = "usable"
  /\ signal = <<>>
  /\ worker = [w \in Workers |-> Idle]
  /\ pinned = {}
  /\ faults = 0

-----------------------------------------------------------------------------
\* The lease of an attempt is the schedule's last, and has not run out.
Leased(x) == lease[x[1]].live /\ lease[x[1]].attempt = x[2]

\* Mutant of HoldsLease: the fencing version is not compared.
HoldsAnyLease(w) == lease[ScheduleOf(w)].live

HoldsLease(w) == Leased(worker[w].run)

\* Mutant of HoldsRun: the state of the run is not looked at.
HoldsLeaseOnly(w) == HoldsLease(w)

HoldsRun(w) == HoldsLease(w) /\ RunState(worker[w].run) = "running"

At(w, place) == worker[w].at = place
Goto(w, place) == worker' = [worker EXCEPT ![w].at = place]

\* The job's handlers: the run is to be reported and completed as failed.
Fail(w) ==
  worker' = [worker EXCEPT ![w] = [Idle EXCEPT !.at = "reporting", !.run = worker[w].run,
                                               !.outcome = "failed"]]

\* An exception that the job cannot report: main.py completes the schedule.
GiveUp(w) ==
  worker' = [worker EXCEPT ![w] = [Idle EXCEPT !.at = "closing", !.run = worker[w].run,
                                               !.outcome = "failed"]]

-----------------------------------------------------------------------------
Claim(w, k) ==
  /\ At(w, "idle") /\ ~lease[k].live /\ lease[k].attempt < MaxAttempts[k]
  /\ lease' = [lease EXCEPT ![k] = [attempt |-> @.attempt + 1, live |-> TRUE]]
  /\ worker' = [worker EXCEPT ![w] =
       [Idle EXCEPT !.at = "claimed", !.run = <<k, lease[k].attempt + 1>>,
                    !.probe = source[SourceOf[k]] = "validating"]]
  /\ UNCHANGED <<run, stored, source, signal, pinned, faults>>

\* The lease is compared with the time the job began.  lease_attempt is new, so no row of
\* this attempt exists.
Begin(w) ==
  /\ At(w, "claimed") /\ HoldsLease(w)
  /\ Goto(w, "beginning")
  /\ UNCHANGED <<lease, run, stored, source, signal, pinned, faults>>

\* A claim of a source that was being validated asks the connector's health only.
CommitBegin(w) ==
  /\ At(w, "beginning")
  /\ run' = [run EXCEPT ![ScheduleOf(w)][worker[w].run[2]] = "running"]
  /\ worker' = [worker EXCEPT ![w].at = IF worker[w].probe THEN "probing" ELSE "fetching",
                              ![w].probe = FALSE]
  /\ UNCHANGED <<lease, stored, source, signal, pinned, faults>>

Probe(w) ==
  /\ At(w, "probing") /\ HoldsLease(w)
  /\ \/ Goto(w, "reporting")
     \/ Fail(w)
  /\ UNCHANGED <<lease, run, stored, source, signal, pinned, faults>>

\* Pages of the connector, which may give up half way (cut).  That the feed was truncated
\* or unhealthy is decided where it is first used, in Report.
Fetch(w) ==
  /\ At(w, "fetching") /\ HoldsLease(w)
  /\ \E batch \in Batches(ItemsOf(Src(w)), ContentsOf) :
     \E cut \in BOOLEAN :
       worker' = [worker EXCEPT ![w].at = "storing", ![w].batch = batch,
                                ![w].again = cut \/ ScheduleOf(w) \notin Refetching]
  /\ UNCHANGED <<lease, run, stored, source, signal, pinned, faults>>

\* The connector raises, or reports a failure with nothing collected.
FetchFails(w) ==
  /\ \/ At(w, "fetching")
     \/ At(w, "refetching") /\ ~worker[w].again
  /\ HoldsLease(w)
  /\ Fail(w)
  /\ UNCHANGED <<lease, run, stored, source, signal, pinned, faults>>

\* A timeout starts over from the first page, also when it is the refetch that timed out.
FetchAgain(w) ==
  /\ \/ At(w, "fetching")
     \/ At(w, "refetching") /\ ~worker[w].again
  /\ faults < MaxFaults
  /\ worker' = [worker EXCEPT ![w] = [Idle EXCEPT !.at = "fetching", !.run = worker[w].run]]
  /\ faults' = faults + 1
  /\ UNCHANGED <<lease, run, stored, source, signal, pinned>>

-----------------------------------------------------------------------------
(* Storing items.  PostgreSQL locks the rows of the items that exist; SQLite *)
(* lets one transaction write at a time.                                    *)
Locked(w) == IF At(w, "saving") THEN DOMAIN worker[w].batch \ worker[w].missing ELSE {}
Existing(batch) == {i \in DOMAIN batch : stored[i] # <<>>}

OpenSave(w) ==
  /\ At(w, "storing") /\ HoldsRun(w)
  /\ \A v \in Workers \ {w} :
       /\ Locked(v) \cap Existing(worker[w].batch) = {}
       /\ engine = "sqlite" => ~At(v, "saving")
  /\ worker' = [worker EXCEPT ![w].at = "saving",
                              ![w].missing = DOMAIN worker[w].batch \ Existing(worker[w].batch)]
  /\ UNCHANGED <<lease, run, stored, source, signal, pinned, faults>>

HasText(i, text) == \E v \in 1..Len(stored[i]) : stored[i][v].text = text
Changed(w) == {i \in DOMAIN worker[w].batch : ~HasText(i, worker[w].batch[i])}
Overtaken(w) == \E i \in worker[w].missing : stored[i] # <<>>

\* The next version_number of an item that exists is read as max(...) FOR UPDATE,
\* which PostgreSQL refuses for every aggregate.
Refused(w) == engine = "postgresql" /\ Changed(w) \ worker[w].missing # {}

\* The commit, which may come after the lease it checked has run out.
CommitSave(w) ==
  /\ At(w, "saving") /\ ~Overtaken(w) /\ ~Refused(w)
  /\ stored' = [i \in Items |->
       IF i \in Changed(w)
       THEN Append(stored[i], [text |-> worker[w].batch[i], run |-> worker[w].run,
                               late |-> ~Leased(worker[w].run)])
       ELSE stored[i]]
  /\ worker' = [worker EXCEPT
       ![w].at = IF worker[w].again THEN "detecting" ELSE "refetching",
       ![w].gathered = @ \cup {<<i, worker[w].batch[i]>> : i \in DOMAIN worker[w].batch},
       ![w].batch = NoBatch, ![w].missing = {}]
  /\ UNCHANGED <<lease, run, source, signal, pinned, faults>>

\* Another process inserted an item this transaction had found missing: the unique key
\* of content_items refuses the second, and nothing of the batch is stored.
\* Mutant of SaveCollides: the item that exists counts as stored, whatever its text.
SaveSkips(w) ==
  /\ At(w, "saving") /\ (Overtaken(w) \/ Refused(w))
  /\ worker' = [worker EXCEPT
       ![w].at = IF worker[w].again THEN "detecting" ELSE "refetching",
       ![w].gathered = @ \cup {<<i, worker[w].batch[i]>> : i \in DOMAIN worker[w].batch},
       ![w].batch = NoBatch, ![w].missing = {}]
  /\ UNCHANGED <<lease, run, stored, source, signal, pinned, faults>>

SaveCollides(w) ==
  /\ At(w, "saving") /\ (Overtaken(w) \/ Refused(w))
  /\ Fail(w)
  /\ UNCHANGED <<lease, run, stored, source, signal, pinned, faults>>

Refetchable(w) == {i \in ItemsOf(Src(w)) : stored[i] # <<>>}
Answers == [i \in Items |-> ContentsOf[i] \cup {Gone}]

\* The stored items of the source are asked for again, one by one; those that are gone
\* and those that answer make a second batch.
Refetch(w) ==
  /\ At(w, "refetching") /\ HoldsRun(w)
  /\ \E batch \in Batches(Refetchable(w), Answers) :
       worker' = [worker EXCEPT ![w].at = IF DOMAIN batch = {} THEN "detecting" ELSE "storing",
                                ![w].batch = batch, ![w].again = TRUE]
  /\ UNCHANGED <<lease, run, stored, source, signal, pinned, faults>>

-----------------------------------------------------------------------------
(* Detection.                                                              *)
WatchSources(u) == {SourceOf[k] : k \in {l \in Schedules : WatchOf[l] = u}}

\* Everything stored of the watchlist's sources, whoever collected it.  No retry follows.
Observe(w) ==
  /\ At(w, "detecting") /\ HoldsRun(w)
  /\ worker' = [worker EXCEPT ![w].at = "weighing", ![w].again = FALSE,
                              ![w].seen = {x \in Versions : ItemSource[x[1]] \in WatchSources(Watch(w))}]
  /\ UNCHANGED <<lease, run, stored, source, signal, pinned, faults>>

\* The versions of an item make one cluster.  Two clusters of two origins are needed, and
\* no cluster may hold three quarters of what matches.  A deleted item matches no term.
Matching(seen) == {x \in seen : VersionText(x) # Gone}
ClusterSize(seen, i) == Cardinality({x \in seen : x[1] = i})
Triggering(seen) ==
  /\ Cardinality({x[1] : x \in seen}) >= 2
  /\ Cardinality({OriginOf[x[1]] : x \in seen}) >= 2
  /\ \A i \in Items : 4 * ClusterSize(seen, i) < 3 * Cardinality(seen)

\* The last ended run of each source of the watchlist, or the present run once it stored
\* something, says whether that source has been collected.
LastEnded(k) ==
  LET ended == {n \in 1..MaxAttempts[k] : run[k][n] \in Usable \cup {"failed"}}
  IN  IF ended = {} THEN "none" ELSE run[k][CHOOSE n \in ended : \A m \in ended : m <= n]
StoredBy(x) == {y \in Versions : VersionRun(y) = x}
Collected(w, k) ==
  \/ k = ScheduleOf(w) /\ StoredBy(worker[w].run) # {}
  \/ LastEnded(k) \in Usable

BaselineReady(w) ==
  LET ready == {SourceOf[k] : k \in {l \in Schedules : WatchOf[l] = Watch(w) /\ Collected(w, l)}}
      count == Cardinality({x \in Versions : ItemSource[x[1]] \in ready})
  IN  count >= 2 /\ count >= Cardinality(WatchSources(Watch(w)))

Weigh(w) ==
  /\ At(w, "weighing") /\ HoldsRun(w)
  /\ IF Triggering(Matching(worker[w].seen)) /\ BaselineReady(w)
     THEN worker' = [worker EXCEPT ![w].at = "checking", ![w].triggers = Matching(worker[w].seen)]
     ELSE worker' = [worker EXCEPT ![w].at = "reporting", ![w].seen = {}]
  /\ UNCHANGED <<lease, run, stored, source, signal, pinned, faults>>

\* The id of a signal is a digest of its watchlist and its trigger versions.
Twin(w, s) == signal[s].watch = Watch(w) /\ signal[s].triggers = worker[w].triggers
Suppressed(w) ==
  \E s \in 1..Len(signal) : signal[s].watch = Watch(w) /\ (Twin(w, s) \/ signal[s].cooling)

Detected(w) == worker' = [worker EXCEPT ![w].at = "reporting", ![w].seen = {}, ![w].triggers = {}]

CheckSignal(w) ==
  /\ At(w, "checking") /\ HoldsRun(w)
  /\ IF Suppressed(w) THEN Detected(w) ELSE Goto(w, "raising")
  /\ UNCHANGED <<lease, run, stored, source, signal, pinned, faults>>

NewSignal(w) == [watch |-> Watch(w), triggers |-> worker[w].triggers,
                 evidence |-> worker[w].seen, cooling |-> TRUE]

\* Mutant of RaiseSignal: the id is drawn at random.
RaiseAnySignal(w) ==
  /\ At(w, "raising")
  /\ signal' = Append(signal, NewSignal(w)) /\ Detected(w)
  /\ UNCHANGED <<lease, run, stored, source, pinned, faults>>

\* The insert: the primary key refuses an id that was raised since the check.
RaiseSignal(w) ==
  /\ At(w, "raising")
  /\ IF \E s \in 1..Len(signal) : Twin(w, s)
     THEN Fail(w) /\ UNCHANGED signal
     ELSE signal' = Append(signal, NewSignal(w)) /\ Detected(w)
  /\ UNCHANGED <<lease, run, stored, source, pinned, faults>>

Report(w) ==
  /\ At(w, "reporting") /\ HoldsRun(w)
  /\ Goto(w, "healing")
  /\ UNCHANGED <<lease, run, stored, source, signal, pinned, faults>>

\* A full success leaves the source healthy, anything else what the connector answered.
CommitReport(w) ==
  /\ At(w, "healing")
  /\ \E outcome \in Usable \cup {"failed"}, status \in {"usable", "broken"} :
       /\ outcome = "failed" <=> worker[w].outcome = "failed"
       /\ outcome = "succeeded" => status = "usable"
       /\ source' = [source EXCEPT ![Src(w)] = status]
       /\ worker' = [worker EXCEPT ![w].at = "ending", ![w].outcome = outcome]
  /\ UNCHANGED <<lease, run, stored, signal, pinned, faults>>

EndRun(w) == run' = [run EXCEPT ![ScheduleOf(w)][worker[w].run[2]] = worker[w].outcome]

End(w) ==
  /\ At(w, "ending") /\ HoldsRun(w)
  /\ Goto(w, "recording")
  /\ UNCHANGED <<lease, run, stored, source, signal, pinned, faults>>

CommitEnd(w) ==
  /\ At(w, "recording")
  /\ EndRun(w) /\ Goto(w, "closing")
  /\ UNCHANGED <<lease, stored, source, signal, pinned, faults>>

\* The exception handler of the job; an exception in the handler goes to main.py.
Handle(w) == IF worker[w].outcome = "failed" THEN GiveUp(w) ELSE Fail(w)

\* The commit took place, its answer is lost.
LostReply(w) ==
  /\ At(w, "recording") /\ faults < MaxFaults
  /\ EndRun(w) /\ Handle(w)
  /\ faults' = faults + 1
  /\ UNCHANGED <<lease, stored, source, signal, pinned>>

\* Every call after that finds the run no longer running.
NotRunning(w) ==
  /\ worker[w].at \in {"reporting", "ending"} /\ HoldsLease(w)
  /\ RunState(worker[w].run) # "running"
  /\ Handle(w)
  /\ UNCHANGED <<lease, run, stored, source, signal, pinned, faults>>

\* A call of the database fails: nothing is written.
CallFails(w) ==
  /\ worker[w].at \notin {"idle", "probing", "fetching", "closing"} /\ faults < MaxFaults
  /\ IF worker[w].at \in {"claimed", "beginning"} THEN GiveUp(w) ELSE Handle(w)
  /\ faults' = faults + 1
  /\ UNCHANGED <<lease, run, stored, source, signal, pinned>>

Close(w) ==
  /\ At(w, "closing") /\ HoldsLease(w)
  /\ lease' = [lease EXCEPT ![ScheduleOf(w)].live = FALSE]
  /\ worker' = [worker EXCEPT ![w] = Idle]
  /\ UNCHANGED <<run, stored, source, signal, pinned, faults>>

-----------------------------------------------------------------------------
\* The heartbeats came too late.
LeasePasses(k) ==
  /\ lease[k].live
  /\ lease' = [lease EXCEPT ![k].live = FALSE]
  /\ UNCHANGED <<run, stored, source, signal, worker, pinned, faults>>

\* Without the lease every call raises, those of the handlers too, unless it is past its
\* check; storing items checks again before its commit.
LoseLease(w) ==
  /\ worker[w].at \notin Committing \cup {"idle"} /\ ~HoldsLease(w)
  /\ worker' = [worker EXCEPT ![w] = Idle]
  /\ UNCHANGED <<lease, run, stored, source, signal, pinned, faults>>

\* The process dies, and is started again.
Crash(w) ==
  /\ ~At(w, "idle") /\ faults < MaxFaults
  /\ worker' = [worker EXCEPT ![w] = Idle]
  /\ faults' = faults + 1
  /\ UNCHANGED <<lease, run, stored, source, signal, pinned>>

CooldownPasses(s) ==
  /\ signal[s].cooling
  /\ signal' = [signal EXCEPT ![s].cooling = FALSE]
  /\ UNCHANGED <<lease, run, stored, source, worker, pinned, faults>>

-----------------------------------------------------------------------------
(* Research.  The API freezes a choice of the signal's evidence with the    *)
(* runs it was collected by; the worker compares them before it begins.    *)
Sound(x, u) == WatchOf[VersionRun(x)[1]] = u /\ RunState(VersionRun(x)) \in Usable
Selectable(s, choice) ==
  /\ choice # {} /\ choice \subseteq signal[s].evidence
  /\ \A x \in choice : source[ItemSource[x[1]]] = "usable"
Snapshot(choice) == [x \in choice |-> RunState(VersionRun(x))]

PinRun(s) ==
  /\ Cardinality(pinned) < MaxPins
  /\ \E choice \in SUBSET signal[s].evidence :
       /\ Selectable(s, choice)
       /\ \A x \in choice : Sound(x, signal[s].watch)
       /\ pinned' = pinned \cup {[signal |-> s, frozen |-> Snapshot(choice)]}
  /\ UNCHANGED <<lease, run, stored, source, signal, worker, faults>>

\* What the worker accepts when it validates the lineage of the run.
Accepts(p) == \A x \in DOMAIN p.frozen :
  RunState(VersionRun(x)) = p.frozen[x] /\ p.frozen[x] \in Usable

Next ==
  \/ \E w \in Workers :
       \/ \E k \in Schedules : Claim(w, k)
       \/ Begin(w) \/ CommitBegin(w) \/ Probe(w) \/ Fetch(w) \/ FetchFails(w) \/ FetchAgain(w)
       \/ OpenSave(w) \/ CommitSave(w) \/ SaveCollides(w) \/ Refetch(w)
       \/ Observe(w) \/ Weigh(w) \/ CheckSignal(w) \/ RaiseSignal(w)
       \/ Report(w) \/ CommitReport(w) \/ End(w) \/ CommitEnd(w) \/ LostReply(w)
       \/ NotRunning(w) \/ CallFails(w) \/ Close(w) \/ LoseLease(w) \/ Crash(w)
  \/ \E k \in Schedules : LeasePasses(k)
  \/ \E s \in 1..Len(signal) : CooldownPasses(s) \/ PinRun(s)

Spec == Init /\ [][Next /\ UNCHANGED engine]_vars

-----------------------------------------------------------------------------
\* What the API has frozen for research stays what the worker will accept, whatever
\* crashes, late commits and retries the collections behind it go through.
PinnedStaysValid == \A p \in pinned : Accepts(p)

\* No two signals of a watchlist rest on the same trigger versions, although two
\* collections may detect them at the same moment.
NoTwinSignals ==
  \A s, t \in 1..Len(signal) :
    signal[s].watch = signal[t].watch /\ signal[s].triggers = signal[t].triggers => s = t

\* A collection about to be recorded as a success has stored every item it was given, its
\* refetched ones too, whoever else stored the same items meanwhile.
SuccessIsComplete ==
  \A w \in Workers : worker[w].at \in {"reporting", "healing", "ending", "recording"} =>
    \A found \in worker[w].gathered : \E v \in 1..Len(stored[found[1]]) :
      stored[found[1]][v].text = found[2]

\* A batch may be committed after the lease it was checked under has run out, while a
\* successor collects the same source.  Its process gets no further: its run never ends
\* in success, and the API freezes none of these versions for research.
LateItemsStayOut ==
  \A x \in Versions : VersionLate(x) =>
    /\ RunState(VersionRun(x)) \notin Usable
    /\ \A p \in pinned : x \notin DOMAIN p.frozen

\* An item that changed or vanished at the source gets its new version: storing a batch
\* fails only when the database does or when another process inserts the item first.
ChangesAreStored ==
  [][\A w \in Workers :
       worker[w].at = "saving" /\ worker'[w].outcome = "failed" /\ faults' = faults
         => \E i \in worker[w].missing : stored[i] # <<>>]_vars

\* The evidence of a signal can be put to research once its collections have ended: none
\* was stored by a run that failed afterwards, or for another watchlist.
SignalsAreResearchable ==
  \A s \in 1..Len(signal) : \A x \in signal[s].evidence :
    /\ WatchOf[VersionRun(x)[1]] = signal[s].watch
    /\ RunState(VersionRun(x)) # "failed"

\* A watchlist raises one signal per cooldown.
CooldownHolds ==
  \A s, t \in 1..Len(signal) :
    signal[s].cooling /\ signal[t].cooling /\ signal[s].watch = signal[t].watch => s = t
=============================================================================
