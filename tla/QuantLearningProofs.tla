------------------------ MODULE QuantLearningProofs ------------------------
(***************************************************************************)
(* What holds of QuantLearning for any runs, calls, offers and bounds.     *)
(*                                                                         *)
(* Everything an agent step decides it reads off the event stream: which   *)
(* call is open, which one is being tried, which rejection has no trace    *)
(* yet.  Each of these is the last event of some types, and an event       *)
(* appended to the stream either is the new last one or changes nothing    *)
(* (Appended).  With it the argument is short: between the start of a call *)
(* and its outcome no other tool event is written, a start over an open    *)
(* rejection repairs it, and so at most the last outcome of a run is a     *)
(* rejection without a trace (UntracedIsLast), which is the one the next   *)
(* outcome or stop closes.  Composed memory reads the same later because   *)
(* what it learned from is never written again and what is published later *)
(* is closed later (ComposedStays).  Together they make every workspace     *)
(* that no cancellation cut in the middle of a call load again.            *)
(***************************************************************************)
EXTENDS QuantLearning, TLAPS, FiniteSetTheorems, WellFoundedInduction

\* The call of the last tool event, if that is a start.
Tried(log) ==
  LET i == LastBefore(log, ToolTypes, Len(log) + 1)
  IN IF i > 0 /\ log[i].type = "started" THEN log[i].call ELSE NoCall

\* A run that was not created has no history, and no other run stems from it.
RowsFit ==
  \A r \in Runs :
    /\ runs[r].state = "none" => events[r] = <<>> /\ traces[r] = {} /\ runs[r].memory = {}
    /\ runs[r].retry_of # Nobody => /\ runs[r].state # "none"
                                    /\ runs[runs[r].retry_of].state # "none"
    /\ runs[r].created <= clock

\* A tool event names a call, a rejection one that is not valid.
Named(e) ==
  /\ e.type \in ToolTypes => e.call \in Calls
  /\ e.type = "invalid" => ~Valid(e.call)

CallsNamed == \A r \in Runs : \A i \in DOMAIN events[r] : Named(events[r][i])

\* The call the worker executes is the one its run is trying, and repairs
\* what is open.
WorkerFits ==
  /\ worker.pc # "idle" => runs[worker.run].state # "none"
  /\ worker.pc \in {"started", "observed"} =>
       /\ Tried(events[worker.run]) = worker.call
       /\ Pending(events[worker.run]) # NoCall => Applies(worker.call, Pending(events[worker.run]))
  /\ worker.pc = "observed" =>
       /\ worker.type \in Outcomes
       /\ worker.type = "invalid" => ~Valid(worker.call)

\* A trace is of one rejection that stands in the stream, no two of the same.
OfLog(t, log) ==
  /\ t.failed \in DOMAIN log /\ log[t.failed].type = "invalid"
  /\ t.at \in DOMAIN log /\ t.failed < t.at

TracesFit ==
  \A r \in Runs : \A t \in traces[r] :
    /\ OfLog(t, events[r])
    /\ t.closed <= clock
    /\ \A u \in traces[r] : u.failed = t.failed => u = t

\* What the memory repairs is a surplus field, and resolved traces back it.
MemoryFits ==
  \A r \in Runs : \A e \in runs[r].memory :
    /\ e.call.extra
    /\ \A s \in e.sources : s[1] \in Runs /\ \E t \in traces[s[1]] : t.failed = s[2] /\ t.outcome = "resolved"

\* MistakesNotRepeated, of one run.
NotRepeated(memory, log) ==
  \A i \in Indices(log, {"started"}) :
    Pending(SubSeq(log, 1, i - 1)) = NoCall =>
      \A e \in memory : Valid(Corrected(e.call)) => log[i].call # e.call

IInv ==
  /\ TypeOK
  /\ RowsFit
  /\ CallsNamed
  /\ WorkerFits
  /\ TracesFit
  /\ MemoryFits
  /\ \A r \in Runs : NotRepeated(runs[r].memory, events[r])

-----------------------------------------------------------------------------
(* What a workspace needs to load again, stream by stream.                 *)

FollowsStart(log, i) ==
  i > 1 /\ log[i - 1].type = "started" /\ log[i - 1].call = log[i].call

\* A trace that matches its stream.
Matches(t, log) ==
  /\ OfLog(t, log)
  /\ FollowsStart(log, t.failed)
  /\ \E j \in Indices(log, {"published"}) : j > t.at
  /\ IF t.outcome = "stopped"
     THEN log[t.at].type = "stopped" /\ log[t.at].call = log[t.failed].call
     ELSE /\ log[t.at].type \in Outcomes
          /\ {j \in Indices(log, Outcomes) : t.failed < j /\ j < t.at} = {}
          /\ t.start \in DOMAIN log
          /\ log[t.start].type = "started" /\ t.start = LastBefore(log, ToolTypes, t.at)
          /\ log[t.start].call.action = log[t.failed].call.action
          /\ HasDelta(log[t.failed].call, log[t.start].call)
          /\ (t.outcome = "resolved") <=> (log[t.at].type = "completed")

HasTrace(T, i) == \E t \in T : t.failed = i

\* A rejection that an outcome or a stop follows has its trace: the last
\* outcome alone may be a rejection without one.
ClosedBy(log, T) ==
  \A i \in Indices(log, {"invalid"}) :
    (\E j \in DOMAIN log : j > i /\ log[j].type \in Outcomes \cup {"stopped"}) => HasTrace(T, i)

Ordered(log, T) ==
  /\ \A i \in Indices(log, {"invalid"}) : FollowsStart(log, i)
  /\ ClosedBy(log, T)

InOrder(log, T) == Ordered(log, T) /\ \A t \in T : Matches(t, log)

CancelledMidway(log) ==
  \E i \in Indices(log, {"run_cancelled"}) : i > 1 /\ log[i - 1].type = "started"

LogKept(log, T) == CancelledMidway(log) \/ InOrder(log, T)

\* A receipt stands between the selection and the start of the corrected call
\* and names an entry of the memory.
ReceiptsKept(log, memory) ==
  \A i \in Indices(log, {"reused"}) :
    /\ i > 1 /\ i < Len(log)
    /\ log[i - 1].type = "selected" /\ log[i + 1].type = "started"
    /\ log[i - 1].call = log[i + 1].call /\ log[i + 1].call = Corrected(log[i].call)
    /\ \E e \in memory : e.call = log[i].call /\ e.sources = log[i].sources

\* Without the fallback no run ever leaves its provider.
Providers ==
  \A r \in Runs :
    /\ runs[r].provider = "model"
    /\ \A t \in traces[r] : t.provider = "model"

\* MemoryHolds, for the time that the run was created.
Memories ==
  \A r \in Runs : runs[r].state # "none" =>
    IF runs[r].retry_of # Nobody
    THEN runs[r].memory = runs[runs[r].retry_of].memory
    ELSE \A created \in Nat : runs[r].created = created => runs[r].memory = ComposeMemory(r, created)

\* The worker's call was the last thing written, but for the end of the run
\* that finish_research commits.
EndsStarted(log, call) ==
  LET n == Len(log) IN n > 0 /\ log[n].type = "started" /\ log[n].call = call

EndsFinished(log, call) ==
  LET n == Len(log)
  IN n > 1 /\ log[n].type = "run_ended" /\ log[n - 1].type = "started" /\ log[n - 1].call = call

AtStart ==
  worker.pc \in {"started", "observed"} /\ ~CancelledMidway(events[worker.run]) =>
    \/ EndsStarted(events[worker.run], worker.call)
    \/ /\ worker.pc = "observed" /\ worker.type = "completed"
       /\ runs[worker.run].state = "completed"
       /\ EndsFinished(events[worker.run], worker.call)

Recorded ==
  /\ Providers
  /\ \A r \in Runs : LogKept(events[r], traces[r])
  /\ \A r \in Runs : ReceiptsKept(events[r], runs[r].memory)
  /\ Memories

RInv == Recorded /\ AtStart

-----------------------------------------------------------------------------
(* The last event of some types.                                           *)

LEMMA MaxIsGreatest ==
  ASSUME NEW S, S \subseteq Nat, S # {}, NEW n \in Nat, \A m \in S : m <= n
  PROVE  Max(S) \in S /\ \A m \in S : m <= Max(S)
<1> DEFINE T == {n - m : m \in S}
<1>1. T \subseteq Nat /\ T # {}
  <2>1. \A m \in S : n - m \in Nat
    OBVIOUS
  <2>2. PICK m \in S : TRUE
    OBVIOUS
  <2> QED
    BY <2>1, <2>2
<1>2. PICK x \in T : \A y \in T : ~(<<y, x>> \in OpToRel(<, Nat))
  BY <1>1, WFMin, NatLessThanWellFounded
<1>3. \A y \in T : ~(y < x)
  BY <1>1, <1>2 DEF OpToRel
<1>4. PICK k \in S : x = n - k
  OBVIOUS
<1>5. ASSUME NEW m \in S
      PROVE  m <= k
  <2>1. ~(n - m < n - k)
    BY <1>3, <1>4
  <2>2. m \in Nat /\ k \in Nat
    OBVIOUS
  <2> QED
    BY <2>1, <2>2
<1> QED
  BY <1>5 DEF Max

LEMMA MaxIsUnique ==
  ASSUME NEW S, S \subseteq Nat, NEW k \in S, \A m \in S : m <= k
  PROVE  Max(S) = k
<1>1. \A x \in S : (\A m \in S : m <= x) => x = k
  OBVIOUS
<1> QED
  BY <1>1 DEF Max

Logs == Seq(Events)

\* The last index below a bound: what it is and when it is not 0.
LEMMA LastIsLast ==
  ASSUME NEW log \in Logs, NEW types, NEW i \in Nat
  PROVE  LET k == LastBefore(log, types, i) IN
         /\ k \in Nat
         /\ k # 0 => k \in Indices(log, types) /\ k < i
         /\ \A j \in Indices(log, types) : j < i => j <= k
<1> DEFINE S == {0} \cup {j \in Indices(log, types) : j < i}
<1>1. \A j \in DOMAIN log : j \in Nat
  BY DEF Logs
<1>2. S \subseteq Nat /\ S # {} /\ \A m \in S : m <= i
  BY <1>1 DEF Indices
<1>3. Max(S) \in S /\ \A m \in S : m <= Max(S)
  <2> HIDE DEF S
  <2> QED
    BY <1>2, MaxIsGreatest
<1>4. LastBefore(log, types, i) = Max(S)
  BY DEF LastBefore
<1> QED
  BY <1>2, <1>3, <1>4

LEMMA LastIsIt ==
  ASSUME NEW log \in Logs, NEW types, NEW i \in Nat, NEW k \in Indices(log, types), k < i,
         \A j \in Indices(log, types) : j < i => j <= k
  PROVE  LastBefore(log, types, i) = k
<1> DEFINE S == {0} \cup {j \in Indices(log, types) : j < i}
<1>1. \A j \in DOMAIN log : j \in Nat
  BY DEF Logs
<1>2. S \subseteq Nat /\ k \in S /\ \A m \in S : m <= k
  BY <1>1 DEF Indices
<1>3. Max(S) = k
  <2> HIDE DEF S
  <2> QED
    BY <1>2, MaxIsUnique
<1> QED
  BY <1>3 DEF LastBefore

LEMMA Appending ==
  ASSUME NEW log \in Logs, NEW e \in Events
  PROVE  /\ Append(log, e) \in Logs
         /\ Len(log) \in Nat /\ DOMAIN log = 1 .. Len(log)
         /\ Len(Append(log, e)) = Len(log) + 1
         /\ DOMAIN Append(log, e) = 1 .. Len(log) + 1
         /\ Append(log, e)[Len(log) + 1] = e
         /\ \A i \in 1 .. Len(log) : Append(log, e)[i] = log[i]
BY DEF Logs

\* An appended event is the last of its types, and leaves the last of other
\* types and everything that lies before alone.
LEMMA Appended ==
  ASSUME NEW log \in Logs, NEW e \in Events, NEW types
  PROVE  LET log2 == Append(log, e) IN
         /\ e.type \in types => LastBefore(log2, types, Len(log2) + 1) = Len(log) + 1
         /\ e.type \notin types =>
              LastBefore(log2, types, Len(log2) + 1) = LastBefore(log, types, Len(log) + 1)
         /\ \A i \in Nat : i <= Len(log) + 1 => LastBefore(log2, types, i) = LastBefore(log, types, i)
<1> DEFINE log2 == Append(log, e)
           n    == Len(log) + 1
<1>1. /\ log2 \in Logs /\ Len(log) \in Nat /\ DOMAIN log = 1 .. Len(log)
      /\ Len(log2) = n /\ DOMAIN log2 = 1 .. n /\ log2[n] = e
      /\ \A i \in 1 .. Len(log) : log2[i] = log[i]
  BY Appending
<1> HIDE DEF log2
<1>2. ASSUME NEW i \in Nat, i <= n
      PROVE  {j \in Indices(log2, types) : j < i} = {j \in Indices(log, types) : j < i}
  BY <1>1, <1>2 DEF Indices
<1>3. CASE e.type \in types
  <2>1. n \in Indices(log2, types) /\ \A j \in Indices(log2, types) : j <= n
    BY <1>1, <1>3 DEF Indices
  <2>2. LastBefore(log2, types, n + 1) = n
    BY <1>1, <2>1, LastIsIt
  <2> QED
    BY <1>1, <1>2, <1>3, <2>2 DEF LastBefore, log2
<1>4. CASE e.type \notin types
  <2>1. {j \in Indices(log2, types) : j < n + 1} = {j \in Indices(log, types) : j < n}
    BY <1>1, <1>4 DEF Indices
  <2> QED
    BY <1>1, <1>2, <1>4, <2>1 DEF LastBefore, log2
<1> QED
  BY <1>3, <1>4

LEMMA PendingAppended ==
  ASSUME NEW log \in Logs, NEW e \in Events
  PROVE  /\ e.type \notin Outcomes => Pending(Append(log, e)) = Pending(log)
         /\ e.type \in Outcomes => Pending(Append(log, e)) = IF e.type = "invalid" THEN e.call ELSE NoCall
<1> DEFINE log2 == Append(log, e)
<1>1. /\ log2 \in Logs /\ Len(log) \in Nat /\ Len(log2) = Len(log) + 1 /\ log2[Len(log2)] = e
      /\ \A i \in 1 .. Len(log) : log2[i] = log[i]
  BY Appending
<1> HIDE DEF log2
<1>2. CASE e.type \notin Outcomes
  <2> DEFINE k == LastBefore(log, Outcomes, Len(log) + 1)
  <2>1. LastBefore(log2, Outcomes, Len(log2) + 1) = k
    BY <1>2, Appended DEF log2
  <2>2. k \in Nat /\ (k # 0 => k < Len(log) + 1)
    BY <1>1, LastIsLast
  <2>3. k > 0 => log2[k] = log[k]
    BY <1>1, <2>2
  <2>4. Pending(log2) = IF k > 0 /\ log2[k].type = "invalid" THEN log2[k].call ELSE NoCall
    BY <2>1 DEF Pending
  <2>5. Pending(log) = IF k > 0 /\ log[k].type = "invalid" THEN log[k].call ELSE NoCall
    BY DEF Pending
  <2> HIDE DEF k
  <2>6. Pending(log2) = Pending(log)
    <3>1. CASE k > 0
      BY <2>3, <2>4, <2>5, <3>1
    <3>2. CASE ~(k > 0)
      BY <2>4, <2>5, <3>2
    <3> QED
      BY <3>1, <3>2
  <2> QED
    BY <1>2, <2>6 DEF log2
<1>3. CASE e.type \in Outcomes
  <2>1. LastBefore(log2, Outcomes, Len(log2) + 1) = Len(log2)
    BY <1>1, <1>3, Appended DEF log2
  <2>2. Len(log2) > 0
    BY <1>1
  <2>3. Pending(log2) = IF e.type = "invalid" THEN e.call ELSE NoCall
    BY <1>1, <2>1, <2>2 DEF Pending
  <2> QED
    BY <1>3, <2>3 DEF log2
<1> QED
  BY <1>2, <1>3

LEMMA TriedAppended ==
  ASSUME NEW log \in Logs, NEW e \in Events
  PROVE  /\ e.type \notin ToolTypes => Tried(Append(log, e)) = Tried(log)
         /\ e.type \in ToolTypes => Tried(Append(log, e)) = IF e.type = "started" THEN e.call ELSE NoCall
<1> DEFINE log2 == Append(log, e)
<1>1. /\ log2 \in Logs /\ Len(log) \in Nat /\ Len(log2) = Len(log) + 1 /\ log2[Len(log2)] = e
      /\ \A i \in 1 .. Len(log) : log2[i] = log[i]
  BY Appending
<1> HIDE DEF log2
<1>2. CASE e.type \notin ToolTypes
  <2> DEFINE k == LastBefore(log, ToolTypes, Len(log) + 1)
  <2>1. LastBefore(log2, ToolTypes, Len(log2) + 1) = k
    BY <1>2, Appended DEF log2
  <2>2. k \in Nat /\ (k # 0 => k < Len(log) + 1)
    BY <1>1, LastIsLast
  <2>3. k > 0 => log2[k] = log[k]
    BY <1>1, <2>2
  <2>4. Tried(log2) = IF k > 0 /\ log2[k].type = "started" THEN log2[k].call ELSE NoCall
    BY <2>1 DEF Tried
  <2>5. Tried(log) = IF k > 0 /\ log[k].type = "started" THEN log[k].call ELSE NoCall
    BY DEF Tried
  <2> HIDE DEF k
  <2>6. Tried(log2) = Tried(log)
    <3>1. CASE k > 0
      BY <2>3, <2>4, <2>5, <3>1
    <3>2. CASE ~(k > 0)
      BY <2>4, <2>5, <3>2
    <3> QED
      BY <3>1, <3>2
  <2> QED
    BY <1>2, <2>6 DEF log2
<1>3. CASE e.type \in ToolTypes
  <2>1. LastBefore(log2, ToolTypes, Len(log2) + 1) = Len(log2)
    BY <1>1, <1>3, Appended DEF log2
  <2>2. Len(log2) > 0
    BY <1>1
  <2>3. Tried(log2) = IF e.type = "started" THEN e.call ELSE NoCall
    BY <1>1, <2>1, <2>2 DEF Tried
  <2> QED
    BY <1>3, <2>3 DEF log2
<1> QED
  BY <1>2, <1>3

LEMMA EventFields ==
  ASSUME NEW type \in EventTypes, NEW call \in Calls \cup {NoCall}
  PROVE  /\ Event(type, call) \in Events
         /\ Event(type, call).type = type /\ Event(type, call).call = call
BY DEF Event, Events

\* What the open call is: that of a rejection in the stream.
LEMMA PendingIsRejected ==
  ASSUME NEW log \in Logs, Pending(log) # NoCall
  PROVE  LET k == LastBefore(log, Outcomes, Len(log) + 1) IN
         /\ k \in DOMAIN log /\ log[k].type = "invalid" /\ log[k].call = Pending(log)
         /\ \A j \in Indices(log, Outcomes) : j <= k
<1> DEFINE k == LastBefore(log, Outcomes, Len(log) + 1)
<1>1. Len(log) \in Nat /\ DOMAIN log = 1 .. Len(log)
  BY DEF Logs
<1>2. /\ k \in Nat /\ (k # 0 => k \in Indices(log, Outcomes))
      /\ \A j \in Indices(log, Outcomes) : j < Len(log) + 1 => j <= k
  BY <1>1, LastIsLast
<1>3. k > 0 /\ log[k].type = "invalid" /\ Pending(log) = log[k].call
  BY DEF Pending
<1>4. \A j \in Indices(log, Outcomes) : j < Len(log) + 1
  BY <1>1 DEF Indices
<1>5. k \in DOMAIN log
  BY <1>2, <1>3 DEF Indices
<1> QED
  BY <1>2, <1>3, <1>4, <1>5

-----------------------------------------------------------------------------
(* Streams that grow.                                                      *)

\* The second stream continues the first.
Grows(log, log2) ==
  /\ log2 \in Logs
  /\ Len(log) <= Len(log2)
  /\ \A i \in 1 .. Len(log) : log2[i] = log[i]

LEMMA AppendGrows ==
  ASSUME NEW log \in Logs, NEW e \in Events
  PROVE  Grows(log, Append(log, e))
BY Appending DEF Grows

LEMMA GrowsOn ==
  ASSUME NEW log \in Logs, NEW log2, NEW e \in Events, Grows(log, log2)
  PROVE  Grows(log, Append(log2, e)) /\ Append(log2, e) \in Logs
<1>1. log2 \in Logs
  BY DEF Grows
<1>2. /\ Append(log2, e) \in Logs /\ Len(log2) \in Nat /\ Len(Append(log2, e)) = Len(log2) + 1
      /\ \A i \in 1 .. Len(log2) : Append(log2, e)[i] = log2[i]
  BY <1>1, Appending
<1>3. Len(log) \in Nat
  BY DEF Logs
<1> QED
  BY <1>2, <1>3 DEF Grows

\* What was said of an index of the stream stays said.
LEMMA GrownKeeps ==
  ASSUME NEW log \in Logs, NEW log2, Grows(log, log2)
  PROVE  /\ \A i \in DOMAIN log : i \in DOMAIN log2 /\ log2[i] = log[i]
         /\ \A i \in DOMAIN log : \A types : LastBefore(log2, types, i) = LastBefore(log, types, i)
         /\ \A i \in DOMAIN log : SubSeq(log2, 1, i - 1) = SubSeq(log, 1, i - 1)
<1>1. /\ Len(log) \in Nat /\ DOMAIN log = 1 .. Len(log)
      /\ Len(log2) \in Nat /\ DOMAIN log2 = 1 .. Len(log2) /\ Len(log) <= Len(log2)
      /\ \A i \in 1 .. Len(log) : log2[i] = log[i]
  BY DEF Grows, Logs
<1>2. \A i \in DOMAIN log : i \in DOMAIN log2 /\ log2[i] = log[i]
  BY <1>1
<1>3. ASSUME NEW i \in DOMAIN log, NEW types
      PROVE  LastBefore(log2, types, i) = LastBefore(log, types, i)
  <2>1. {j \in Indices(log2, types) : j < i} = {j \in Indices(log, types) : j < i}
    BY <1>1 DEF Indices
  <2> QED
    BY <2>1 DEF LastBefore
<1>4. ASSUME NEW i \in DOMAIN log
      PROVE  SubSeq(log2, 1, i - 1) = SubSeq(log, 1, i - 1)
  <2>1. /\ SubSeq(log2, 1, i - 1) = [j \in 1 .. (i - 1) |-> log2[j]]
        /\ SubSeq(log, 1, i - 1) = [j \in 1 .. (i - 1) |-> log[j]]
    BY <1>1
  <2>2. \A j \in 1 .. (i - 1) : log2[j] = log[j]
    BY <1>1
  <2> QED
    BY <2>1, <2>2
<1> QED
  BY <1>2, <1>3, <1>4

LEMMA NamedAppended ==
  ASSUME NEW log \in Logs, NEW e \in Events, Named(e), \A i \in DOMAIN log : Named(log[i])
  PROVE  \A i \in DOMAIN Append(log, e) : Named(Append(log, e)[i])
<1> DEFINE log2 == Append(log, e)
<1>1. /\ Len(log) \in Nat /\ DOMAIN log = 1 .. Len(log)
      /\ DOMAIN log2 = 1 .. Len(log) + 1 /\ log2[Len(log) + 1] = e
      /\ \A i \in 1 .. Len(log) : log2[i] = log[i]
  BY Appending
<1> HIDE DEF log2
<1>2. ASSUME NEW i \in DOMAIN log2
      PROVE  Named(log2[i])
  <2>1. CASE i = Len(log) + 1
    BY <1>1, <2>1
  <2>2. CASE i # Len(log) + 1
    <3>1. i \in DOMAIN log /\ log2[i] = log[i]
      BY <1>1, <2>2
    <3> QED
      BY <3>1
  <2> QED
    BY <2>1, <2>2
<1> QED
  BY <1>2 DEF log2

\* Only a new start can repeat a mistake, and only what stands open before it
\* excuses it.
LEMMA NotRepeatedAppended ==
  ASSUME NEW log \in Logs, NEW e \in Events, NEW memory, NotRepeated(memory, log),
         e.type = "started" /\ Pending(log) = NoCall =>
           \A m \in memory : Valid(Corrected(m.call)) => e.call # m.call
  PROVE  NotRepeated(memory, Append(log, e))
<1> DEFINE log2 == Append(log, e)
<1>1. /\ Len(log) \in Nat /\ DOMAIN log = 1 .. Len(log)
      /\ DOMAIN log2 = 1 .. Len(log) + 1 /\ log2[Len(log) + 1] = e
  BY Appending
<1>2. Grows(log, log2)
  BY AppendGrows
<1>3. \A i \in DOMAIN log : log2[i] = log[i] /\ SubSeq(log2, 1, i - 1) = SubSeq(log, 1, i - 1)
  BY <1>2, GrownKeeps
<1>4. SubSeq(log2, 1, (Len(log) + 1) - 1) = log
  BY <1>1 DEF Logs
<1> HIDE DEF log2
<1>5. ASSUME NEW i \in Indices(log2, {"started"}), Pending(SubSeq(log2, 1, i - 1)) = NoCall,
             NEW m \in memory, Valid(Corrected(m.call))
      PROVE  log2[i].call # m.call
  <2>0. i \in DOMAIN log2 /\ log2[i].type = "started"
    BY DEF Indices
  <2>1. CASE i = Len(log) + 1
    BY <1>1, <1>4, <1>5, <2>0, <2>1
  <2>2. CASE i # Len(log) + 1
    <3>1. i \in DOMAIN log
      BY <1>1, <2>0, <2>2
    <3>2. i \in Indices(log, {"started"}) /\ Pending(SubSeq(log, 1, i - 1)) = NoCall
      BY <1>3, <1>5, <2>0, <3>1 DEF Indices
    <3> QED
      BY <1>3, <1>5, <3>1, <3>2 DEF NotRepeated
  <2> QED
    BY <2>1, <2>2
<1> QED
  BY <1>5 DEF NotRepeated, log2

LEMMA OfLogGrows ==
  ASSUME NEW log \in Logs, NEW log2, Grows(log, log2), NEW t, OfLog(t, log)
  PROVE  OfLog(t, log2)
BY GrownKeeps DEF OfLog

-----------------------------------------------------------------------------
(* Steps that write one run.                                               *)

LEMMA Rows ==
  ASSUME TypeOK, NEW r \in Runs
  PROVE  /\ runs[r] \in RunRow /\ events[r] \in Logs /\ traces[r] \subseteq Traces
         /\ runs = [runs EXCEPT ![r] = runs[r]]
         /\ events = [events EXCEPT ![r] = events[r]]
         /\ traces = [traces EXCEPT ![r] = traces[r]]
BY DEF TypeOK, Logs

\* A stream of the run that the invariant allows.
GoodLog(r, log) ==
  /\ Grows(events[r], log)
  /\ \A i \in DOMAIN log : Named(log[i])
  /\ NotRepeated(runs[r].memory, log)

LEMMA GoodLogNow ==
  ASSUME IInv, NEW r \in Runs
  PROVE  GoodLog(r, events[r])
<1>1. events[r] \in Logs
  BY Rows DEF IInv
<1>2. Grows(events[r], events[r])
  <2>1. Len(events[r]) \in Nat
    BY <1>1 DEF Logs
  <2> QED
    BY <1>1, <2>1 DEF Grows
<1> QED
  BY <1>2 DEF IInv, CallsNamed, GoodLog

LEMMA GoodLogAppend ==
  ASSUME IInv, NEW r \in Runs, NEW log, GoodLog(r, log), NEW e \in Events, Named(e),
         e.type = "started" /\ Pending(log) = NoCall =>
           \A m \in runs[r].memory : Valid(Corrected(m.call)) => e.call # m.call
  PROVE  GoodLog(r, Append(log, e)) /\ log \in Logs /\ Append(log, e) \in Logs
<1>1. events[r] \in Logs /\ log \in Logs
  BY Rows DEF IInv, GoodLog, Grows
<1>2. Grows(events[r], Append(log, e)) /\ Append(log, e) \in Logs
  BY <1>1, GrowsOn DEF GoodLog
<1>3. \A i \in DOMAIN Append(log, e) : Named(Append(log, e)[i])
  BY <1>1, NamedAppended DEF GoodLog
<1>4. NotRepeated(runs[r].memory, Append(log, e))
  <2> DEFINE memory == runs[r].memory
  <2>1. NotRepeated(memory, log)
    BY DEF GoodLog
  <2>2. e.type = "started" /\ Pending(log) = NoCall =>
           \A m \in memory : Valid(Corrected(m.call)) => e.call # m.call
    OBVIOUS
  <2> HIDE DEF memory
  <2>3. NotRepeated(memory, Append(log, e))
    BY <1>1, <2>1, <2>2, NotRepeatedAppended
  <2> QED
    BY <2>3 DEF memory
<1> QED
  BY <1>1, <1>2, <1>3, <1>4 DEF GoodLog

\* An event of another type than a start.
LEMMA GoodLogNote ==
  ASSUME IInv, NEW r \in Runs, NEW log, GoodLog(r, log),
         NEW type \in EventTypes \ {"started", "invalid"}, NEW call \in Calls \cup {NoCall},
         type \in ToolTypes => call \in Calls
  PROVE  /\ GoodLog(r, Append(log, Event(type, call)))
         /\ log \in Logs /\ Append(log, Event(type, call)) \in Logs
<1> DEFINE e == Event(type, call)
<1>1. e \in Events /\ e.type = type /\ e.call = call
  BY EventFields
<1> HIDE DEF e
<1>2. Named(e) /\ e.type # "started"
  BY <1>1 DEF Named
<1> QED
  BY <1>1, <1>2, GoodLogAppend DEF e

SameRow(row, row2) ==
  /\ row.state # "none" /\ row2.state # "none"
  /\ row2.memory = row.memory /\ row2.retry_of = row.retry_of /\ row2.created = row.created

GoodTraces(T, log, time) ==
  \A t \in T :
    /\ OfLog(t, log)
    /\ t.closed <= time
    /\ \A u \in T : u.failed = t.failed => u = t

\* The run's row, stream and traces are written, no other's.
Written(r, row, log, T) ==
  /\ runs' = [runs EXCEPT ![r] = row]
  /\ events' = [events EXCEPT ![r] = log]
  /\ traces' = [traces EXCEPT ![r] = T]

Persistent ==
  /\ runs \in [Runs -> RunRow]
  /\ events \in [Runs -> Seq(Events)]
  /\ traces \in [Runs -> SUBSET Traces]
  /\ RowsFit
  /\ CallsNamed
  /\ TracesFit
  /\ MemoryFits
  /\ \A r \in Runs : NotRepeated(runs[r].memory, events[r])

LEMMA WrittenKeeps ==
  ASSUME IInv, NEW r \in Runs, NEW row \in RunRow, NEW log, NEW T \in SUBSET Traces,
         Written(r, row, log, T), SameRow(runs[r], row), GoodLog(r, log),
         traces[r] \subseteq T, GoodTraces(T, log, clock'),
         clock' \in Nat, clock <= clock'
  PROVE  Persistent'
<1>0. /\ runs \in [Runs -> RunRow] /\ events \in [Runs -> Seq(Events)]
      /\ traces \in [Runs -> SUBSET Traces] /\ clock \in Nat
      /\ log \in Seq(Events)
  BY DEF IInv, TypeOK, GoodLog, Grows, Logs
<1>1. /\ runs' \in [Runs -> RunRow] /\ events' \in [Runs -> Seq(Events)]
      /\ traces' \in [Runs -> SUBSET Traces]
  BY <1>0 DEF Written
<1>2. /\ runs'[r] = row /\ events'[r] = log /\ traces'[r] = T
      /\ \A q \in Runs : q # r => runs'[q] = runs[q] /\ events'[q] = events[q] /\ traces'[q] = traces[q]
  BY <1>0 DEF Written
<1>3. \A q \in Runs : /\ runs'[q].memory = runs[q].memory /\ runs'[q].retry_of = runs[q].retry_of
                      /\ runs'[q].created = runs[q].created
                      /\ (runs'[q].state = "none") = (runs[q].state = "none")
                      /\ traces[q] \subseteq traces'[q]
  BY <1>2 DEF SameRow
<1>4. RowsFit'
  <2>1. ASSUME NEW q \in Runs
        PROVE  /\ runs'[q].state = "none" => events'[q] = <<>> /\ traces'[q] = {} /\ runs'[q].memory = {}
               /\ runs'[q].created <= clock'
    <3>1. runs[q].created <= clock /\ runs[q].created \in Nat /\ clock \in Nat
      BY <1>0 DEF IInv, RowsFit, RunRow
    <3>2. runs'[q].created <= clock'
      BY <1>3, <3>1
    <3>3. runs[q].state = "none" => events[q] = <<>> /\ traces[q] = {} /\ runs[q].memory = {}
      BY DEF IInv, RowsFit
    <3> QED
      BY <1>2, <1>3, <3>2, <3>3 DEF SameRow
  <2>2. ASSUME NEW q \in Runs, runs'[q].retry_of # Nobody
        PROVE  runs'[q].state # "none" /\ runs'[runs'[q].retry_of].state # "none"
    <3>1. runs[q].retry_of \in Runs
      BY <1>0, <1>3, <2>2 DEF RunRow
    <3>2. runs[q].state # "none" /\ runs[runs[q].retry_of].state # "none"
      BY <1>3, <2>2 DEF IInv, RowsFit
    <3> QED
      BY <1>3, <3>1, <3>2
  <2> QED
    BY <2>1, <2>2 DEF RowsFit
<1>5. CallsNamed'
  BY <1>2 DEF CallsNamed, IInv, GoodLog
<1>6. TracesFit'
  <2>1. ASSUME NEW q \in Runs, NEW t \in traces'[q]
        PROVE  /\ OfLog(t, events'[q]) /\ t.closed <= clock'
               /\ \A u \in traces'[q] : u.failed = t.failed => u = t
    <3>1. CASE q = r
      BY <1>2, <2>1, <3>1 DEF GoodTraces
    <3>2. CASE q # r
      <4>1. t \in traces[q] /\ traces'[q] = traces[q] /\ events'[q] = events[q]
        BY <1>2, <2>1, <3>2
      <4>2. OfLog(t, events[q]) /\ t.closed <= clock /\ \A u \in traces[q] : u.failed = t.failed => u = t
        BY <4>1 DEF IInv, TracesFit
      <4>3. t.closed \in Nat
        BY <1>0, <4>1 DEF Traces
      <4>4. t.closed <= clock'
        BY <1>0, <4>2, <4>3
      <4> QED
        BY <4>1, <4>2, <4>4
    <3> QED
      BY <3>1, <3>2
  <2> QED
    BY <2>1 DEF TracesFit
<1>7. MemoryFits'
  <2>1. ASSUME NEW q \in Runs, NEW e \in runs'[q].memory
        PROVE  /\ e.call.extra
               /\ \A s \in e.sources : s[1] \in Runs /\ \E t \in traces'[s[1]] : t.failed = s[2] /\ t.outcome = "resolved"
    <3>1. e \in runs[q].memory
      BY <1>3, <2>1
    <3>2. /\ e.call.extra
          /\ \A s \in e.sources : s[1] \in Runs /\ \E t \in traces[s[1]] : t.failed = s[2] /\ t.outcome = "resolved"
      BY <3>1 DEF IInv, MemoryFits
    <3> QED
      BY <1>3, <3>2
  <2> QED
    BY <2>1 DEF MemoryFits
<1>8. \A q \in Runs : NotRepeated(runs'[q].memory, events'[q])
  BY <1>2, <1>3 DEF IInv, GoodLog
<1>9. (\A q \in Runs : NotRepeated(runs[q].memory, events[q]))'
  BY <1>8
<1> QED
  BY <1>1, <1>4, <1>5, <1>6, <1>7, <1>9 DEF Persistent

LEMMA StutterKeeps ==
  ASSUME IInv, UNCHANGED <<runs, events, traces, clock>>
  PROVE  Persistent'
<1>1. /\ runs \in [Runs -> RunRow] /\ events \in [Runs -> Seq(Events)]
      /\ traces \in [Runs -> SUBSET Traces]
  BY DEF IInv, TypeOK
<1>2. CallsNamed' /\ \A r \in Runs : NotRepeated(runs'[r].memory, events'[r])
  BY DEF IInv, CallsNamed
<1>3. RowsFit' /\ TracesFit' /\ MemoryFits'
  BY DEF IInv, RowsFit, TracesFit, MemoryFits
<1>4. (\A r \in Runs : NotRepeated(runs[r].memory, events[r]))'
  BY <1>2
<1> QED
  BY <1>1, <1>2, <1>3, <1>4 DEF Persistent

\* A memory that can be pinned.
GoodMemory(memory) ==
  \A e \in memory :
    /\ e.call.extra
    /\ \A s \in e.sources : s[1] \in Runs /\ \E t \in traces[s[1]] : t.failed = s[2] /\ t.outcome = "resolved"

LEMMA CreatedKeeps ==
  ASSUME IInv, NEW r \in Runs, runs[r].state = "none",
         NEW row \in RunRow, row.state # "none", row.created = clock + 1, GoodMemory(row.memory),
         row.retry_of # Nobody => runs[row.retry_of].state # "none",
         runs' = [runs EXCEPT ![r] = row], UNCHANGED <<events, traces>>, clock' = clock + 1
  PROVE  Persistent' /\ clock' \in Nat
<1>0. /\ runs \in [Runs -> RunRow] /\ events \in [Runs -> Seq(Events)]
      /\ traces \in [Runs -> SUBSET Traces] /\ clock \in Nat
  BY DEF IInv, TypeOK
<1>1. runs' \in [Runs -> RunRow] /\ runs'[r] = row /\ \A q \in Runs : q # r => runs'[q] = runs[q]
  BY <1>0
<1>2. \A q \in Runs : runs[q].state # "none" => runs'[q].state # "none"
  BY <1>1
<1>3. RowsFit'
  <2>1. ASSUME NEW q \in Runs
        PROVE  /\ runs'[q].state = "none" => events'[q] = <<>> /\ traces'[q] = {} /\ runs'[q].memory = {}
               /\ runs'[q].created <= clock'
    <3>1. CASE q = r
      BY <1>0, <1>1, <3>1
    <3>2. CASE q # r
      <4>1. runs'[q] = runs[q]
        BY <1>1, <3>2
      <4>2. runs[q].created <= clock /\ runs[q].created \in Nat
        BY <1>0 DEF IInv, RowsFit, RunRow
      <4>3. runs[q].created <= clock'
        BY <1>0, <4>2
      <4> QED
        BY <4>1, <4>3 DEF IInv, RowsFit
    <3> QED
      BY <3>1, <3>2
  <2>2. ASSUME NEW q \in Runs, runs'[q].retry_of # Nobody
        PROVE  runs'[q].state # "none" /\ runs'[runs'[q].retry_of].state # "none"
    <3>1. runs'[q].retry_of \in Runs
      BY <1>1, <2>2 DEF RunRow
    <3>2. CASE q = r
      BY <1>1, <1>2, <2>2, <3>1, <3>2
    <3>3. CASE q # r
      <4>1. runs[q].retry_of # Nobody /\ runs'[q].retry_of = runs[q].retry_of
        BY <1>1, <2>2, <3>3
      <4>2. runs[q].state # "none" /\ runs[runs[q].retry_of].state # "none"
        BY <4>1 DEF IInv, RowsFit
      <4> QED
        BY <1>2, <3>1, <4>1, <4>2
    <3> QED
      BY <3>2, <3>3
  <2> QED
    BY <2>1, <2>2 DEF RowsFit
<1>4. CallsNamed'
  BY DEF IInv, CallsNamed
<1>5. TracesFit'
  <2>1. ASSUME NEW q \in Runs, NEW t \in traces'[q]
        PROVE  /\ OfLog(t, events'[q]) /\ t.closed <= clock'
               /\ \A u \in traces'[q] : u.failed = t.failed => u = t
    <3>1. t \in traces[q] /\ t.closed \in Nat
      BY <1>0 DEF Traces
    <3>2. OfLog(t, events[q]) /\ t.closed <= clock /\ \A u \in traces[q] : u.failed = t.failed => u = t
      BY <3>1 DEF IInv, TracesFit
    <3>3. t.closed <= clock'
      BY <1>0, <3>1, <3>2
    <3> QED
      BY <3>2, <3>3
  <2> QED
    BY <2>1 DEF TracesFit
<1>6. MemoryFits'
  <2>1. \A q \in Runs : GoodMemory(runs[q].memory)
    BY DEF IInv, MemoryFits, GoodMemory
  <2>2. \A q \in Runs : GoodMemory(runs'[q].memory)
    BY <1>1, <2>1
  <2> QED
    BY <2>2 DEF MemoryFits, GoodMemory
<1>7. \A q \in Runs : NotRepeated(runs'[q].memory, events'[q])
  <2>1. events[r] = <<>>
    BY DEF IInv, RowsFit
  <2>2. NotRepeated(row.memory, <<>>)
    BY DEF NotRepeated, Indices
  <2> QED
    BY <1>1, <2>1, <2>2 DEF IInv
<1>8. (\A q \in Runs : NotRepeated(runs[q].memory, events[q]))'
  BY <1>7
<1> QED
  BY <1>0, <1>1, <1>3, <1>4, <1>5, <1>6, <1>8 DEF Persistent

LEMMA Taught ==
  ASSUME IInv, NEW r, NEW created, NEW p \in Teachable(r, created)
  PROVE  LET c == events[p[1]][p[2].failed].call IN
         /\ p[1] \in Runs /\ p[2] \in traces[p[1]] /\ p[2] \in Traces /\ p[2].outcome = "resolved"
         /\ c \in Calls /\ c.extra
<1> DEFINE c == events[p[1]][p[2].failed].call
<1>1. /\ p \in UNION {{q} \X traces[q] : q \in Runs} /\ p[2].outcome = "resolved"
      /\ \A v \in Violations(c) : v.change = "remove"
  BY DEF Teachable
<1>2. p[1] \in Runs /\ p[2] \in traces[p[1]]
  BY <1>1
<1>3. p[2] \in Traces
  BY <1>2 DEF IInv, TypeOK
<1>4. Named(events[p[1]][p[2].failed]) /\ events[p[1]][p[2].failed].type = "invalid"
  BY <1>2 DEF IInv, TracesFit, OfLog, CallsNamed
<1>5. c \in Calls /\ ~Valid(c)
  BY <1>4 DEF Named, ToolTypes
<1>6. c.extra
  <2>1. PICK v \in Violations(c) : v.change = "remove"
    BY <1>1, <1>5 DEF Valid
  <2> HIDE DEF c
  <2>2. Surplus(c)
    BY <2>1 DEF Violations
  <2> QED
    BY <2>2 DEF Surplus
<1> QED
  BY <1>1, <1>2, <1>3, <1>5, <1>6

LEMMA ComposedIsGood ==
  ASSUME IInv, NEW r, NEW created
  PROVE  ComposeMemory(r, created) \in SUBSET Entries /\ GoodMemory(ComposeMemory(r, created))
<1> DEFINE S == Teachable(r, created)
           calls == {events[p[1]][p[2].failed].call : p \in S}
           sources(c) == {<<p[1], p[2].failed>> : p \in Latest(Learned(S, c), MaxSources)}
<1>1. ASSUME NEW e \in ComposeMemory(r, created)
      PROVE  \E c \in calls : e = [call |-> c, sources |-> sources(c)]
  BY DEF ComposeMemory
<1>2. ASSUME NEW c \in calls
      PROVE  c \in Calls /\ c.extra
  BY Taught
<1>3. ASSUME NEW c \in calls, NEW s \in sources(c)
      PROVE  /\ s \in TraceIds /\ s[1] \in Runs
             /\ \E t \in traces[s[1]] : t.failed = s[2] /\ t.outcome = "resolved"
  <2>1. PICK p \in Latest(Learned(S, c), MaxSources) : s = <<p[1], p[2].failed>>
    OBVIOUS
  <2>2. p \in S
    BY DEF Latest, Learned
  <2>3. p[1] \in Runs /\ p[2] \in traces[p[1]] /\ p[2] \in Traces /\ p[2].outcome = "resolved"
    BY <2>2, Taught
  <2>4. p[2].failed \in Nat
    BY <2>3 DEF Traces
  <2>5. s[1] = p[1] /\ s[2] = p[2].failed
    BY <2>1
  <2>6. s \in TraceIds
    BY <2>1, <2>3, <2>4 DEF TraceIds
  <2> QED
    BY <2>3, <2>5, <2>6
<1>4. ASSUME NEW e \in ComposeMemory(r, created)
      PROVE  /\ e \in Entries /\ e.call.extra
             /\ \A s \in e.sources : s[1] \in Runs /\ \E t \in traces[s[1]] : t.failed = s[2] /\ t.outcome = "resolved"
  <2>1. PICK c \in calls : e = [call |-> c, sources |-> sources(c)]
    BY <1>1
  <2>2. c \in Calls /\ c.extra
    BY <1>2
  <2>3. e.call = c /\ e.sources = sources(c)
    BY <2>1
  <2>4. sources(c) \subseteq TraceIds
    BY <1>3
  <2>5. e \in Entries
    <3> HIDE DEF sources, calls
    <3> QED
      BY <2>1, <2>2, <2>4 DEF Entries
  <2> HIDE DEF calls, S
  <2>6. \A s \in sources(c) : s[1] \in Runs /\ \E t \in traces[s[1]] : t.failed = s[2] /\ t.outcome = "resolved"
    BY <1>3
  <2> QED
    BY <2>2, <2>3, <2>5, <2>6
<1> QED
  BY <1>4 DEF GoodMemory

-----------------------------------------------------------------------------
(* The steps.                                                              *)

WorkerRows ==
  [pc: {"idle", "claimed", "started", "observed"}, run: Runs \cup {Nobody},
   call: Calls \cup {NoCall}, type: EventTypes]

\* The part of the invariant that is about the worker and the lease.
Transient ==
  /\ lease \in Runs \cup {Nobody}
  /\ worker \in WorkerRows
  /\ worker.pc # "idle" => worker.run \in Runs
  /\ worker.pc \in {"started", "observed"} => worker.call \in Calls
  /\ unfenced \subseteq Runs
  /\ clock \in Nat /\ faults \in Nat
  /\ WorkerFits

LEMMA Parts == IInv <=> Persistent /\ Transient
BY DEF IInv, TypeOK, Persistent, Transient, WorkerRows

LEMMA PartsNext ==
  ASSUME Persistent', Transient'
  PROVE  IInv'
BY Parts, PTL

LEMMA IdleFits ==
  /\ IdleWorker \in WorkerRows /\ IdleWorker.pc = "idle"
BY DEF IdleWorker, WorkerRows, EventTypes

\* A step after which the worker is idle.
LEMMA IdleKeeps ==
  ASSUME IInv, worker' = IdleWorker, lease' \in Runs \cup {Nobody}, unfenced' \subseteq Runs,
         clock' \in Nat, faults' \in Nat
  PROVE  Transient'
<1>1. worker' \in WorkerRows /\ worker'.pc = "idle"
  BY IdleFits
<1> QED
  BY <1>1 DEF Transient, WorkerFits

\* A step that leaves the worker, and what it reads, alone.
LEMMA AloneKeeps ==
  ASSUME IInv, UNCHANGED worker, lease' \in Runs \cup {Nobody}, unfenced' \subseteq Runs,
         clock' \in Nat, faults' \in Nat,
         \A r \in Runs : runs[r].state # "none" => runs'[r].state # "none",
         \A r \in Runs : Pending(events'[r]) = Pending(events[r]) /\ Tried(events'[r]) = Tried(events[r])
  PROVE  Transient'
<1>1. Transient
  BY Parts
<1>2. worker.pc # "idle" => worker.run \in Runs /\ runs'[worker.run].state # "none"
  BY <1>1 DEF Transient, WorkerFits
<1>3. worker.pc \in {"started", "observed"} =>
        /\ Tried(events'[worker.run]) = worker.call
        /\ Pending(events'[worker.run]) # NoCall => Applies(worker.call, Pending(events'[worker.run]))
  BY <1>1 DEF Transient, WorkerFits
<1>4. WorkerFits'
  BY <1>1, <1>2, <1>3 DEF Transient, WorkerFits
<1> QED
  BY <1>1, <1>4 DEF Transient

LEMMA RowTypes ==
  ASSUME IInv, NEW r \in Runs
  PROVE  /\ runs[r] \in RunRow /\ runs[r].state \in RunStates /\ runs[r].memory \in SUBSET Entries
         /\ runs[r].iteration \in Nat /\ runs[r].failures \in Nat /\ runs[r].created \in Nat
         /\ runs[r].provider \in {"model", "mock"} /\ runs[r].retry_of \in Runs \cup {Nobody}
         /\ clock \in Nat /\ faults \in Nat
         /\ events[r] \in Logs /\ traces[r] \subseteq Traces
         /\ GoodMemory(runs[r].memory)
<1>1. runs[r] \in RunRow /\ clock \in Nat /\ faults \in Nat
  BY DEF IInv, TypeOK
<1>2. /\ runs[r].state \in RunStates /\ runs[r].memory \in SUBSET Entries
      /\ runs[r].iteration \in Nat /\ runs[r].failures \in Nat /\ runs[r].created \in Nat
      /\ runs[r].provider \in {"model", "mock"} /\ runs[r].retry_of \in Runs \cup {Nobody}
  BY <1>1 DEF RunRow
<1>3. GoodMemory(runs[r].memory)
  BY DEF IInv, MemoryFits, GoodMemory
<1> QED
  BY <1>1, <1>2, <1>3, Rows DEF IInv

LEMMA CreateRunKeeps ==
  ASSUME IInv, CreateRun
  PROVE  IInv'
<1>1. PICK r \in Unused :
        /\ clock' = clock + 1
        /\ runs' = [runs EXCEPT ![r] = [NewRun EXCEPT !.state = "running", !.created = clock',
                                                      !.memory = ComposeMemory(r, clock')]]
        /\ UNCHANGED <<events, traces, lease, worker, unfenced, faults>>
  BY DEF CreateRun
<1>2. r \in Runs /\ runs[r].state = "none"
  BY DEF Unused
<1>3. clock \in Nat /\ clock + 1 \in Nat
  BY <1>2, RowTypes
<1> DEFINE memory == ComposeMemory(r, clock')
           row == [NewRun EXCEPT !.state = "running", !.created = clock', !.memory = memory]
<1>4. memory \in SUBSET Entries /\ GoodMemory(memory)
  BY ComposedIsGood
<1> HIDE DEF memory
<1>5. /\ row \in RunRow /\ row.state = "running" /\ row.created = clock + 1
      /\ row.memory = memory /\ row.retry_of = Nobody
  BY <1>1, <1>3, <1>4 DEF NewRun, RunRow, RunStates
<1>6. runs' = [runs EXCEPT ![r] = row]
  BY <1>1 DEF memory
<1> HIDE DEF row
<1>7. Persistent' /\ clock' \in Nat
  BY <1>1, <1>2, <1>4, <1>5, <1>6, CreatedKeeps
<1>8. Transient'
  <2>1. Transient
    BY Parts
  <2>2. \A q \in Runs : runs[q].state # "none" => runs'[q].state # "none"
    <3>1. runs \in [Runs -> RunRow]
      BY DEF IInv, TypeOK
    <3> QED
      BY <1>2, <1>6, <3>1
  <2> QED
    BY <1>1, <1>7, <2>1, <2>2, AloneKeeps DEF Transient
<1> QED
  BY <1>7, <1>8, PartsNext

LEMMA RetryRunKeeps ==
  ASSUME IInv, NEW q \in Runs, RetryRun(q)
  PROVE  IInv'
<1>1. PICK r \in Unused :
        /\ runs[q].state \in Terminal
        /\ clock' = clock + 1
        /\ runs' = [runs EXCEPT ![r] = [NewRun EXCEPT !.state = "running", !.created = clock',
                                                      !.retry_of = q, !.memory = runs[q].memory,
                                                      !.provider = runs[q].provider]]
        /\ UNCHANGED <<events, traces, lease, worker, unfenced, faults>>
  BY DEF RetryRun
<1>2. r \in Runs /\ runs[r].state = "none"
  BY DEF Unused
<1>3. clock \in Nat /\ clock + 1 \in Nat
  BY <1>2, RowTypes
<1> DEFINE row == [NewRun EXCEPT !.state = "running", !.created = clock', !.retry_of = q,
                                 !.memory = runs[q].memory, !.provider = runs[q].provider]
<1>4. runs[q].memory \in SUBSET Entries /\ GoodMemory(runs[q].memory) /\ runs[q].provider \in {"model", "mock"}
  BY RowTypes
<1>5. /\ row \in RunRow /\ row.state = "running" /\ row.created = clock + 1
      /\ row.memory = runs[q].memory /\ row.retry_of = q
  BY <1>1, <1>3, <1>4 DEF NewRun, RunRow, RunStates
<1>6. runs' = [runs EXCEPT ![r] = row]
  BY <1>1
<1> HIDE DEF row
<1>7. runs[q].state # "none"
  BY <1>1 DEF Terminal
<1>8. Persistent' /\ clock' \in Nat
  BY <1>1, <1>2, <1>4, <1>5, <1>6, <1>7, CreatedKeeps
<1>9. Transient'
  <2>1. Transient
    BY Parts
  <2>2. \A p \in Runs : runs[p].state # "none" => runs'[p].state # "none"
    <3>1. runs \in [Runs -> RunRow]
      BY DEF IInv, TypeOK
    <3> QED
      BY <1>2, <1>6, <3>1
  <2> QED
    BY <1>1, <1>8, <2>1, <2>2, AloneKeeps DEF Transient
<1> QED
  BY <1>8, <1>9, PartsNext

LEMMA TracesStay ==
  ASSUME IInv, NEW r \in Runs, NEW log, GoodLog(r, log), NEW time \in Nat, clock <= time
  PROVE  GoodTraces(traces[r], log, time)
<1>1. events[r] \in Logs /\ Grows(events[r], log) /\ clock \in Nat /\ traces[r] \subseteq Traces
  BY RowTypes DEF GoodLog
<1>2. ASSUME NEW t \in traces[r]
      PROVE  /\ OfLog(t, log) /\ t.closed <= time
             /\ \A u \in traces[r] : u.failed = t.failed => u = t
  <2>1. OfLog(t, events[r]) /\ t.closed <= clock /\ \A u \in traces[r] : u.failed = t.failed => u = t
    BY DEF IInv, TracesFit
  <2>2. OfLog(t, log)
    BY <1>1, <2>1, OfLogGrows
  <2>3. t.closed \in Nat
    BY <1>1 DEF Traces
  <2> QED
    BY <1>1, <2>1, <2>2, <2>3
<1> QED
  BY <1>2 DEF GoodTraces

\* A step that appends to one run's stream and publishes nothing.
LEMMA NoteKeeps ==
  ASSUME IInv, NEW r \in Runs, NEW row \in RunRow, SameRow(runs[r], row), NEW log, GoodLog(r, log),
         runs' = [runs EXCEPT ![r] = row], events' = [events EXCEPT ![r] = log],
         UNCHANGED <<traces, clock>>
  PROVE  Persistent'
<1>1. clock \in Nat /\ clock' = clock /\ traces[r] \in SUBSET Traces
  BY RowTypes
<1>2. Written(r, row, log, traces[r])
  <2>1. traces = [traces EXCEPT ![r] = traces[r]]
    BY Rows DEF IInv
  <2> QED
    BY <2>1 DEF Written
<1>3. GoodTraces(traces[r], log, clock')
  BY <1>1, TracesStay
<1> QED
  BY <1>1, <1>2, <1>3, WrittenKeeps

LEMMA CancelRunKeeps ==
  ASSUME IInv, NEW r \in Runs, CancelRun(r)
  PROVE  IInv'
<1> DEFINE log == Append(events[r], Event("run_cancelled", NoCall))
           row == [runs[r] EXCEPT !.state = "cancelled"]
<1>1. /\ runs[r].state = "running" /\ faults' = faults + 1 /\ faults \in Nat
      /\ runs' = [runs EXCEPT ![r] = row] /\ events' = [events EXCEPT ![r] = log]
      /\ unfenced' = unfenced \cup {r} /\ UNCHANGED <<traces, lease, worker, clock>>
  BY RowTypes DEF CancelRun
<1>2. row \in RunRow /\ SameRow(runs[r], row)
  BY <1>1, RowTypes DEF RunRow, RunStates, Terminal, SameRow
<1>3. GoodLog(r, log)
  BY GoodLogNow, GoodLogNote DEF EventTypes, ToolTypes
<1>4. Persistent'
  BY <1>1, <1>2, <1>3, NoteKeeps
<1>5. Pending(log) = Pending(events[r]) /\ Tried(log) = Tried(events[r])
  <2>1. events[r] \in Logs
    BY RowTypes
  <2>2. /\ Event("run_cancelled", NoCall) \in Events
        /\ Event("run_cancelled", NoCall).type = "run_cancelled"
    BY EventFields DEF EventTypes
  <2> QED
    BY <2>1, <2>2, PendingAppended, TriedAppended DEF ToolTypes, Outcomes
<1>6. Transient'
  <2>1. Transient
    BY Parts
  <2>2. \A q \in Runs : runs[q].state # "none" => runs'[q].state # "none"
    <3>1. runs \in [Runs -> RunRow] /\ row.state # "none"
      BY <1>2 DEF IInv, TypeOK, SameRow
    <3> QED
      BY <1>1, <3>1
  <2>3. \A q \in Runs : Pending(events'[q]) = Pending(events[q]) /\ Tried(events'[q]) = Tried(events[q])
    <3>1. events \in [Runs -> Seq(Events)]
      BY DEF IInv, TypeOK
    <3> QED
      BY <1>1, <1>5, <3>1
  <2> QED
    BY <1>1, <2>1, <2>2, <2>3, AloneKeeps DEF Transient
<1> QED
  BY <1>4, <1>6, PartsNext

LEMMA InvalidateLeaseKeeps ==
  ASSUME IInv, NEW r \in Runs, InvalidateLease(r)
  PROVE  IInv'
<1>1. /\ unfenced' = unfenced \ {r} /\ lease' \in {lease, Nobody}
      /\ UNCHANGED <<runs, events, traces, worker, clock, faults>>
  BY DEF InvalidateLease
<1>2. Persistent'
  BY <1>1, StutterKeeps
<1>3. Transient
  BY Parts
<1>4. Transient'
  BY <1>1, <1>3, AloneKeeps DEF Transient
<1> QED
  BY <1>2, <1>4, PartsNext

LEMMA CrashKeeps ==
  ASSUME IInv, Crash
  PROVE  IInv'
<1>1. /\ worker' = IdleWorker /\ lease' = Nobody /\ faults' = faults + 1
      /\ UNCHANGED <<runs, events, traces, unfenced, clock>>
  BY DEF Crash
<1>2. Persistent' /\ Transient
  BY <1>1, StutterKeeps, Parts
<1>3. Transient'
  BY <1>1, <1>2, IdleKeeps DEF Transient
<1> QED
  BY <1>2, <1>3, PartsNext

\* The step lets its run go.
LEMMA ReleaseKeeps ==
  ASSUME IInv, Release, UNCHANGED <<unfenced, faults>>, clock' \in Nat
  PROVE  Transient'
<1>1. worker' = IdleWorker /\ lease' \in {lease, Nobody}
  BY DEF Release
<1>2. Transient
  BY Parts
<1> QED
  BY <1>1, <1>2, IdleKeeps DEF Transient

LEMMA ClaimKeeps ==
  ASSUME IInv, NEW r \in Runs, Claim(r)
  PROVE  IInv'
<1>1. /\ runs[r].state = "running" /\ lease' = r
      /\ worker' = [IdleWorker EXCEPT !.pc = "claimed", !.run = r]
      /\ UNCHANGED <<runs, events, traces, unfenced, clock, faults>>
  BY DEF Claim
<1>2. Persistent' /\ Transient
  BY <1>1, StutterKeeps, Parts
<1>3. worker' \in WorkerRows /\ worker'.pc = "claimed" /\ worker'.run = r
  BY <1>1 DEF IdleWorker, WorkerRows, EventTypes
<1>4. Transient'
  BY <1>1, <1>2, <1>3 DEF Transient, WorkerFits
<1> QED
  BY <1>2, <1>4, PartsNext

LEMMA RefuseKeeps ==
  ASSUME IInv, Refuse
  PROVE  IInv'
<1>1. Release /\ UNCHANGED <<runs, events, traces, unfenced, clock, faults>>
  BY DEF Refuse
<1>2. Persistent' /\ clock' \in Nat
  BY <1>1, StutterKeeps DEF IInv, TypeOK
<1>3. Transient'
  BY <1>1, <1>2, ReleaseKeeps
<1> QED
  BY <1>2, <1>3, PartsNext

LEMMA CompletionRaisesKeeps ==
  ASSUME IInv, CompletionRaises
  PROVE  IInv'
<1>1. /\ worker' = IdleWorker /\ lease' = Nobody
      /\ UNCHANGED <<runs, events, traces, unfenced, clock, faults>>
  BY DEF CompletionRaises
<1>2. Persistent' /\ Transient
  BY <1>1, StutterKeeps, Parts
<1>3. Transient'
  BY <1>1, <1>2, IdleKeeps DEF Transient
<1> QED
  BY <1>2, <1>3, PartsNext

\* What holds of the run the worker is on.
LEMMA WorkersRun ==
  ASSUME IInv, worker.pc # "idle"
  PROVE  /\ r0 \in Runs /\ runs[r0].state # "none" /\ log0 \in Logs /\ GoodLog(r0, log0)
         /\ worker.pc \in {"started", "observed"} =>
              /\ worker.call \in Calls /\ Tried(log0) = worker.call
              /\ Pending(log0) # NoCall => Applies(worker.call, Pending(log0))
<1>1. Transient
  BY Parts
<1>2. r0 \in Runs
  BY <1>1 DEF Transient, r0
<1> QED
  BY <1>1, <1>2, RowTypes, GoodLogNow DEF Transient, WorkerFits, r0, log0

LEMMA ProviderFailureKeeps ==
  ASSUME IInv, ProviderFailure
  PROVE  IInv'
<1> DEFINE row == [runs[r0] EXCEPT !.iteration = @ + 1, !.failures = @ + 1]
           failed == Append(log0, Event("provider_failed", NoCall))
<1>1. /\ worker.pc = "claimed" /\ Release /\ UNCHANGED <<traces, unfenced, clock, faults>>
      /\ \/ /\ runs' = [runs EXCEPT ![r0] = [row EXCEPT !.state = "failed"]]
            /\ events' = [events EXCEPT ![r0] = Append(failed, Event("run_ended", NoCall))]
         \/ /\ runs' = [runs EXCEPT ![r0] = [row EXCEPT !.provider = "mock"]]
            /\ events' = [events EXCEPT ![r0] = Append(failed, Event("fallback", NoCall))]
         \/ /\ runs' = [runs EXCEPT ![r0] = row]
            /\ events' = [events EXCEPT ![r0] = failed]
  BY DEF ProviderFailure
<1>2. r0 \in Runs /\ runs[r0].state # "none" /\ GoodLog(r0, log0)
  BY <1>1, WorkersRun
<1>3. /\ row \in RunRow /\ [row EXCEPT !.state = "failed"] \in RunRow /\ [row EXCEPT !.provider = "mock"] \in RunRow
      /\ SameRow(runs[r0], row) /\ SameRow(runs[r0], [row EXCEPT !.state = "failed"])
      /\ SameRow(runs[r0], [row EXCEPT !.provider = "mock"])
  <2>1. /\ runs[r0] \in RunRow /\ runs[r0].iteration + 1 \in Nat /\ runs[r0].failures + 1 \in Nat
    BY <1>2, RowTypes
  <2>2. /\ row \in RunRow /\ row.state = runs[r0].state /\ row.memory = runs[r0].memory
        /\ row.retry_of = runs[r0].retry_of /\ row.created = runs[r0].created
    BY <2>1 DEF RunRow
  <2> HIDE DEF row
  <2> QED
    BY <1>2, <2>2 DEF RunRow, RunStates, Terminal, SameRow
<1>4. /\ GoodLog(r0, failed) /\ GoodLog(r0, Append(failed, Event("run_ended", NoCall)))
      /\ GoodLog(r0, Append(failed, Event("fallback", NoCall)))
  <2>1. GoodLog(r0, failed)
    BY <1>2, GoodLogNote DEF EventTypes, ToolTypes
  <2> HIDE DEF failed
  <2> QED
    BY <1>2, <2>1, GoodLogNote DEF EventTypes, ToolTypes
<1>5. Persistent'
  <2> HIDE DEF row, failed
  <2> QED
    BY <1>1, <1>2, <1>3, <1>4, NoteKeeps
<1>6. Transient'
  <2>1. clock' \in Nat
    BY <1>1, <1>2, RowTypes
  <2> QED
    BY <1>1, <2>1, ReleaseKeeps
<1> QED
  BY <1>5, <1>6, PartsNext

\* The greatest of some indices of a stream, when it is not 0.
LEMMA GreatestIndex ==
  ASSUME NEW log \in Logs, NEW S, S \subseteq DOMAIN log
  PROVE  LET k == Max({0} \cup S) IN
         /\ k \in Nat /\ (k > 0 => k \in S)
         /\ \A j \in S : j <= k
<1> DEFINE T == {0} \cup S
<1>1. Len(log) \in Nat /\ DOMAIN log = 1 .. Len(log)
  BY DEF Logs
<1>2. T \subseteq Nat /\ T # {} /\ \A m \in T : m <= Len(log)
  BY <1>1
<1>3. Max(T) \in T /\ \A m \in T : m <= Max(T)
  <2> HIDE DEF T
  <2> QED
    BY <1>1, <1>2, MaxIsGreatest
<1>4. PICK k \in T : k = Max(T)
  BY <1>3
<1>5. \A j \in S : j \in T
  OBVIOUS
<1>6. k = 0 \/ k \in S
  OBVIOUS
<1> HIDE DEF T
<1>7. k \in Nat /\ \A j \in S : j <= k
  BY <1>2, <1>3, <1>4, <1>5
<1>8. k > 0 => k \in S
  BY <1>6
<1> QED
  BY <1>4, <1>7, <1>8 DEF T

\* A trace of a rejection that had none.
LEMMA TraceJoins ==
  ASSUME IInv, NEW r \in Runs, NEW log, GoodLog(r, log), NEW time \in Nat, clock <= time,
         NEW t \in Traces, OfLog(t, log), t.closed <= time, \A u \in traces[r] : u.failed # t.failed
  PROVE  GoodTraces(traces[r] \cup {t}, log, time) /\ traces[r] \cup {t} \in SUBSET Traces
<1>1. GoodTraces(traces[r], log, time) /\ traces[r] \in SUBSET Traces
  BY TracesStay, RowTypes
<1> QED
  BY <1>1 DEF GoodTraces

LEMMA TraceIsTrace ==
  ASSUME IInv, r0 \in Runs, NEW failed \in Nat, NEW outcome \in {"resolved", "failed", "stopped"},
         NEW at \in Nat, NEW start \in Nat
  PROVE  LET t == Trace(failed, outcome, at, start) IN
         /\ t \in Traces /\ t.failed = failed /\ t.outcome = outcome /\ t.at = at /\ t.start = start
         /\ t.provider = runs[r0].provider /\ t.closed = clock + 1
<1>1. runs[r0].provider \in {"model", "mock"} /\ clock + 1 \in Nat
  BY RowTypes
<1> QED
  BY <1>1 DEF Trace, Traces

LEMMA StopKeeps ==
  ASSUME IInv, NEW c \in Calls, Stop(c)
  PROVE  IInv'
<1> DEFINE rejected == Pending(log0)
           S        == {j \in DOMAIN log0 : Untraced(r0, log0, j) /\ log0[j].call = rejected}
           failed   == Max({0} \cup S)
           at       == Len(log0) + 1
           row      == [runs[r0] EXCEPT !.state = "failed", !.iteration = @ + 1]
           log1     == Append(log0, Event("stopped", rejected))
           log2     == Append(log1, Event("run_ended", rejected))
           log      == Append(log2, Event("published", NoCall))
           t        == Trace(failed, "stopped", at, 0)
<1>1. /\ worker.pc = "claimed" /\ Release /\ UNCHANGED <<unfenced, faults>>
      /\ rejected # NoCall /\ failed > 0
      /\ runs' = [runs EXCEPT ![r0] = row]
      /\ events' = [events EXCEPT ![r0] = log]
      /\ traces' = [traces EXCEPT ![r0] = traces[r0] \cup {t}]
      /\ clock' = clock + 1
  <2>1. /\ worker.pc = "claimed" /\ Release /\ UNCHANGED <<unfenced, faults>>
        /\ rejected # NoCall /\ failed > 0 /\ clock' = clock + 1
    BY DEF Stop
  <2>2. runs' = [runs EXCEPT ![r0] = row]
    BY DEF Stop
  <2>3. events' = [events EXCEPT ![r0] = log]
    BY DEF Stop
  <2>4. traces' = [traces EXCEPT ![r0] = traces[r0] \cup {t}]
    BY DEF Stop
  <2> QED
    BY <2>1, <2>2, <2>3, <2>4
<1>2. r0 \in Runs /\ runs[r0].state # "none" /\ log0 \in Logs /\ GoodLog(r0, log0)
  BY <1>1, WorkersRun
<1>3. /\ runs[r0] \in RunRow /\ runs[r0].iteration \in Nat /\ clock \in Nat /\ clock' \in Nat /\ clock <= clock'
      /\ traces \in [Runs -> SUBSET Traces] /\ runs \in [Runs -> RunRow]
  BY <1>1, <1>2, RowTypes DEF IInv, TypeOK
<1>4. row \in RunRow /\ SameRow(runs[r0], row)
  <2>1. runs[r0].iteration + 1 \in Nat
    BY <1>3
  <2>2. row \in RunRow
    BY <1>3, <2>1 DEF RunRow, RunStates, Terminal
  <2>3. /\ row.state = "failed" /\ row.memory = runs[r0].memory
        /\ row.retry_of = runs[r0].retry_of /\ row.created = runs[r0].created
    BY <1>3 DEF RunRow
  <2> QED
    BY <1>2, <2>2, <2>3 DEF SameRow
<1>5. rejected \in Calls
  <2>1. PICK k \in DOMAIN log0 : log0[k].type = "invalid" /\ log0[k].call = rejected
    BY <1>1, <1>2, PendingIsRejected
  <2> QED
    BY <1>2, <2>1 DEF GoodLog, Named, ToolTypes
<1>6. GoodLog(r0, log1) /\ GoodLog(r0, log2) /\ GoodLog(r0, log) /\ Len(log1) = Len(log0) + 1
      /\ log1 \in Logs
  <2>1. GoodLog(r0, log1) /\ log1 \in Logs
    BY <1>2, <1>5, GoodLogNote DEF EventTypes, ToolTypes
  <2>2. Len(log1) = Len(log0) + 1
    BY <1>2, Appending, EventFields, <1>5 DEF EventTypes
  <2> HIDE DEF log1
  <2>3. GoodLog(r0, log2)
    BY <1>2, <1>5, <2>1, GoodLogNote DEF EventTypes, ToolTypes
  <2> HIDE DEF log2
  <2>4. GoodLog(r0, log)
    BY <1>2, <2>3, GoodLogNote DEF EventTypes, ToolTypes
  <2> QED
    BY <2>1, <2>2, <2>3, <2>4
<1>7. failed \in Nat /\ failed \in S
  <2>1. S \subseteq DOMAIN log0
    OBVIOUS
  <2> HIDE DEF S
  <2> QED
    BY <1>1, <1>2, <2>1, GreatestIndex
<1>8. /\ failed \in DOMAIN log0 /\ log0[failed].type = "invalid"
      /\ \A u \in traces[r0] : u.failed # failed
  BY <1>7 DEF Untraced
<1> HIDE DEF failed
<1>9. at \in Nat /\ failed < at /\ DOMAIN log0 = 1 .. Len(log0)
  BY <1>2, <1>7, <1>8 DEF Logs
<1>10. /\ t \in Traces /\ t.failed = failed /\ t.at = at /\ t.closed = clock'
  <2>1. failed \in Nat /\ at \in Nat /\ 0 \in Nat /\ r0 \in Runs /\ clock' = clock + 1
    BY <1>1, <1>2, <1>7, <1>9
  <2> HIDE DEF at
  <2>2. t \in Traces /\ t.failed = failed /\ t.at = at /\ t.closed = clock + 1
    BY <2>1, TraceIsTrace
  <2> QED
    BY <2>1, <2>2
<1>11. OfLog(t, log)
  <2>1. log \in Logs /\ Len(log0) + 3 = Len(log)
    <3>1. log1 \in Logs /\ Event("run_ended", rejected) \in Events /\ Event("published", NoCall) \in Events
      BY <1>5, <1>6, EventFields DEF EventTypes
    <3> HIDE DEF log1
    <3>2. log2 \in Logs /\ Len(log2) = Len(log1) + 1 /\ Len(log1) \in Nat
      BY <3>1, Appending
    <3> HIDE DEF log2
    <3>3. log \in Logs /\ Len(log) = Len(log2) + 1
      BY <3>1, <3>2, Appending
    <3> QED
      BY <1>6, <1>9, <3>2, <3>3 DEF Logs
  <2> HIDE DEF log
  <2>2. DOMAIN log = 1 .. Len(log) /\ Len(log0) \in Nat
    BY <1>2, <2>1 DEF Logs
  <2>3. at \in DOMAIN log
    BY <2>1, <2>2
  <2>4. failed \in DOMAIN log /\ log[failed] = log0[failed]
    BY <1>2, <1>6, <1>8, GrownKeeps DEF GoodLog, log0
  <2> QED
    BY <1>8, <1>9, <1>10, <2>3, <2>4 DEF OfLog
<1> HIDE DEF t, log, at
<1>12. GoodTraces(traces[r0] \cup {t}, log, clock') /\ traces[r0] \cup {t} \in SUBSET Traces
  BY <1>2, <1>3, <1>6, <1>8, <1>10, <1>11, TraceJoins
<1> HIDE DEF row
<1>13. Written(r0, row, log, traces[r0] \cup {t})
  BY <1>1 DEF Written
<1>14. Persistent'
  BY <1>2, <1>3, <1>4, <1>6, <1>12, <1>13, WrittenKeeps
<1>15. Transient'
  BY <1>1, <1>3, ReleaseKeeps
<1> QED
  BY <1>14, <1>15, PartsNext

\* What Decided records, and what the stream says then.
DecidedWell(c, d, log) ==
  /\ d \in Calls /\ d = Decided(c).call /\ log = Decided(c).log
  /\ GoodLog(r0, log)
  /\ Pending(log) = Pending(log0)
  /\ Tried(log) = d
  /\ Pending(log0) # NoCall => d = c

LEMMA DecidedIsGood ==
  ASSUME IInv, worker.pc # "idle", NEW c \in Calls
  PROVE  DecidedWell(c, Decided(c).call, Decided(c).log)
<1> DEFINE E == IF Pending(log0) = NoCall /\ Valid(Corrected(c)) THEN Reuses(r0, c) ELSE {}
           d == IF E = {} THEN c ELSE Corrected(c)
           selected == Append(log0, Event("selected", d))
           entry == CHOOSE e \in E : TRUE
           reused == IF E = {} THEN selected ELSE Append(selected, Receipt(entry))
           log == Append(reused, Event("started", d))
<1>1. Decided(c).call = d /\ Decided(c).log = log
  BY DEF Decided
<1>2. r0 \in Runs /\ log0 \in Logs /\ GoodLog(r0, log0)
  BY WorkersRun
<1>3. d \in Calls /\ (Pending(log0) # NoCall => E = {} /\ d = c) /\ (E # {} => d = Corrected(c))
  BY LearningConstants DEF Corrected
<1>4. \A e \in E : e \in runs[r0].memory /\ e \in Entries /\ e.call = c
  <2>1. runs[r0].memory \in SUBSET Entries
    BY <1>2, RowTypes
  <2> QED
    BY <2>1 DEF Reuses
<1>5. E = {} /\ Pending(log0) = NoCall =>
        \A m \in runs[r0].memory : Valid(Corrected(m.call)) => d # m.call
  BY DEF Reuses
<1>6. E # {} => \A m \in runs[r0].memory : d # m.call
  <2>1. d = Corrected(c) => ~d.extra
    <3>1. c \in Arguments
      BY LearningConstants
    <3> QED
      BY <3>1 DEF Corrected, Arguments
  <2>2. \A m \in runs[r0].memory : m.call.extra
    BY <1>2, RowTypes DEF GoodMemory
  <2> QED
    BY <1>3, <2>1, <2>2
<1>7. E # {} => entry \in E
  OBVIOUS
<1> HIDE DEF E, d, entry
<1>8. /\ Event("selected", d) \in Events /\ Event("selected", d).type = "selected"
      /\ Event("started", d) \in Events /\ Event("started", d).type = "started" /\ Event("started", d).call = d
  BY <1>3, EventFields DEF EventTypes
<1>9. /\ GoodLog(r0, selected) /\ selected \in Logs
      /\ Pending(selected) = Pending(log0)
  <2>1. GoodLog(r0, selected) /\ selected \in Logs
    BY <1>2, <1>3, GoodLogNote DEF EventTypes, ToolTypes
  <2>2. Pending(selected) = Pending(log0)
    BY <1>2, <1>8, PendingAppended DEF Outcomes
  <2> QED
    BY <2>1, <2>2
<1> HIDE DEF selected
<1>10. E # {} => Receipt(entry) \in Events /\ Receipt(entry).type = "reused"
  <2>1. E # {} => entry.call \in Calls /\ entry.sources \in SUBSET TraceIds
    BY <1>4, <1>7 DEF Entries
  <2> QED
    BY <2>1 DEF Receipt, Events, EventTypes
<1>11. /\ GoodLog(r0, reused) /\ reused \in Logs
       /\ Pending(reused) = Pending(log0)
  <2>1. CASE E = {}
    BY <1>9, <2>1
  <2>2. CASE E # {}
    <3> DEFINE e == Receipt(entry)
    <3>1. e \in Events /\ e.type = "reused"
      BY <1>10, <2>2
    <3> HIDE DEF e
    <3>2. Named(e)
      BY <3>1 DEF Named, ToolTypes
    <3>3. GoodLog(r0, Append(selected, e)) /\ Append(selected, e) \in Logs
      BY <1>2, <1>9, <3>1, <3>2, GoodLogAppend
    <3>4. Pending(Append(selected, e)) = Pending(selected)
      BY <1>9, <3>1, PendingAppended DEF Outcomes
    <3> QED
      BY <1>9, <2>2, <3>3, <3>4 DEF e
  <2> QED
    BY <2>1, <2>2
<1> HIDE DEF reused
<1>12. GoodLog(r0, log)
  <2> DEFINE e == Event("started", d)
  <2>1. e \in Events /\ e.type = "started" /\ e.call = d
    BY <1>8
  <2> HIDE DEF e
  <2>2. Named(e)
    BY <1>3, <2>1 DEF Named
  <2>3. Pending(reused) = NoCall => \A m \in runs[r0].memory : Valid(Corrected(m.call)) => e.call # m.call
    BY <1>5, <1>6, <1>11, <2>1
  <2>4. GoodLog(r0, Append(reused, e))
    BY <1>2, <1>11, <2>1, <2>2, <2>3, GoodLogAppend
  <2> QED
    BY <2>4 DEF e
<1>13. Pending(log) = Pending(log0) /\ Tried(log) = d
  BY <1>8, <1>11, PendingAppended, TriedAppended DEF Outcomes, ToolTypes
<1> HIDE DEF log
<1> QED
  BY <1>1, <1>3, <1>12, <1>13 DEF DecidedWell

LEMMA DecideKeeps ==
  ASSUME IInv, NEW c \in Calls, Decide(c)
  PROVE  IInv'
<1> DEFINE d == Decided(c).call
           log == Decided(c).log
<1>1. /\ worker.pc = "claimed"
      /\ Pending(log0) # NoCall => Applies(c, Pending(log0))
      /\ events' = [events EXCEPT ![r0] = log]
      /\ worker' = [worker EXCEPT !.pc = "started", !.call = d]
      /\ UNCHANGED <<runs, traces, lease, unfenced, clock, faults>>
  BY DEF Decide
<1>2. DecidedWell(c, d, log)
  BY <1>1, DecidedIsGood
<1> HIDE DEF d, log
<1>3. /\ d \in Calls /\ GoodLog(r0, log) /\ Pending(log) = Pending(log0) /\ Tried(log) = d
      /\ Pending(log0) # NoCall => d = c
  BY <1>2 DEF DecidedWell
<1>4. r0 \in Runs /\ runs[r0] \in RunRow /\ runs[r0].state # "none" /\ SameRow(runs[r0], runs[r0])
  BY <1>1, WorkersRun, RowTypes DEF SameRow
<1>5. Persistent'
  <2>1. runs' = [runs EXCEPT ![r0] = runs[r0]]
    BY <1>1, <1>4, Rows DEF IInv
  <2> QED
    BY <1>1, <1>3, <1>4, <2>1, NoteKeeps
<1>6. Transient
  BY Parts
<1>7. worker' \in WorkerRows /\ worker'.pc = "started" /\ worker'.call = d /\ worker'.run = r0
  BY <1>1, <1>3, <1>6 DEF Transient, WorkerRows, r0
<1>8. events'[r0] = log
  BY <1>1, <1>4 DEF IInv, TypeOK
<1>9. WorkerFits'
  BY <1>1, <1>3, <1>4, <1>7, <1>8 DEF WorkerFits
<1>10. Transient'
  BY <1>1, <1>3, <1>4, <1>6, <1>7, <1>9 DEF Transient
<1> QED
  BY <1>5, <1>10, PartsNext

\* The run's end, written while a call is under way.
LEMMA EndIsNoted ==
  ASSUME IInv, worker.pc \in {"started", "observed"}
  PROVE  LET log == Append(log0, Event("run_ended", NoCall)) IN
         GoodLog(r0, log) /\ Pending(log) = Pending(log0) /\ Tried(log) = Tried(log0)
<1>1. r0 \in Runs /\ log0 \in Logs /\ GoodLog(r0, log0)
  BY WorkersRun
<1>2. Event("run_ended", NoCall) \in Events /\ Event("run_ended", NoCall).type = "run_ended"
  BY EventFields DEF EventTypes
<1>3. GoodLog(r0, Append(log0, Event("run_ended", NoCall)))
  BY <1>1, GoodLogNote DEF EventTypes, ToolTypes
<1> QED
  BY <1>1, <1>2, <1>3, PendingAppended, TriedAppended DEF Outcomes, ToolTypes

LEMMA UseToolKeeps ==
  ASSUME IInv, UseTool
  PROVE  IInv'
<1>1. /\ worker.pc = "started"
      /\ UNCHANGED <<traces, lease, unfenced, clock, faults>>
      /\ \E type \in Outcomes :
           /\ worker' = [worker EXCEPT !.pc = "observed", !.type = type]
           /\ type = "invalid" => ~Valid(worker.call)
      /\ \/ UNCHANGED <<runs, events>>
         \/ /\ runs' = [runs EXCEPT ![r0].state = "completed"]
            /\ events' = [events EXCEPT ![r0] = Append(@, Event("run_ended", NoCall))]
  BY DEF UseTool, Outcomes
<1>2. PICK type \in Outcomes :
        /\ worker' = [worker EXCEPT !.pc = "observed", !.type = type]
        /\ type = "invalid" => ~Valid(worker.call)
  BY <1>1
<1>3. Transient /\ r0 \in Runs /\ runs[r0].state # "none"
  BY <1>1, Parts, WorkersRun
<1>4. /\ worker' \in WorkerRows /\ worker'.pc = "observed" /\ worker'.call = worker.call
      /\ worker'.run = worker.run /\ worker'.type = type
  BY <1>2, <1>3 DEF Transient, WorkerRows, Outcomes, EventTypes
<1>5. /\ Persistent' /\ runs'[r0].state # "none"
      /\ Pending(events'[r0]) = Pending(log0) /\ Tried(events'[r0]) = Tried(log0)
  <2>1. CASE UNCHANGED <<runs, events>>
    <3>1. Persistent'
      BY <1>1, <2>1, StutterKeeps
    <3> QED
      BY <1>3, <2>1, <3>1 DEF log0
  <2>2. CASE /\ runs' = [runs EXCEPT ![r0].state = "completed"]
             /\ events' = [events EXCEPT ![r0] = Append(@, Event("run_ended", NoCall))]
    <3> DEFINE row == [runs[r0] EXCEPT !.state = "completed"]
               log == Append(log0, Event("run_ended", NoCall))
    <3>1. row \in RunRow /\ SameRow(runs[r0], row)
      BY <1>3, RowTypes DEF RunRow, RunStates, Terminal, SameRow
    <3>2. runs' = [runs EXCEPT ![r0] = row] /\ events' = [events EXCEPT ![r0] = log]
      BY <2>2 DEF log0
    <3>3. GoodLog(r0, log) /\ Pending(log) = Pending(log0) /\ Tried(log) = Tried(log0)
      BY <1>1, EndIsNoted
    <3> HIDE DEF row, log
    <3>4. Persistent'
      BY <1>1, <1>3, <3>1, <3>2, <3>3, NoteKeeps
    <3>5. runs'[r0] = row /\ events'[r0] = log
      BY <1>3, <3>2 DEF IInv, TypeOK
    <3> QED
      BY <3>1, <3>3, <3>4, <3>5 DEF SameRow
  <2> QED
    BY <1>1, <2>1, <2>2
<1>6. WorkerFits'
  <2>1. /\ Tried(log0) = worker.call
        /\ Pending(log0) # NoCall => Applies(worker.call, Pending(log0))
    BY <1>1, WorkersRun
  <2> QED
    BY <1>2, <1>4, <1>5, <2>1 DEF WorkerFits, r0
<1>7. Transient'
  BY <1>1, <1>3, <1>4, <1>6 DEF Transient
<1> QED
  BY <1>5, <1>7, PartsNext

\* The parts of Completion, by name.
Answered      == Append(log0, Event(worker.type, worker.call))
At            == Len(log0) + 1
ClosedFailure == LatestUntraced(r0, Answered, worker.call.action, At)
Correction    == IF ClosedFailure > 0 THEN CorrectionStart(Answered, At) ELSE 0
SpentRow      == [runs[r0] EXCEPT !.iteration = Spent(runs[r0], worker.type), !.failures = 0]
OutOfBudget   == SpentRow.iteration >= MaxIterations /\ SpentRow.state = "running"
EndedRow      == IF OutOfBudget THEN [SpentRow EXCEPT !.state = "failed"] ELSE SpentRow
EndedLog      == IF OutOfBudget THEN Append(Answered, Event("run_ended", NoCall)) ELSE Answered
FinalLog      == IF Correction > 0 THEN Append(EndedLog, Event("published", NoCall)) ELSE EndedLog
ClosingTrace  == Trace(ClosedFailure, IF worker.type = "completed" THEN "resolved" ELSE "failed",
                       At, Correction)

LEMMA CompletionParts ==
  /\ Completion.row = EndedRow
  /\ Completion.log = FinalLog
  /\ Completion.traced = (Correction > 0)
  /\ Completion.delta = (Correction > 0 => HasDelta(Answered[ClosedFailure].call, Answered[Correction].call))
  /\ Completion.trace = ClosingTrace
<1> USE DEF Answered, At, ClosedFailure, Correction, SpentRow, OutOfBudget, EndedRow, EndedLog,
            FinalLog, ClosingTrace
<1>1. Completion.row = EndedRow
  BY DEF Completion
<1>2. Completion.log = FinalLog
  BY DEF Completion
<1>3. Completion.traced = (Correction > 0)
  BY DEF Completion
<1>4. Completion.delta = (Correction > 0 => HasDelta(Answered[ClosedFailure].call, Answered[Correction].call))
  BY DEF Completion
<1>5. Completion.trace = ClosingTrace
  BY DEF Completion
<1> QED
  BY <1>1, <1>2, <1>3, <1>4, <1>5

LEMMA AnsweredIsGood ==
  ASSUME IInv, worker.pc = "observed"
  PROVE  /\ r0 \in Runs /\ log0 \in Logs /\ Len(log0) \in Nat /\ DOMAIN log0 = 1 .. Len(log0)
         /\ worker.type \in Outcomes /\ worker.call \in Calls
         /\ Event(worker.type, worker.call) \in Events
         /\ GoodLog(r0, Answered) /\ Answered \in Logs
         /\ DOMAIN Answered = 1 .. At /\ Len(Answered) = At /\ At \in Nat
         /\ Answered[At] = Event(worker.type, worker.call)
         /\ Answered[At].type = worker.type /\ Answered[At].call = worker.call
         /\ \A i \in DOMAIN log0 : Answered[i] = log0[i]
<1>1. /\ r0 \in Runs /\ log0 \in Logs /\ GoodLog(r0, log0) /\ worker.call \in Calls
      /\ worker.type \in Outcomes /\ (worker.type = "invalid" => ~Valid(worker.call))
  BY WorkersRun DEF IInv, WorkerFits
<1> DEFINE e == Event(worker.type, worker.call)
<1>2. e \in Events /\ e.type = worker.type /\ e.call = worker.call
  BY <1>1, EventFields DEF EventTypes, Outcomes
<1> HIDE DEF e
<1>3. Named(e) /\ e.type # "started"
  BY <1>1, <1>2 DEF Named, Outcomes
<1>4. GoodLog(r0, Append(log0, e)) /\ Append(log0, e) \in Logs
  BY <1>1, <1>2, <1>3, GoodLogAppend
<1>5. /\ Len(log0) \in Nat /\ DOMAIN log0 = 1 .. Len(log0)
      /\ Len(Append(log0, e)) = Len(log0) + 1
      /\ DOMAIN Append(log0, e) = 1 .. Len(log0) + 1
      /\ Append(log0, e)[Len(log0) + 1] = e
      /\ \A i \in 1 .. Len(log0) : Append(log0, e)[i] = log0[i]
  BY <1>1, <1>2, Appending
<1> QED
  BY <1>1, <1>2, <1>4, <1>5 DEF Answered, At, e

\* The failure the outcome closes: a rejection of the action without a trace.
LEMMA ClosedFailureIs ==
  ASSUME IInv, worker.pc = "observed"
  PROVE  /\ ClosedFailure \in Nat
         /\ ClosedFailure > 0 =>
              /\ ClosedFailure \in DOMAIN log0 /\ ClosedFailure < At
              /\ log0[ClosedFailure].type = "invalid"
              /\ log0[ClosedFailure].call.action = worker.call.action
              /\ \A u \in traces[r0] : u.failed # ClosedFailure
         /\ \A j \in DOMAIN log0 :
              Untraced(r0, log0, j) /\ log0[j].call.action = worker.call.action => j <= ClosedFailure
<1>1. /\ log0 \in Logs /\ Len(log0) \in Nat /\ DOMAIN log0 = 1 .. Len(log0) /\ At = Len(log0) + 1
      /\ \A i \in DOMAIN log0 : Answered[i] = log0[i]
  BY AnsweredIsGood DEF At
<1> DEFINE S == {j \in 1 .. (At - 1) : Untraced(r0, Answered, j) /\ Answered[j].call.action = worker.call.action}
           T == {j \in DOMAIN log0 : Untraced(r0, log0, j) /\ log0[j].call.action = worker.call.action}
<1>2. S = T
  <2>1. 1 .. (At - 1) = DOMAIN log0
    BY <1>1
  <2>2. \A j \in DOMAIN log0 : Untraced(r0, Answered, j) <=> Untraced(r0, log0, j)
    BY <1>1 DEF Untraced
  <2> QED
    BY <1>1, <2>1, <2>2
<1>3. ClosedFailure = Max({0} \cup T)
  BY <1>2 DEF ClosedFailure, LatestUntraced
<1> DEFINE k == Max({0} \cup T)
<1>4. k \in Nat /\ (k > 0 => k \in T) /\ \A j \in T : j <= k
  <2>1. T \subseteq DOMAIN log0
    OBVIOUS
  <2> HIDE DEF T
  <2> QED
    BY <1>1, <2>1, GreatestIndex
<1> HIDE DEF k
<1>5. k > 0 => /\ k \in DOMAIN log0 /\ log0[k].type = "invalid"
               /\ log0[k].call.action = worker.call.action
               /\ \A u \in traces[r0] : u.failed # k
  BY <1>4 DEF Untraced
<1>6. k > 0 => k < At
  BY <1>1, <1>5
<1> QED
  BY <1>3, <1>4, <1>5, <1>6 DEF k

\* The start that the outcome answers.
LEMMA CorrectionIs ==
  ASSUME IInv, worker.pc = "observed"
  PROVE  /\ Correction \in Nat
         /\ Correction > 0 =>
              /\ ClosedFailure > 0
              /\ Correction \in DOMAIN log0 /\ log0[Correction].type = "started"
              /\ log0[Correction].call.action = worker.call.action
              /\ Correction = LastBefore(Answered, ToolTypes, At)
<1>1. /\ log0 \in Logs /\ Answered \in Logs /\ At \in Nat /\ Len(log0) \in Nat
      /\ DOMAIN log0 = 1 .. Len(log0) /\ DOMAIN Answered = 1 .. At /\ At = Len(log0) + 1
      /\ Answered[At].call = worker.call
      /\ \A i \in DOMAIN log0 : Answered[i] = log0[i]
  BY AnsweredIsGood DEF At
<1> DEFINE k == LastBefore(Answered, ToolTypes, At)
<1>2. k \in Nat /\ (k # 0 => k \in Indices(Answered, ToolTypes) /\ k < At)
  BY <1>1, LastIsLast
<1>3. k > 0 => k \in DOMAIN log0 /\ Answered[k] = log0[k]
  BY <1>1, <1>2 DEF Indices
<1>4. Correction = IF ClosedFailure > 0 /\ k > 0 /\ Answered[k].type = "started" /\ Answered[k].call.action = worker.call.action
                   THEN k ELSE 0
  BY <1>1 DEF Correction, CorrectionStart
<1> HIDE DEF k
<1> QED
  BY <1>2, <1>3, <1>4 DEF k

LEMMA FinalLogIsGood ==
  ASSUME IInv, worker.pc = "observed"
  PROVE  GoodLog(r0, FinalLog) /\ Grows(Answered, FinalLog) /\ At \in DOMAIN FinalLog
<1>1. r0 \in Runs /\ GoodLog(r0, Answered) /\ Answered \in Logs /\ Len(Answered) = At /\ At \in Nat
      /\ DOMAIN Answered = 1 .. At
      /\ Len(log0) \in Nat
  BY AnsweredIsGood
<1>2. /\ Event("run_ended", NoCall) \in Events /\ Event("published", NoCall) \in Events
  BY EventFields DEF EventTypes
<1>3. Grows(Answered, Answered)
  BY <1>1 DEF Grows
<1>4. GoodLog(r0, EndedLog) /\ Grows(Answered, EndedLog)
  BY <1>1, <1>2, <1>3, GoodLogNote, GrowsOn DEF EventTypes, ToolTypes, EndedLog
<1>5. GoodLog(r0, FinalLog) /\ Grows(Answered, FinalLog)
  BY <1>1, <1>2, <1>4, GoodLogNote, GrowsOn DEF EventTypes, ToolTypes, FinalLog
<1>6. At \in DOMAIN Answered
  BY <1>1 DEF At
<1> QED
  BY <1>1, <1>5, <1>6, GrownKeeps

LEMMA EndedRowIsSame ==
  ASSUME IInv, worker.pc = "observed"
  PROVE  EndedRow \in RunRow /\ SameRow(runs[r0], EndedRow) /\ EndedRow.provider = runs[r0].provider
<1>1. runs[r0] \in RunRow /\ runs[r0].state # "none" /\ runs[r0].iteration + 1 \in Nat
  BY WorkersRun, RowTypes
<1>2. /\ SpentRow \in RunRow /\ SpentRow.state = runs[r0].state /\ SpentRow.memory = runs[r0].memory
      /\ SpentRow.retry_of = runs[r0].retry_of /\ SpentRow.created = runs[r0].created
      /\ SpentRow.provider = runs[r0].provider
  BY <1>1 DEF SpentRow, Spent, RunRow
<1> QED
  BY <1>1, <1>2 DEF EndedRow, SameRow, RunRow, RunStates, Terminal

LEMMA CompleteStepKeeps ==
  ASSUME IInv, CompleteStep
  PROVE  IInv'
<1>1. /\ worker.pc = "observed" /\ Release /\ UNCHANGED <<unfenced, faults>>
      /\ runs' = [runs EXCEPT ![r0] = EndedRow]
      /\ events' = [events EXCEPT ![r0] = FinalLog]
      /\ IF Correction > 0
         THEN traces' = [traces EXCEPT ![r0] = traces[r0] \cup {ClosingTrace}] /\ clock' = clock + 1
         ELSE UNCHANGED <<traces, clock>>
  <2>1. /\ worker.pc = "observed" /\ Release /\ UNCHANGED <<unfenced, faults>>
        /\ runs' = [runs EXCEPT ![r0] = Completion.row]
        /\ events' = [events EXCEPT ![r0] = Completion.log]
    BY DEF CompleteStep
  <2>2. IF Completion.traced
        THEN traces' = [traces EXCEPT ![r0] = traces[r0] \cup {Completion.trace}] /\ clock' = clock + 1
        ELSE UNCHANGED <<traces, clock>>
    BY DEF CompleteStep
  <2> QED
    BY <2>1, <2>2, CompletionParts
<1>2. /\ r0 \in Runs /\ clock \in Nat /\ GoodLog(r0, FinalLog) /\ EndedRow \in RunRow /\ SameRow(runs[r0], EndedRow)
  <2>1. r0 \in Runs
    BY <1>1, AnsweredIsGood
  <2> QED
    BY <1>1, <2>1, FinalLogIsGood, EndedRowIsSame, RowTypes
<1>3. Persistent' /\ clock' \in Nat
  <2>1. CASE Correction > 0
    <3>1. traces' = [traces EXCEPT ![r0] = traces[r0] \cup {ClosingTrace}] /\ clock' = clock + 1
      BY <1>1, <2>1
    <3>2. clock' \in Nat /\ clock <= clock'
      BY <1>2, <3>1
    <3>3. /\ ClosedFailure \in Nat /\ ClosedFailure \in DOMAIN log0 /\ ClosedFailure < At
          /\ log0[ClosedFailure].type = "invalid"
          /\ \A u \in traces[r0] : u.failed # ClosedFailure
          /\ At \in Nat /\ Correction \in Nat
      BY <1>1, <2>1, ClosedFailureIs, CorrectionIs, AnsweredIsGood
    <3> DEFINE outcome == IF worker.type = "completed" THEN "resolved" ELSE "failed"
               t == Trace(ClosedFailure, outcome, At, Correction)
    <3>4. /\ t \in Traces /\ t.failed = ClosedFailure /\ t.at = At /\ t.closed = clock + 1
      <4>1. outcome \in {"resolved", "failed", "stopped"}
        OBVIOUS
      <4> HIDE DEF outcome
      <4>2. r0 \in Runs /\ ClosedFailure \in Nat /\ At \in Nat /\ Correction \in Nat
        BY <1>2, <3>3
      <4> QED
        BY <4>1, <4>2, TraceIsTrace
    <3>5. t = ClosingTrace
      BY DEF ClosingTrace
    <3> HIDE DEF t
    <3>6. OfLog(t, FinalLog)
      <4>1. Grows(log0, FinalLog) /\ log0 \in Logs /\ At \in DOMAIN FinalLog
        BY <1>1, <1>2, FinalLogIsGood, AnsweredIsGood DEF GoodLog, log0
      <4>2. ClosedFailure \in DOMAIN FinalLog /\ FinalLog[ClosedFailure] = log0[ClosedFailure]
        BY <3>3, <4>1, GrownKeeps
      <4> QED
        BY <3>3, <3>4, <4>1, <4>2 DEF OfLog
    <3>7. t.closed <= clock' /\ \A u \in traces[r0] : u.failed # t.failed
      BY <1>2, <3>1, <3>3, <3>4
    <3>8. GoodTraces(traces[r0] \cup {t}, FinalLog, clock') /\ traces[r0] \cup {t} \in SUBSET Traces
      BY <1>2, <3>2, <3>4, <3>6, <3>7, TraceJoins
    <3>9. Written(r0, EndedRow, FinalLog, traces[r0] \cup {t})
      BY <1>1, <3>1, <3>5 DEF Written
    <3> QED
      BY <1>2, <3>2, <3>8, <3>9, WrittenKeeps
  <2>2. CASE ~(Correction > 0)
    <3>1. UNCHANGED <<traces, clock>>
      BY <1>1, <2>2
    <3> QED
      BY <1>1, <1>2, <3>1, NoteKeeps
  <2> QED
    BY <2>1, <2>2
<1>4. Transient'
  BY <1>1, <1>3, ReleaseKeeps
<1> QED
  BY <1>3, <1>4, PartsNext

-----------------------------------------------------------------------------
(* The invariant.                                                          *)

LEMMA InitEstablishes == Init => IInv
<1> SUFFICES ASSUME Init PROVE IInv
  OBVIOUS
<1>1. runs = [r \in Runs |-> NewRun] /\ events = [r \in Runs |-> <<>>] /\ traces = [r \in Runs |-> {}]
  BY DEF Init
<1>2. /\ NewRun \in RunRow /\ NewRun.state = "none" /\ NewRun.memory = {} /\ NewRun.retry_of = Nobody
      /\ NewRun.created = 0
  BY DEF NewRun, RunRow, RunStates
<1>3. <<>> \in Seq(Events) /\ \A memory : NotRepeated(memory, <<>>)
  BY DEF NotRepeated, Indices
<1>4. clock = 0 /\ faults = 0 /\ lease = Nobody /\ worker = IdleWorker /\ unfenced = {}
  BY DEF Init
<1> HIDE DEF Init
<1>5. /\ runs \in [Runs -> RunRow] /\ events \in [Runs -> Seq(Events)]
      /\ traces \in [Runs -> SUBSET Traces]
  BY <1>1, <1>2, <1>3
<1>6. RowsFit
  BY <1>1, <1>2, <1>4 DEF RowsFit
<1>7. CallsNamed /\ TracesFit
  BY <1>1 DEF CallsNamed, TracesFit
<1>8. MemoryFits
  BY <1>1, <1>2 DEF MemoryFits
<1>9. \A r \in Runs : NotRepeated(runs[r].memory, events[r])
  BY <1>1, <1>3
<1>10. Persistent
  BY <1>5, <1>6, <1>7, <1>8, <1>9 DEF Persistent
<1>11. Transient
  BY <1>4, IdleFits DEF Transient, WorkerFits
<1> QED
  BY <1>10, <1>11, Parts

LEMMA NextKeeps == IInv /\ [Next]_vars => IInv'
<1> SUFFICES ASSUME IInv, [Next]_vars PROVE IInv'
  OBVIOUS
<1>1. CASE CreateRun
  BY <1>1, CreateRunKeeps
<1>2. CASE \E r \in Runs : RetryRun(r) \/ CancelRun(r) \/ InvalidateLease(r)
  BY <1>2, RetryRunKeeps, CancelRunKeeps, InvalidateLeaseKeeps
<1>3. CASE WorkerStep
  <2>1. CASE \E r \in Runs : Claim(r)
    BY <2>1, ClaimKeeps
  <2>2. CASE Refuse
    BY <2>2, RefuseKeeps
  <2>3. CASE ProviderFailure
    BY <2>3, ProviderFailureKeeps
  <2>4. CASE \E c \in Calls : Stop(c) \/ Decide(c)
    BY <2>4, StopKeeps, DecideKeeps
  <2>5. CASE UseTool
    BY <2>5, UseToolKeeps
  <2>6. CASE CompleteStep
    BY <2>6, CompleteStepKeeps
  <2>7. CASE CompletionRaises
    BY <2>7, CompletionRaisesKeeps
  <2> QED
    BY <1>3, <2>1, <2>2, <2>3, <2>4, <2>5, <2>6, <2>7 DEF WorkerStep
<1>4. CASE Crash
  BY <1>4, CrashKeeps
<1>5. CASE UNCHANGED vars
  <2>1. UNCHANGED <<runs, events, traces, clock, worker, lease, unfenced, faults>>
    BY <1>5 DEF vars
  <2>2. Persistent' /\ Transient
    BY <2>1, StutterKeeps, Parts
  <2>3. Transient'
    BY <2>1, <2>2, AloneKeeps DEF Transient
  <2> QED
    BY <2>2, <2>3, PartsNext
<1> QED
  BY <1>1, <1>2, <1>3, <1>4, <1>5 DEF Next

\* The inductive invariant: what the decisions of a step read off the event
\* stream is what the worker does.
THEOREM Inductive == Spec => []IInv
<1>1. Init => IInv
  BY InitEstablishes
<1>2. IInv /\ [Next]_vars => IInv'
  BY NextKeeps
<1> QED
  BY <1>1, <1>2, PTL DEF Spec

\* Every row, event and trace is of its type, whatever the agent proposes.
THEOREM TypeCorrect == Spec => []TypeOK
<1>1. IInv => TypeOK
  BY DEF IInv
<1> QED
  BY <1>1, Inductive, PTL

\* No call is started that the pinned memory has the repair of, unless a
\* repair is under way.
THEOREM MemoryIsUsed == Spec => []MistakesNotRepeated
<1>1. IInv => MistakesNotRepeated
  BY DEF IInv, MistakesNotRepeated, NotRepeated, StartsOf
<1> QED
  BY <1>1, Inductive, PTL

-----------------------------------------------------------------------------
(* The repair contract.                                                    *)

Opens  == [r \in Runs |-> Open(r)]
Tries  == [r \in Runs |-> Trying(r)]
Ends   == {r \in Runs : runs[r].state \in Terminal}

\* What a step does to one run, as the contract sees it.
LEMMA Seen ==
  ASSUME TypeOK, NEW r \in Runs, NEW row, NEW log,
         runs' = [runs EXCEPT ![r] = row], events' = [events EXCEPT ![r] = log]
  PROVE  /\ Opens' = [Opens EXCEPT ![r] = Pending(log)]
         /\ Tries' = [Tries EXCEPT ![r] = Tried(log)]
         /\ Ends' = IF row.state \in Terminal THEN Ends \cup {r} ELSE Ends \ {r}
<1>1. /\ runs \in [Runs -> RunRow] /\ events \in [Runs -> Seq(Events)]
  BY DEF TypeOK
<1>2. \A q \in Runs : events'[q] = IF q = r THEN log ELSE events[q]
  BY <1>1
<1>3. \A q \in Runs : runs'[q] = IF q = r THEN row ELSE runs[q]
  BY <1>1
<1>4. Opens' = [Opens EXCEPT ![r] = Pending(log)]
  <2>1. Opens' = [q \in Runs |-> Pending(events'[q])]
    BY DEF Opens, Open
  <2>2. Opens = [q \in Runs |-> Pending(events[q])]
    BY DEF Opens, Open
  <2> QED
    BY <1>2, <2>1, <2>2
<1>5. Tries' = [Tries EXCEPT ![r] = Tried(log)]
  <2>1. Tries' = [q \in Runs |-> Tried(events'[q])]
    BY DEF Tries, Trying, Tried
  <2>2. Tries = [q \in Runs |-> Tried(events[q])]
    BY DEF Tries, Trying, Tried
  <2> QED
    BY <1>2, <2>1, <2>2
<1>6. Ends' = IF row.state \in Terminal THEN Ends \cup {r} ELSE Ends \ {r}
  <2>1. Ends' = {q \in Runs : runs'[q].state \in Terminal}
    BY DEF Ends
  <2> QED
    BY <1>3, <2>1 DEF Ends
<1> QED
  BY <1>4, <1>5, <1>6

LEMMA ContractEnds ==
  ASSUME NEW r \in Runs, Ends' = Ends \cup {r}, UNCHANGED <<Opens, Tries>>
  PROVE  Contract!Next
<1>1. Contract!End(r)
  BY DEF Contract!End, Opens, Tries, Ends
<1> QED
  BY <1>1 DEF Contract!Next

LEMMA ContractStarts ==
  ASSUME NEW r \in Runs, NEW c \in Calls, r \notin Ends, Opens[r] # NoCall => Applies(c, Opens[r]),
         Tries' = [Tries EXCEPT ![r] = c], UNCHANGED <<Opens, Ends>>
  PROVE  Contract!Next
<1>1. Contract!Start(r, c)
  BY DEF Contract!Start, Opens, Tries, Ends
<1> QED
  BY <1>1 DEF Contract!Next

LEMMA ContractAnswers ==
  ASSUME NEW r \in Runs, Tries[r] # NoCall,
         \E c \in {NoCall, Tries[r]} : Opens' = [Opens EXCEPT ![r] = c],
         Tries' = [Tries EXCEPT ![r] = NoCall], Ends' \in {Ends, Ends \cup {r}}
  PROVE  Contract!Next
<1>1. Contract!Answer(r)
  BY DEF Contract!Answer, Opens, Tries, Ends
<1> QED
  BY <1>1 DEF Contract!Next

LEMMA ContractStutters ==
  ASSUME UNCHANGED <<Opens, Tries, Ends>>
  PROVE  UNCHANGED Contract!contract
BY DEF Contract!contract, Opens, Tries, Ends

\* A step that touches neither the open nor the tried call of its run: to the
\* contract the run ends, or nothing happens.
LEMMA QuietStep ==
  ASSUME TypeOK, NEW r \in Runs, NEW row, NEW log,
         runs' = [runs EXCEPT ![r] = row], events' = [events EXCEPT ![r] = log],
         Pending(log) = Pending(events[r]), Tried(log) = Tried(events[r]),
         row.state \in Terminal \/ runs[r].state \notin Terminal
  PROVE  Contract!Next \/ UNCHANGED Contract!contract
<1>1. Opens[r] = Pending(events[r]) /\ Tries[r] = Tried(events[r])
  BY DEF Opens, Tries, Open, Trying, Tried
<1>2. Opens = [Opens EXCEPT ![r] = Opens[r]] /\ Tries = [Tries EXCEPT ![r] = Tries[r]]
  BY DEF Opens, Tries
<1>3. /\ Opens' = [Opens EXCEPT ![r] = Pending(log)]
      /\ Tries' = [Tries EXCEPT ![r] = Tried(log)]
      /\ Ends' = IF row.state \in Terminal THEN Ends \cup {r} ELSE Ends \ {r}
  BY Seen
<1>4. UNCHANGED <<Opens, Tries>>
  BY <1>1, <1>2, <1>3
<1>5. CASE row.state \in Terminal
  BY <1>3, <1>4, <1>5, ContractEnds
<1>6. CASE row.state \notin Terminal
  <2>1. r \notin Ends
    BY <1>6 DEF Ends
  <2>2. Ends' = Ends
    BY <1>3, <1>6, <2>1
  <2> QED
    BY <1>4, <2>2, ContractStutters
<1> QED
  BY <1>5, <1>6

LEMMA UnseenStep ==
  ASSUME UNCHANGED <<runs, events>>
  PROVE  Contract!Next \/ UNCHANGED Contract!contract
<1>1. UNCHANGED <<Opens, Tries, Ends>>
  BY DEF Opens, Tries, Ends, Open, Trying
<1> QED
  BY <1>1, ContractStutters

LEMMA NoteUnseen ==
  ASSUME NEW log \in Logs, NEW type \in EventTypes \ ToolTypes, NEW call \in Calls \cup {NoCall}
  PROVE  LET log2 == Append(log, Event(type, call)) IN
         log2 \in Logs /\ Pending(log2) = Pending(log) /\ Tried(log2) = Tried(log)
<1> DEFINE e == Event(type, call)
<1>1. e \in Events /\ e.type = type
  BY EventFields
<1>2. e.type \notin ToolTypes /\ e.type \notin Outcomes
  BY <1>1 DEF ToolTypes, Outcomes
<1> HIDE DEF e
<1>3. /\ Append(log, e) \in Logs /\ Pending(Append(log, e)) = Pending(log)
      /\ Tried(Append(log, e)) = Tried(log)
  BY <1>1, <1>2, PendingAppended, TriedAppended, Appending
<1> QED
  BY <1>3 DEF e

LEMMA RequestsKeepContract ==
  ASSUME IInv, NEW r \in Runs, CreateRun \/ RetryRun(r) \/ CancelRun(r) \/ InvalidateLease(r)
  PROVE  Contract!Next \/ UNCHANGED Contract!contract
<1>0. TypeOK
  BY DEF IInv
<1>1. CASE CreateRun \/ RetryRun(r)
  <2>1. PICK q \in Unused :
          (\E row : runs' = [runs EXCEPT ![q] = row]) /\ UNCHANGED events
    BY <1>1 DEF CreateRun, RetryRun
  <2>2. PICK row : runs' = [runs EXCEPT ![q] = row]
    BY <2>1
  <2>3. q \in Runs /\ runs[q].state \notin Terminal
    BY DEF Unused, Terminal
  <2>4. events' = [events EXCEPT ![q] = events[q]]
    BY <1>0, <2>1, <2>3, Rows
  <2> QED
    BY <1>0, <2>2, <2>3, <2>4, QuietStep
<1>2. CASE CancelRun(r)
  <2> DEFINE row == [runs[r] EXCEPT !.state = "cancelled"]
             log == Append(events[r], Event("run_cancelled", NoCall))
  <2>1. runs' = [runs EXCEPT ![r] = row] /\ events' = [events EXCEPT ![r] = log]
    BY <1>2 DEF CancelRun
  <2>2. Pending(log) = Pending(events[r]) /\ Tried(log) = Tried(events[r])
    BY NoteUnseen, RowTypes DEF EventTypes, ToolTypes
  <2>3. row.state \in Terminal
    BY RowTypes DEF RunRow, Terminal
  <2> HIDE DEF row, log
  <2> QED
    BY <1>0, <2>1, <2>2, <2>3, QuietStep
<1>3. CASE InvalidateLease(r)
  BY <1>3, UnseenStep DEF InvalidateLease
<1> QED
  BY <1>1, <1>2, <1>3

LEMMA ProviderKeepsContract ==
  ASSUME IInv, ProviderFailure
  PROVE  Contract!Next \/ UNCHANGED Contract!contract
<1> DEFINE row == [runs[r0] EXCEPT !.iteration = @ + 1, !.failures = @ + 1]
           failed == Append(log0, Event("provider_failed", NoCall))
           ended == Append(failed, Event("run_ended", NoCall))
           fallback == Append(failed, Event("fallback", NoCall))
<1>1. /\ worker.pc = "claimed" /\ Writable
      /\ \/ /\ runs' = [runs EXCEPT ![r0] = [row EXCEPT !.state = "failed"]]
            /\ events' = [events EXCEPT ![r0] = ended]
         \/ /\ runs' = [runs EXCEPT ![r0] = [row EXCEPT !.provider = "mock"]]
            /\ events' = [events EXCEPT ![r0] = fallback]
         \/ /\ runs' = [runs EXCEPT ![r0] = row]
            /\ events' = [events EXCEPT ![r0] = failed]
  BY DEF ProviderFailure
<1>2. TypeOK /\ r0 \in Runs /\ log0 \in Logs /\ log0 = events[r0] /\ runs[r0].state \notin Terminal
  BY <1>1, WorkersRun DEF IInv, Writable, Terminal, log0
<1>3. /\ failed \in Logs /\ Pending(failed) = Pending(log0) /\ Tried(failed) = Tried(log0)
  BY <1>2, NoteUnseen DEF EventTypes, ToolTypes
<1>4. /\ Pending(ended) = Pending(log0) /\ Tried(ended) = Tried(log0)
      /\ Pending(fallback) = Pending(log0) /\ Tried(fallback) = Tried(log0)
  <2> HIDE DEF failed
  <2> QED
    BY <1>3, NoteUnseen DEF EventTypes, ToolTypes
<1> HIDE DEF failed, ended, fallback
<1> QED
  BY <1>1, <1>2, <1>3, <1>4, QuietStep

LEMMA StopKeepsContract ==
  ASSUME IInv, NEW c \in Calls, Stop(c)
  PROVE  Contract!Next \/ UNCHANGED Contract!contract
<1> DEFINE rejected == Pending(log0)
           row  == [runs[r0] EXCEPT !.state = "failed", !.iteration = @ + 1]
           log1 == Append(log0, Event("stopped", rejected))
           log2 == Append(log1, Event("run_ended", rejected))
           log  == Append(log2, Event("published", NoCall))
<1>1. worker.pc = "claimed" /\ rejected # NoCall
  BY DEF Stop
<1>2. runs' = [runs EXCEPT ![r0] = row]
  BY DEF Stop
<1>3. events' = [events EXCEPT ![r0] = log]
  BY DEF Stop
<1>4. TypeOK /\ r0 \in Runs /\ log0 \in Logs /\ GoodLog(r0, log0) /\ log0 = events[r0]
  BY <1>1, WorkersRun DEF IInv, log0
<1>5. rejected \in Calls
  <2>1. PICK k \in DOMAIN log0 : log0[k].type = "invalid" /\ log0[k].call = rejected
    BY <1>1, <1>4, PendingIsRejected
  <2> QED
    BY <1>4, <2>1 DEF GoodLog, Named, ToolTypes
<1>6. Pending(log) = Pending(log0) /\ Tried(log) = Tried(log0)
  <2> DEFINE call == rejected
  <2>0. call \in Calls
    BY <1>5
  <2>1. log1 \in Logs /\ Pending(log1) = Pending(log0) /\ Tried(log1) = Tried(log0)
    BY <1>4, <1>5, NoteUnseen DEF EventTypes, ToolTypes
  <2> HIDE DEF log1
  <2>2. log2 \in Logs /\ Pending(log2) = Pending(log1) /\ Tried(log2) = Tried(log1)
    BY <1>5, <2>1, NoteUnseen DEF EventTypes, ToolTypes
  <2> HIDE DEF log2
  <2>3. Pending(log) = Pending(log2) /\ Tried(log) = Tried(log2)
    BY <2>2, NoteUnseen DEF EventTypes, ToolTypes
  <2> QED
    BY <2>1, <2>2, <2>3
<1>7. row.state \in Terminal
  <2>1. runs[r0] \in RunRow
    BY <1>4, RowTypes
  <2> QED
    BY <2>1 DEF RunRow, Terminal
<1> HIDE DEF row, log
<1> QED
  BY <1>2, <1>3, <1>4, <1>6, <1>7, QuietStep

LEMMA DecideKeepsContract ==
  ASSUME IInv, NEW c \in Calls, Decide(c)
  PROVE  Contract!Next \/ UNCHANGED Contract!contract
<1> DEFINE d == Decided(c).call
           log == Decided(c).log
<1>1. /\ worker.pc = "claimed" /\ runs[r0].state = "running"
      /\ Pending(log0) # NoCall => Applies(c, Pending(log0))
      /\ events' = [events EXCEPT ![r0] = log] /\ UNCHANGED runs
  BY DEF Decide, Writable
<1>2. DecidedWell(c, d, log)
  BY <1>1, DecidedIsGood
<1> HIDE DEF d, log
<1>3. /\ d \in Calls /\ Pending(log) = Pending(log0) /\ Tried(log) = d
      /\ Pending(log0) # NoCall => d = c
  BY <1>2 DEF DecidedWell
<1>4. TypeOK /\ r0 \in Runs /\ log0 = events[r0]
  BY <1>1, WorkersRun DEF IInv, log0
<1>5. Opens[r0] = Pending(log0)
  BY <1>4 DEF Opens, Open
<1>6. runs' = [runs EXCEPT ![r0] = runs[r0]]
  BY <1>1, <1>4, Rows
<1>7. /\ Opens' = [Opens EXCEPT ![r0] = Pending(log)]
      /\ Tries' = [Tries EXCEPT ![r0] = Tried(log)]
      /\ Ends' = IF runs[r0].state \in Terminal THEN Ends \cup {r0} ELSE Ends \ {r0}
  BY <1>1, <1>4, <1>6, Seen
<1>8. r0 \notin Ends /\ Ends' = Ends
  BY <1>1, <1>7 DEF Ends, Terminal
<1>9. Opens' = Opens
  BY <1>3, <1>4, <1>5, <1>7 DEF Opens
<1> QED
  BY <1>1, <1>3, <1>4, <1>5, <1>7, <1>8, <1>9, ContractStarts

LEMMA UseToolKeepsContract ==
  ASSUME IInv, UseTool
  PROVE  Contract!Next \/ UNCHANGED Contract!contract
<1>1. CASE UNCHANGED <<runs, events>>
  BY <1>1, UnseenStep
<1>2. CASE ~UNCHANGED <<runs, events>>
  <2> DEFINE row == [runs[r0] EXCEPT !.state = "completed"]
             log == Append(log0, Event("run_ended", NoCall))
  <2>1. worker.pc = "started" /\ runs' = [runs EXCEPT ![r0] = row] /\ events' = [events EXCEPT ![r0] = log]
    BY <1>2 DEF UseTool, log0
  <2>2. TypeOK /\ r0 \in Runs /\ log0 = events[r0] /\ runs[r0] \in RunRow
    BY <2>1, WorkersRun, RowTypes DEF IInv, log0
  <2>3. Pending(log) = Pending(log0) /\ Tried(log) = Tried(log0)
    BY <2>1, EndIsNoted
  <2>4. row.state \in Terminal
    BY <2>2 DEF RunRow, Terminal
  <2> HIDE DEF row, log
  <2> QED
    BY <2>1, <2>2, <2>3, <2>4, QuietStep
<1> QED
  BY <1>1, <1>2

LEMMA CompleteStepKeepsContract ==
  ASSUME IInv, CompleteStep
  PROVE  Contract!Next \/ UNCHANGED Contract!contract
<1>1. /\ worker.pc = "observed"
      /\ runs' = [runs EXCEPT ![r0] = EndedRow]
      /\ events' = [events EXCEPT ![r0] = FinalLog]
  <2>1. /\ worker.pc = "observed"
        /\ runs' = [runs EXCEPT ![r0] = Completion.row]
        /\ events' = [events EXCEPT ![r0] = Completion.log]
    BY DEF CompleteStep
  <2> QED
    BY <2>1, CompletionParts
<1>2. /\ TypeOK /\ r0 \in Runs /\ log0 = events[r0] /\ log0 \in Logs /\ worker.type \in Outcomes
      /\ Event(worker.type, worker.call) \in Events /\ Answered \in Logs
      /\ worker.call \in Calls /\ Tried(log0) = worker.call /\ worker.call # NoCall
  BY <1>1, WorkersRun, AnsweredIsGood, LearningConstants DEF IInv, log0
<1>3. /\ Pending(Answered) = IF worker.type = "invalid" THEN worker.call ELSE NoCall
      /\ Tried(Answered) = NoCall
  <2> DEFINE e == Event(worker.type, worker.call)
  <2>1. e \in Events /\ e.type = worker.type /\ e.call = worker.call
    BY <1>2 DEF Event
  <2>2. Answered = Append(log0, e)
    BY DEF Answered
  <2> HIDE DEF e
  <2>3. e.type \in Outcomes /\ e.type \in ToolTypes /\ e.type # "started"
    BY <1>2, <2>1 DEF Outcomes, ToolTypes
  <2> QED
    BY <1>2, <2>1, <2>2, <2>3, PendingAppended, TriedAppended
<1>4. EndedLog \in Logs /\ Pending(EndedLog) = Pending(Answered) /\ Tried(EndedLog) = Tried(Answered)
  BY <1>2, NoteUnseen DEF EventTypes, ToolTypes, EndedLog
<1>5. Pending(FinalLog) = Pending(Answered) /\ Tried(FinalLog) = Tried(Answered)
  BY <1>4, NoteUnseen DEF EventTypes, ToolTypes, FinalLog
<1>6. /\ Opens' = [Opens EXCEPT ![r0] = Pending(FinalLog)]
      /\ Tries' = [Tries EXCEPT ![r0] = Tried(FinalLog)]
      /\ Ends' = IF EndedRow.state \in Terminal THEN Ends \cup {r0} ELSE Ends \ {r0}
  BY <1>1, <1>2, Seen
<1>7. Tries[r0] = worker.call
  BY <1>2 DEF Tries, Trying, Tried
<1>8. Ends' \in {Ends, Ends \cup {r0}}
  <2>1. runs[r0].state \in Terminal => EndedRow.state \in Terminal
    <3>1. runs[r0] \in RunRow
      BY <1>2, RowTypes
    <3>2. SpentRow.state = runs[r0].state
      BY <3>1 DEF SpentRow, RunRow
    <3> QED
      BY <3>2 DEF EndedRow, OutOfBudget, Terminal
  <2>2. runs[r0].state \notin Terminal => r0 \notin Ends
    BY DEF Ends
  <2> QED
    BY <1>6, <2>1, <2>2
<1> QED
  BY <1>2, <1>3, <1>5, <1>6, <1>7, <1>8, ContractAnswers

LEMMA NextKeepsContract == IInv /\ [Next]_vars => [Contract!Next]_(Contract!contract)
<1> SUFFICES ASSUME IInv, [Next]_vars PROVE Contract!Next \/ UNCHANGED Contract!contract
  OBVIOUS
<1>1. CASE CreateRun \/ \E r \in Runs : RetryRun(r) \/ CancelRun(r) \/ InvalidateLease(r)
  <2>1. CASE CreateRun
    <3>1. PICK r \in Runs : TRUE
      BY <2>1 DEF CreateRun, Unused
    <3> QED
      BY <2>1, <3>1, RequestsKeepContract
  <2> QED
    BY <1>1, <2>1, RequestsKeepContract
<1>2. CASE WorkerStep
  <2>1. CASE (\E r \in Runs : Claim(r)) \/ Refuse \/ CompletionRaises
    BY <2>1, UnseenStep DEF Claim, Refuse, CompletionRaises
  <2>2. CASE ProviderFailure
    BY <2>2, ProviderKeepsContract
  <2>3. CASE \E c \in Calls : Stop(c) \/ Decide(c)
    BY <2>3, StopKeepsContract, DecideKeepsContract
  <2>4. CASE UseTool
    BY <2>4, UseToolKeepsContract
  <2>5. CASE CompleteStep
    BY <2>5, CompleteStepKeepsContract
  <2> QED
    BY <1>2, <2>1, <2>2, <2>3, <2>4, <2>5 DEF WorkerStep
<1>3. CASE Crash
  BY <1>3, UnseenStep DEF Crash
<1>4. CASE UNCHANGED vars
  BY <1>4, UnseenStep DEF vars
<1> QED
  BY <1>1, <1>2, <1>3, <1>4 DEF Next

\* The agent contract's retry policy, modify_arguments_or_stop: while a
\* rejected call is open a run only starts repairs of it, or ends.
THEOREM RepairsAreMade == Spec => ModifyOrStop
<1>1. Init => Contract!Init
  <2> SUFFICES ASSUME Init PROVE Contract!Init
    OBVIOUS
  <2>1. \A r \in Runs : events[r] = <<>> /\ runs[r].state = "none"
    BY DEF Init, NewRun
  <2>2. \A types : LastBefore(<<>>, types, 1) = 0
    <3>1. Max({0}) = 0
      BY MaxIsUnique
    <3> QED
      BY <3>1 DEF LastBefore, Indices
  <2>3. \A r \in Runs : Open(r) = NoCall /\ Trying(r) = NoCall
    BY <2>1, <2>2 DEF Open, Pending, Trying
  <2> QED
    BY <2>1, <2>3 DEF Contract!Init, Terminal
<1>2. IInv /\ [Next]_vars => [Contract!Next]_(Contract!contract)
  BY NextKeepsContract
<1> QED
  BY <1>1, <1>2, Inductive, PTL DEF Spec, ModifyOrStop, Contract!Spec

-----------------------------------------------------------------------------
(* Streams stay in order.                                                  *)

LEMMA GrownPrefix ==
  ASSUME NEW log \in Logs, NEW log2, Grows(log, log2)
  PROVE  /\ log2 \in Logs
         /\ DOMAIN log = 1 .. Len(log) /\ DOMAIN log2 = 1 .. Len(log2)
         /\ Len(log) \in Nat /\ Len(log2) \in Nat /\ Len(log) <= Len(log2)
         /\ \A i \in DOMAIN log : i \in Nat /\ i >= 1 /\ i \in DOMAIN log2 /\ log2[i] = log[i]
         /\ \A i \in DOMAIN log : i > 1 => i - 1 \in DOMAIN log /\ log2[i - 1] = log[i - 1]
BY DEF Grows, Logs

LEMMA FollowsGrows ==
  ASSUME NEW log \in Logs, NEW log2, Grows(log, log2), NEW i \in DOMAIN log
  PROVE  FollowsStart(log2, i) <=> FollowsStart(log, i)
BY GrownPrefix DEF FollowsStart

LEMMA CancelledGrows ==
  ASSUME NEW log \in Logs, NEW log2, Grows(log, log2), CancelledMidway(log)
  PROVE  CancelledMidway(log2)
<1>1. PICK i \in Indices(log, {"run_cancelled"}) : i > 1 /\ log[i - 1].type = "started"
  BY DEF CancelledMidway
<1>2. i \in DOMAIN log /\ log[i].type = "run_cancelled"
  BY DEF Indices
<1>3. i \in DOMAIN log2 /\ log2[i] = log[i] /\ log2[i - 1] = log[i - 1]
  BY <1>1, <1>2, GrownPrefix
<1> QED
  BY <1>1, <1>2, <1>3 DEF CancelledMidway, Indices

LEMMA MatchesGrows ==
  ASSUME NEW log \in Logs, NEW log2, Grows(log, log2), NEW t, Matches(t, log)
  PROVE  Matches(t, log2)
<1>1. OfLog(t, log) /\ t.failed \in DOMAIN log /\ t.at \in DOMAIN log
  BY DEF Matches, OfLog
<1>2. OfLog(t, log2)
  BY <1>1, OfLogGrows
<1>3. \A i \in DOMAIN log : i \in DOMAIN log2 /\ log2[i] = log[i]
  BY GrownPrefix
<1>4. FollowsStart(log2, t.failed)
  BY <1>1, FollowsGrows DEF Matches
<1>5. \E j \in Indices(log2, {"published"}) : j > t.at
  <2>1. PICK j \in Indices(log, {"published"}) : j > t.at
    BY DEF Matches
  <2>2. j \in Indices(log2, {"published"})
    BY <1>3 DEF Indices
  <2> QED
    BY <2>1, <2>2
<1>6. log2[t.at] = log[t.at] /\ log2[t.failed] = log[t.failed]
  BY <1>1, <1>3
<1>7. CASE t.outcome = "stopped"
  <2>1. log2[t.at].type = "stopped" /\ log2[t.at].call = log2[t.failed].call
    BY <1>6, <1>7 DEF Matches
  <2> QED
    BY <1>2, <1>4, <1>5, <1>7, <2>1 DEF Matches
<1>8. CASE t.outcome # "stopped"
  <2>1. /\ log[t.at].type \in Outcomes
        /\ {j \in Indices(log, Outcomes) : t.failed < j /\ j < t.at} = {}
        /\ t.start \in DOMAIN log
        /\ log[t.start].type = "started" /\ t.start = LastBefore(log, ToolTypes, t.at)
        /\ log[t.start].call.action = log[t.failed].call.action
        /\ HasDelta(log[t.failed].call, log[t.start].call)
        /\ (t.outcome = "resolved") <=> (log[t.at].type = "completed")
    BY <1>8 DEF Matches
  <2>2. t.start \in DOMAIN log2 /\ log2[t.start] = log[t.start]
    BY <1>3, <2>1
  <2>3. t.start = LastBefore(log2, ToolTypes, t.at)
    BY <1>1, <2>1, GrownKeeps
  <2>4. {j \in Indices(log2, Outcomes) : t.failed < j /\ j < t.at} = {}
    <3>1. SUFFICES ASSUME NEW j \in Indices(log2, Outcomes), t.failed < j, j < t.at PROVE FALSE
      OBVIOUS
    <3>2. j \in DOMAIN log
      BY <1>1, <3>1, GrownPrefix DEF Indices
    <3>3. j \in Indices(log, Outcomes)
      BY <1>3, <3>1, <3>2 DEF Indices
    <3> QED
      BY <2>1, <3>1, <3>3
  <2> QED
    BY <1>2, <1>4, <1>5, <1>6, <1>8, <2>1, <2>2, <2>3, <2>4 DEF Matches
<1> QED
  BY <1>7, <1>8

\* An event that is neither an outcome nor a stop disturbs nothing.
LEMMA OrderedNote ==
  ASSUME NEW log \in Logs, NEW T, NEW e \in Events, e.type \notin Outcomes \cup {"stopped"},
         Ordered(log, T)
  PROVE  Ordered(Append(log, e), T)
<1> DEFINE log2 == Append(log, e)
<1>1. Grows(log, log2)
  BY AppendGrows
<1>2. /\ Len(log) \in Nat /\ DOMAIN log = 1 .. Len(log) /\ DOMAIN log2 = 1 .. Len(log) + 1
      /\ log2[Len(log) + 1] = e /\ \A i \in DOMAIN log : log2[i] = log[i]
  BY Appending
<1> HIDE DEF log2
<1>3. \A i \in DOMAIN log2 : log2[i].type \in Outcomes \cup {"stopped"} => i \in DOMAIN log
  BY <1>2
<1>4. ASSUME NEW i \in Indices(log2, {"invalid"})
      PROVE  i \in Indices(log, {"invalid"})
  <2>1. i \in DOMAIN log2 /\ log2[i].type \in Outcomes
    BY DEF Indices, Outcomes
  <2>2. i \in DOMAIN log /\ log2[i] = log[i]
    BY <1>2, <1>3, <2>1
  <2> QED
    BY <2>2 DEF Indices
<1>5. \A i \in Indices(log2, {"invalid"}) : FollowsStart(log2, i)
  BY <1>1, <1>4, FollowsGrows DEF Ordered, Indices
<1>6. ASSUME NEW i \in Indices(log2, {"invalid"}), NEW j \in DOMAIN log2,
             j > i, log2[j].type \in Outcomes \cup {"stopped"}
      PROVE  HasTrace(T, i)
  <2>1. j \in DOMAIN log /\ log2[j] = log[j]
    BY <1>2, <1>3, <1>6
  <2> QED
    BY <1>4, <1>6, <2>1 DEF Ordered, ClosedBy
<1>7. ClosedBy(log2, T)
  BY <1>6 DEF ClosedBy
<1> QED
  BY <1>5, <1>7 DEF Ordered, log2

LEMMA InOrderNote ==
  ASSUME NEW log \in Logs, NEW T, NEW e \in Events, e.type \notin Outcomes \cup {"stopped"},
         InOrder(log, T)
  PROVE  InOrder(Append(log, e), T)
BY OrderedNote, AppendGrows, MatchesGrows DEF InOrder

\* An outcome or a stop: every rejection before it has its trace by now.
LEMMA OrderedOutcome ==
  ASSUME NEW log \in Logs, NEW T, NEW T2, NEW e \in Events, Ordered(log, T),
         e.type = "invalid" => EndsStarted(log, e.call),
         \A i \in Indices(log, {"invalid"}) : HasTrace(T2, i)
  PROVE  Ordered(Append(log, e), T2)
<1> DEFINE log2 == Append(log, e)
<1>1. Grows(log, log2)
  BY AppendGrows
<1>2. /\ Len(log) \in Nat /\ DOMAIN log = 1 .. Len(log) /\ DOMAIN log2 = 1 .. Len(log) + 1
      /\ log2[Len(log) + 1] = e /\ \A i \in DOMAIN log : log2[i] = log[i]
  BY Appending
<1> HIDE DEF log2
<1>3. ASSUME NEW i \in Indices(log2, {"invalid"})
      PROVE  i \in Indices(log, {"invalid"}) \/ (i = Len(log) + 1 /\ e.type = "invalid")
  <2>1. i \in DOMAIN log2 /\ log2[i].type = "invalid"
    BY DEF Indices
  <2>2. CASE i = Len(log) + 1
    BY <1>2, <2>1, <2>2
  <2>3. CASE i # Len(log) + 1
    <3>1. i \in DOMAIN log /\ log2[i] = log[i]
      BY <1>2, <2>1, <2>3
    <3> QED
      BY <2>1, <3>1 DEF Indices
  <2> QED
    BY <2>2, <2>3
<1>4. ASSUME NEW i \in Indices(log2, {"invalid"})
      PROVE  FollowsStart(log2, i)
  <2>1. CASE i \in Indices(log, {"invalid"})
    BY <1>1, <2>1, FollowsGrows DEF Ordered, Indices
  <2>2. CASE i = Len(log) + 1 /\ e.type = "invalid"
    <3>1. Len(log) > 0 /\ log[Len(log)].type = "started" /\ log[Len(log)].call = e.call
      BY <2>2 DEF EndsStarted
    <3>2. Len(log) \in DOMAIN log /\ i - 1 = Len(log) /\ i > 1
      BY <1>2, <2>2, <3>1
    <3> QED
      BY <1>2, <2>2, <3>1, <3>2 DEF FollowsStart
  <2> QED
    BY <1>3, <2>1, <2>2
<1>5. ASSUME NEW i \in Indices(log2, {"invalid"}), NEW j \in DOMAIN log2, j > i
      PROVE  HasTrace(T2, i)
  <2>1. i \in Indices(log, {"invalid"})
    BY <1>2, <1>3, <1>5
  <2> QED
    BY <2>1
<1>6. ClosedBy(log2, T2)
  BY <1>5 DEF ClosedBy
<1> QED
  BY <1>4, <1>6 DEF Ordered, log2

LEMMA LogKeptNote ==
  ASSUME NEW log \in Logs, NEW T, NEW type \in EventTypes \ (Outcomes \cup {"stopped"}),
         NEW call \in Calls \cup {NoCall}, LogKept(log, T)
  PROVE  LogKept(Append(log, Event(type, call)), T)
<1> DEFINE e == Event(type, call)
<1>1. e \in Events /\ e.type = type
  BY EventFields
<1> HIDE DEF e
<1>2. Grows(log, Append(log, e))
  BY <1>1, AppendGrows
<1>3. LogKept(Append(log, e), T)
  BY <1>1, <1>2, CancelledGrows, InOrderNote DEF LogKept
<1> QED
  BY <1>3 DEF e

LEMMA ReceiptsNote ==
  ASSUME NEW log \in Logs, NEW memory, NEW e \in Events, e.type # "reused",
         ReceiptsKept(log, memory)
  PROVE  ReceiptsKept(Append(log, e), memory)
<1> DEFINE log2 == Append(log, e)
<1>1. /\ Len(log) \in Nat /\ DOMAIN log = 1 .. Len(log) /\ DOMAIN log2 = 1 .. Len(log) + 1
      /\ Len(log2) = Len(log) + 1
      /\ log2[Len(log) + 1] = e /\ \A i \in DOMAIN log : log2[i] = log[i]
  BY Appending
<1> HIDE DEF log2
<1>2. ASSUME NEW i \in Indices(log2, {"reused"})
      PROVE  /\ i > 1 /\ i < Len(log2)
             /\ log2[i - 1].type = "selected" /\ log2[i + 1].type = "started"
             /\ log2[i - 1].call = log2[i + 1].call /\ log2[i + 1].call = Corrected(log2[i].call)
             /\ \E m \in memory : m.call = log2[i].call /\ m.sources = log2[i].sources
  <2>1. i \in DOMAIN log /\ log2[i] = log[i] /\ i \in Indices(log, {"reused"})
    BY <1>1 DEF Indices
  <2>2. /\ i > 1 /\ i < Len(log)
        /\ log[i - 1].type = "selected" /\ log[i + 1].type = "started"
        /\ log[i - 1].call = log[i + 1].call /\ log[i + 1].call = Corrected(log[i].call)
        /\ \E m \in memory : m.call = log[i].call /\ m.sources = log[i].sources
    BY <2>1 DEF ReceiptsKept
  <2>3. i - 1 \in DOMAIN log /\ i + 1 \in DOMAIN log
    BY <1>1, <2>1, <2>2
  <2>4. log2[i - 1] = log[i - 1] /\ log2[i + 1] = log[i + 1] /\ i < Len(log2)
    BY <1>1, <2>1, <2>2, <2>3
  <2> QED
    BY <2>1, <2>2, <2>4
<1> QED
  BY <1>2 DEF ReceiptsKept, log2

\* At most one rejection has no trace: the last outcome.
LEMMA UntracedIsLast ==
  ASSUME NEW log \in Logs, NEW T, InOrder(log, T),
         NEW i \in Indices(log, {"invalid"}), ~HasTrace(T, i)
  PROVE  \A j \in Indices(log, Outcomes \cup {"stopped"}) : j <= i
<1>1. DOMAIN log = 1 .. Len(log) /\ Len(log) \in Nat
  BY DEF Logs
<1> SUFFICES ASSUME NEW j \in Indices(log, Outcomes \cup {"stopped"}), ~(j <= i)
             PROVE  FALSE
  OBVIOUS
<1>2. j \in DOMAIN log /\ log[j].type \in Outcomes \cup {"stopped"} /\ i \in DOMAIN log
  BY DEF Indices
<1>3. j > i
  BY <1>1, <1>2
<1> QED
  BY <1>2, <1>3 DEF InOrder, Ordered, ClosedBy

-----------------------------------------------------------------------------
(* Composed memory does not change.                                        *)

\* ComposeMemory, of the calls learned from and the traces that teach each.
FromLearned(calls, L) ==
  LET When(c) == Max({p[2].closed : p \in L[c]})
      kept == {c \in calls : Cardinality({d \in calls : When(d) > When(c)}) < MaxEntries}
  IN {[call |-> c, sources |-> {<<p[1], p[2].failed>> : p \in Latest(L[c], MaxSources)}] : c \in kept}

TaughtCalls(S)  == {events[p[1]][p[2].failed].call : p \in S}
TaughtTraces(S) == [c \in TaughtCalls(S) |-> Learned(S, c)]

ComposedAsLearned ==
  \A r, created :
    ComposeMemory(r, created) =
      FromLearned(TaughtCalls(Teachable(r, created)), TaughtTraces(Teachable(r, created)))

LEMMA ComposeIsFromLearned == ComposedAsLearned
<1> SUFFICES ASSUME NEW r, NEW created
             PROVE  ComposeMemory(r, created) =
                      FromLearned(TaughtCalls(Teachable(r, created)), TaughtTraces(Teachable(r, created)))
  BY DEF ComposedAsLearned
<1> DEFINE S == Teachable(r, created)
           calls == TaughtCalls(S)
           L == TaughtTraces(S)
           When1(c) == Max({p[2].closed : p \in Learned(S, c)})
           When2(c) == Max({p[2].closed : p \in L[c]})
           kept1 == {c \in calls : Cardinality({d \in calls : When1(d) > When1(c)}) < MaxEntries}
           kept2 == {c \in calls : Cardinality({d \in calls : When2(d) > When2(c)}) < MaxEntries}
           entry1(c) == [call |-> c, sources |-> {<<p[1], p[2].failed>> : p \in Latest(Learned(S, c), MaxSources)}]
           entry2(c) == [call |-> c, sources |-> {<<p[1], p[2].failed>> : p \in Latest(L[c], MaxSources)}]
<1>1. ComposeMemory(r, created) = {entry1(c) : c \in kept1}
  BY DEF ComposeMemory, TaughtCalls
<1>2. FromLearned(calls, L) = {entry2(c) : c \in kept2}
  BY DEF FromLearned
<1>3. \A c \in calls : L[c] = Learned(S, c)
  BY DEF TaughtTraces
<1> HIDE DEF L, calls, S
<1>4. \A c \in calls : When1(c) = When2(c) /\ entry1(c) = entry2(c)
  BY <1>3
<1> HIDE DEF When1, When2, entry1, entry2
<1>5. kept1 = kept2
  <2>1. \A c \in calls : {d \in calls : When1(d) > When1(c)} = {d \in calls : When2(d) > When2(c)}
    BY <1>4
  <2> QED
    BY <2>1
<1>6. \A c \in kept1 : c \in calls
  OBVIOUS
<1> HIDE DEF kept1, kept2
<1>7. {entry1(c) : c \in kept1} = {entry2(c) : c \in kept2}
  BY <1>4, <1>5, <1>6
<1> QED
  BY <1>1, <1>2, <1>7 DEF L, calls, S

\* Streams only grow, and what is published is later than every run.
Later ==
  /\ \A q \in Runs :
       /\ Grows(events[q], events'[q])
       /\ traces[q] \subseteq traces'[q]
       /\ \A t \in traces'[q] : t \in traces[q] \/ t.closed > clock

LEMMA TeachableStays ==
  ASSUME IInv, Later, traces' \in [Runs -> SUBSET Traces], NEW r, NEW created \in Nat, created <= clock
  PROVE  /\ Teachable(r, created)' = Teachable(r, created)
         /\ \A p \in Teachable(r, created) :
              events'[p[1]][p[2].failed].call = events[p[1]][p[2].failed].call
<1> DEFINE All  == UNION {{q} \X traces[q] : q \in Runs}
           All2 == UNION {{q} \X traces'[q] : q \in Runs}
<1>0. clock \in Nat
  BY DEF IInv, TypeOK
<1>1. \A p \in All : /\ p[1] \in Runs /\ p[2] \in traces[p[1]] /\ p \in All2
                     /\ events'[p[1]][p[2].failed] = events[p[1]][p[2].failed]
  <2>1. ASSUME NEW p \in All
        PROVE  p[1] \in Runs /\ p[2] \in traces[p[1]] /\ p = <<p[1], p[2]>>
    OBVIOUS
  <2>2. ASSUME NEW p \in All
        PROVE  events'[p[1]][p[2].failed] = events[p[1]][p[2].failed]
    <3>1. p[1] \in Runs /\ p[2] \in traces[p[1]]
      BY <2>1
    <3>2. p[2].failed \in DOMAIN events[p[1]] /\ events[p[1]] \in Logs
      BY <3>1, RowTypes DEF IInv, TracesFit, OfLog
    <3> QED
      BY <3>1, <3>2, GrownKeeps DEF Later
  <2>3. ASSUME NEW p \in All
        PROVE  p \in All2
    <3>1. p[1] \in Runs /\ p[2] \in traces'[p[1]] /\ p = <<p[1], p[2]>>
      BY <2>1 DEF Later
    <3> QED
      BY <3>1
  <2> QED
    BY <2>1, <2>2, <2>3
<1>2. \A p \in All2 : p[2].closed < created => p \in All
  <2>1. ASSUME NEW p \in All2, p[2].closed < created
        PROVE  p \in All
    <3>1. p[1] \in Runs /\ p[2] \in traces'[p[1]] /\ p = <<p[1], p[2]>>
      OBVIOUS
    <3>2. p[2].closed \in Nat
      BY <3>1 DEF Traces
    <3>3. p[2] \in traces[p[1]]
      BY <1>0, <2>1, <3>1, <3>2 DEF Later
    <3> QED
      BY <3>1, <3>3
  <2> QED
    BY <2>1
<1> DEFINE teaches(p)  == /\ p[2].outcome = "resolved" /\ p[2].closed < created
                          /\ \A v \in Violations(events[p[1]][p[2].failed].call) : v.change = "remove"
           teaches2(p) == /\ p[2].outcome = "resolved" /\ p[2].closed < created
                          /\ \A v \in Violations(events'[p[1]][p[2].failed].call) : v.change = "remove"
<1>3. Teachable(r, created) = {p \in All : teaches(p)} /\ Teachable(r, created)' = {p \in All2 : teaches2(p)}
  BY DEF Teachable
<1>4. \A p \in All : teaches(p) <=> teaches2(p)
  BY <1>1
<1>5. \A p \in All2 : teaches2(p) => p \in All
  BY <1>2
<1> HIDE DEF All, All2, teaches, teaches2
<1>6. {p \in All : teaches(p)} = {p \in All2 : teaches2(p)}
  BY <1>1, <1>4, <1>5
<1>7. \A p \in Teachable(r, created) :
         events'[p[1]][p[2].failed].call = events[p[1]][p[2].failed].call
  BY <1>1, <1>3
<1> QED
  BY <1>3, <1>6, <1>7

LEMMA SameTeaching ==
  ASSUME NEW r, NEW created, Teachable(r, created)' = Teachable(r, created),
         \A p \in Teachable(r, created) :
           events'[p[1]][p[2].failed].call = events[p[1]][p[2].failed].call
  PROVE  ComposeMemory(r, created)' = ComposeMemory(r, created)
<1> DEFINE S == Teachable(r, created)
<1>1. /\ S' = S
      /\ \A p \in S : events'[p[1]][p[2].failed].call = events[p[1]][p[2].failed].call
  OBVIOUS
<1>2. ComposeMemory(r, created) = FromLearned(TaughtCalls(S), TaughtTraces(S))
  BY ComposeIsFromLearned DEF ComposedAsLearned
<1>3. ComposeMemory(r, created)' = FromLearned(TaughtCalls(S)', TaughtTraces(S)')
  <2>1. ComposedAsLearned'
    BY ComposeIsFromLearned, PTL
  <2> QED
    BY <2>1 DEF ComposedAsLearned
<1> HIDE DEF S
<1>4. TaughtCalls(S)' = TaughtCalls(S)
  BY <1>1 DEF TaughtCalls
<1>5. \A c : Learned(S, c)' = Learned(S, c)
  BY <1>1 DEF Learned
<1>6. TaughtTraces(S)' = TaughtTraces(S)
  BY <1>4, <1>5 DEF TaughtTraces
<1> QED
  BY <1>2, <1>3, <1>4, <1>6

LEMMA ComposedStays ==
  ASSUME IInv, Later, traces' \in [Runs -> SUBSET Traces], NEW r, NEW created \in Nat, created <= clock
  PROVE  ComposeMemory(r, created)' = ComposeMemory(r, created)
BY TeachableStays, SameTeaching

LEMMA SameComposition ==
  ASSUME UNCHANGED <<events, traces>>
  PROVE  \A q, created : ComposeMemory(q, created)' = ComposeMemory(q, created)
<1> SUFFICES ASSUME NEW q, NEW created
             PROVE  ComposeMemory(q, created)' = ComposeMemory(q, created)
  OBVIOUS
<1>1. \A p : Violations(events'[p[1]][p[2].failed].call) = Violations(events[p[1]][p[2].failed].call)
  OBVIOUS
<1>2. Teachable(q, created)' = Teachable(q, created)
  BY <1>1 DEF Teachable
<1> QED
  BY <1>2, SameTeaching

-----------------------------------------------------------------------------
(* The steps keep what was recorded.                                       *)

LEMMA RecordedKeeps ==
  ASSUME IInv, Recorded, NEW r \in Runs, NEW row \in RunRow, NEW log, NEW T \in SUBSET Traces,
         Written(r, row, log, T), SameRow(runs[r], row), row.provider = runs[r].provider,
         Grows(events[r], log), traces[r] \subseteq T,
         \A t \in T : t \in traces[r] \/ (t.closed > clock /\ t.provider = "model"),
         LogKept(log, T), ReceiptsKept(log, row.memory)
  PROVE  Recorded'
<1>0. /\ runs \in [Runs -> RunRow] /\ events \in [Runs -> Seq(Events)]
      /\ traces \in [Runs -> SUBSET Traces] /\ clock \in Nat
  BY DEF IInv, TypeOK
<1>1. /\ runs'[r] = row /\ events'[r] = log /\ traces'[r] = T
      /\ \A q \in Runs : q # r => runs'[q] = runs[q] /\ events'[q] = events[q] /\ traces'[q] = traces[q]
      /\ traces' \in [Runs -> SUBSET Traces]
  BY <1>0 DEF Written
<1>2. \A q \in Runs : /\ runs'[q].memory = runs[q].memory /\ runs'[q].retry_of = runs[q].retry_of
                      /\ runs'[q].created = runs[q].created /\ runs'[q].provider = runs[q].provider
                      /\ (runs'[q].state = "none") = (runs[q].state = "none")
  BY <1>1 DEF SameRow
<1>3. Later
  <2>1. ASSUME NEW q \in Runs
        PROVE  Grows(events[q], events'[q])
    <3>1. Grows(events[q], events[q])
      BY GoodLogNow DEF GoodLog
    <3> QED
      BY <1>1, <3>1
  <2> QED
    BY <1>1, <2>1 DEF Later
<1>4. Providers'
  <2>1. ASSUME NEW q \in Runs
        PROVE  runs'[q].provider = "model" /\ \A t \in traces'[q] : t.provider = "model"
    BY <1>1, <1>2 DEF Recorded, Providers
  <2> QED
    BY <2>1 DEF Providers
<1>5. \A q \in Runs : LogKept(events'[q], traces'[q])
  BY <1>1 DEF Recorded
<1>6. \A q \in Runs : ReceiptsKept(events'[q], runs'[q].memory)
  BY <1>1 DEF Recorded
<1>7. Memories'
  <2>1. ASSUME NEW q \in Runs, runs'[q].state # "none", runs'[q].retry_of # Nobody
        PROVE  runs'[q].memory = runs'[runs'[q].retry_of].memory
    <3>1. runs[q].state # "none" /\ runs[q].retry_of # Nobody /\ runs[q].retry_of \in Runs
      BY <1>0, <1>2, <2>1 DEF RunRow
    <3>2. runs[q].memory = runs[runs[q].retry_of].memory
      BY <3>1 DEF Recorded, Memories
    <3> QED
      BY <1>2, <3>1, <3>2
  <2>2. ASSUME NEW q \in Runs, runs'[q].state # "none", ~(runs'[q].retry_of # Nobody),
               NEW created \in Nat, runs'[q].created = created
        PROVE  runs'[q].memory = ComposeMemory(q, created)'
    <3>1. runs[q].memory = ComposeMemory(q, created)
      BY <1>2, <2>2 DEF Recorded, Memories
    <3>2. created <= clock
      BY <1>2, <2>2 DEF IInv, RowsFit
    <3>3. ComposeMemory(q, created)' = ComposeMemory(q, created)
      BY <1>1, <1>3, <3>2, ComposedStays
    <3> QED
      BY <1>2, <3>1, <3>3
  <2> QED
    BY <2>1, <2>2 DEF Memories
<1>8. /\ (\A q \in Runs : LogKept(events[q], traces[q]))'
      /\ (\A q \in Runs : ReceiptsKept(events[q], runs[q].memory))'
  BY <1>5, <1>6
<1> QED
  BY <1>4, <1>7, <1>8 DEF Recorded

LEMMA RecordedStutters ==
  ASSUME IInv, Recorded, UNCHANGED <<runs, events, traces>>
  PROVE  Recorded'
<1>1. Providers' /\ (\A q \in Runs : LogKept(events'[q], traces'[q]))
      /\ \A q \in Runs : ReceiptsKept(events'[q], runs'[q].memory)
  BY DEF Recorded, Providers
<1>2. \A q, created : ComposeMemory(q, created)' = ComposeMemory(q, created)
  BY SameComposition
<1>3. Memories'
  BY <1>2 DEF Recorded, Memories
<1>4. /\ (\A q \in Runs : LogKept(events[q], traces[q]))'
      /\ (\A q \in Runs : ReceiptsKept(events[q], runs[q].memory))'
  BY <1>1
<1> QED
  BY <1>1, <1>3, <1>4 DEF Recorded

LEMMA RecordedCreates ==
  ASSUME IInv, Recorded, NEW r \in Runs, runs[r].state = "none", NEW row \in RunRow,
         row.provider = "model", runs' = [runs EXCEPT ![r] = row], UNCHANGED <<events, traces>>,
         IF row.retry_of # Nobody
         THEN runs[row.retry_of].state # "none" /\ row.memory = runs[row.retry_of].memory
         ELSE row.memory = ComposeMemory(r, row.created)
  PROVE  Recorded'
<1>0. /\ runs \in [Runs -> RunRow] /\ events \in [Runs -> Seq(Events)]
      /\ traces \in [Runs -> SUBSET Traces]
  BY DEF IInv, TypeOK
<1>1. runs'[r] = row /\ \A q \in Runs : q # r => runs'[q] = runs[q]
  BY <1>0
<1>2. events[r] = <<>> /\ traces[r] = {}
  BY DEF IInv, RowsFit
<1>3. Providers'
  BY <1>1 DEF Recorded, Providers
<1>4. \A q \in Runs : LogKept(events'[q], traces'[q])
  BY DEF Recorded
<1>5. \A q \in Runs : ReceiptsKept(events'[q], runs'[q].memory)
  <2>1. ReceiptsKept(<<>>, row.memory)
    BY DEF ReceiptsKept, Indices
  <2> QED
    BY <1>1, <1>2, <2>1 DEF Recorded
<1>6. \A q, created : ComposeMemory(q, created)' = ComposeMemory(q, created)
  BY SameComposition
<1>7. Memories'
  <2>1. ASSUME NEW q \in Runs, runs'[q].state # "none", runs'[q].retry_of # Nobody
        PROVE  runs'[q].memory = runs'[runs'[q].retry_of].memory
    <3>1. CASE q = r
      <4>1. row.retry_of \in Runs /\ row.retry_of # r
        BY <1>1, <2>1, <3>1 DEF RunRow
      <4> QED
        BY <1>1, <2>1, <3>1, <4>1
    <3>2. CASE q # r
      <4>1. runs'[q] = runs[q] /\ runs[q].retry_of \in Runs /\ runs[q].retry_of # Nobody
        BY <1>0, <1>1, <2>1, <3>2 DEF RunRow
      <4>2. runs[q].memory = runs[runs[q].retry_of].memory /\ runs[q].retry_of # r
        BY <2>1, <4>1 DEF Recorded, Memories, IInv, RowsFit
      <4> QED
        BY <1>1, <4>1, <4>2
    <3> QED
      BY <3>1, <3>2
  <2>2. ASSUME NEW q \in Runs, runs'[q].state # "none", ~(runs'[q].retry_of # Nobody),
               NEW created \in Nat, runs'[q].created = created
        PROVE  runs'[q].memory = ComposeMemory(q, created)'
    <3>1. runs'[q].memory = ComposeMemory(q, created)
      BY <1>1, <2>2 DEF Recorded, Memories
    <3> QED
      BY <1>6, <3>1
  <2> QED
    BY <2>1, <2>2 DEF Memories
<1>8. /\ (\A q \in Runs : LogKept(events[q], traces[q]))'
      /\ (\A q \in Runs : ReceiptsKept(events[q], runs[q].memory))'
  BY <1>4, <1>5
<1> QED
  BY <1>3, <1>7, <1>8 DEF Recorded

LEMMA IdleStarts ==
  ASSUME worker'.pc \in {"idle", "claimed"}
  PROVE  AtStart'
BY DEF AtStart

LEMMA ReleaseStarts ==
  ASSUME Release
  PROVE  AtStart'
<1>1. worker'.pc = "idle"
  BY IdleFits DEF Release
<1> QED
  BY <1>1, IdleStarts

\* The row of a completed run is not written while the worker looks on.
LEMMA SameStarts ==
  ASSUME AtStart, UNCHANGED <<worker, events>>,
         worker.pc \in {"started", "observed"} /\ runs[worker.run].state = "completed" =>
           runs'[worker.run].state = "completed"
  PROVE  AtStart'
BY DEF AtStart

LEMMA CreateRunRecords ==
  ASSUME IInv, RInv, CreateRun
  PROVE  RInv'
<1>1. PICK r \in Unused :
        /\ clock' = clock + 1
        /\ runs' = [runs EXCEPT ![r] = [NewRun EXCEPT !.state = "running", !.created = clock',
                                                      !.memory = ComposeMemory(r, clock')]]
        /\ UNCHANGED <<events, traces, lease, worker, unfenced, faults>>
  BY DEF CreateRun
<1>2. r \in Runs /\ runs[r].state = "none"
  BY DEF Unused
<1> DEFINE memory == ComposeMemory(r, clock')
           row == [NewRun EXCEPT !.state = "running", !.created = clock', !.memory = memory]
<1>3. memory \in SUBSET Entries /\ clock' \in Nat
  BY <1>1, <1>2, ComposedIsGood, RowTypes
<1>4. row.memory = ComposeMemory(r, row.created)
  BY DEF NewRun
<1> HIDE DEF memory
<1>5. row \in RunRow /\ row.provider = "model" /\ row.retry_of = Nobody
  BY <1>3 DEF NewRun, RunRow, RunStates
<1>6. runs' = [runs EXCEPT ![r] = row]
  BY <1>1 DEF memory
<1> HIDE DEF row
<1>7. Recorded'
  BY <1>1, <1>2, <1>4, <1>5, <1>6, RecordedCreates DEF RInv
<1>8. AtStart'
  <2>1. runs \in [Runs -> RunRow]
    BY DEF IInv, TypeOK
  <2>2. \A q \in Runs : runs[q].state = "completed" => runs'[q].state = "completed"
    BY <1>2, <1>6, <2>1
  <2>3. worker.pc \in {"started", "observed"} => worker.run \in Runs
    BY DEF IInv, TypeOK
  <2> QED
    BY <1>1, <2>2, <2>3, SameStarts DEF RInv
<1> QED
  BY <1>7, <1>8 DEF RInv

LEMMA RetryRunRecords ==
  ASSUME IInv, RInv, NEW q \in Runs, RetryRun(q)
  PROVE  RInv'
<1>1. PICK r \in Unused :
        /\ runs[q].state \in Terminal
        /\ clock' = clock + 1
        /\ runs' = [runs EXCEPT ![r] = [NewRun EXCEPT !.state = "running", !.created = clock',
                                                      !.retry_of = q, !.memory = runs[q].memory,
                                                      !.provider = runs[q].provider]]
        /\ UNCHANGED <<events, traces, lease, worker, unfenced, faults>>
  BY DEF RetryRun
<1>2. r \in Runs /\ runs[r].state = "none" /\ runs[q].state # "none" /\ q # Nobody
  BY <1>1, LearningConstants DEF Unused, Terminal
<1> DEFINE row == [NewRun EXCEPT !.state = "running", !.created = clock', !.retry_of = q,
                                 !.memory = runs[q].memory, !.provider = runs[q].provider]
<1>3. runs[q].memory \in SUBSET Entries /\ clock' \in Nat /\ runs[q].provider = "model"
  BY <1>1, RowTypes DEF RInv, Recorded, Providers
<1>4. row \in RunRow /\ row.provider = "model" /\ row.retry_of = q /\ row.memory = runs[q].memory
  BY <1>3 DEF NewRun, RunRow, RunStates
<1>5. runs' = [runs EXCEPT ![r] = row]
  BY <1>1
<1> HIDE DEF row
<1>6. Recorded'
  BY <1>1, <1>2, <1>4, <1>5, RecordedCreates DEF RInv
<1>7. AtStart'
  <2>1. runs \in [Runs -> RunRow]
    BY DEF IInv, TypeOK
  <2>2. \A p \in Runs : runs[p].state = "completed" => runs'[p].state = "completed"
    BY <1>2, <1>5, <2>1
  <2>3. worker.pc \in {"started", "observed"} => worker.run \in Runs
    BY DEF IInv, TypeOK
  <2> QED
    BY <1>1, <2>2, <2>3, SameStarts DEF RInv
<1> QED
  BY <1>6, <1>7 DEF RInv

\* A step that appends to a stream, between tool calls, what no tool says.
LEMMA NoteRecords ==
  ASSUME IInv, Recorded, NEW r \in Runs, NEW row \in RunRow, SameRow(runs[r], row),
         row.provider = runs[r].provider, NEW log, Grows(events[r], log),
         runs' = [runs EXCEPT ![r] = row], events' = [events EXCEPT ![r] = log], UNCHANGED traces,
         LogKept(log, traces[r]), ReceiptsKept(log, runs[r].memory)
  PROVE  Recorded'
<1>1. traces[r] \in SUBSET Traces /\ traces = [traces EXCEPT ![r] = traces[r]]
  BY Rows DEF IInv
<1>2. Written(r, row, log, traces[r])
  BY <1>1 DEF Written
<1>3. ReceiptsKept(log, row.memory)
  BY DEF SameRow
<1> QED
  BY <1>1, <1>2, <1>3, RecordedKeeps

\* A stream that can be written, as far as it goes.
KeptLog(r, log) ==
  /\ Grows(events[r], log)
  /\ LogKept(log, traces[r])
  /\ ReceiptsKept(log, runs[r].memory)

LEMMA KeptNow ==
  ASSUME IInv, Recorded, NEW r \in Runs
  PROVE  KeptLog(r, events[r]) /\ events[r] \in Logs
BY GoodLogNow, RowTypes DEF KeptLog, Recorded, GoodLog

LEMMA KeptNote ==
  ASSUME IInv, NEW r \in Runs, NEW log, KeptLog(r, log),
         NEW type \in EventTypes \ (Outcomes \cup {"stopped", "reused"}), NEW call \in Calls \cup {NoCall}
  PROVE  KeptLog(r, Append(log, Event(type, call))) /\ Append(log, Event(type, call)) \in Logs
<1>1. log \in Logs /\ events[r] \in Logs
  BY RowTypes DEF KeptLog, Grows
<1>2. Event(type, call) \in Events /\ Event(type, call).type = type
  BY EventFields
<1>3. Grows(events[r], Append(log, Event(type, call))) /\ Append(log, Event(type, call)) \in Logs
  BY <1>1, <1>2, GrowsOn DEF KeptLog
<1>4. LogKept(Append(log, Event(type, call)), traces[r])
  BY <1>1, LogKeptNote DEF KeptLog
<1>5. ReceiptsKept(Append(log, Event(type, call)), runs[r].memory)
  <2> DEFINE memory == runs[r].memory
             e == Event(type, call)
  <2>1. ReceiptsKept(log, memory) /\ e \in Events /\ e.type # "reused"
    BY <1>2 DEF KeptLog
  <2> HIDE DEF memory, e
  <2>2. ReceiptsKept(Append(log, e), memory)
    BY <1>1, <2>1, ReceiptsNote
  <2> QED
    BY <2>2 DEF memory, e
<1> QED
  BY <1>3, <1>4, <1>5 DEF KeptLog

LEMMA CancelRunRecords ==
  ASSUME IInv, RInv, NEW r \in Runs, CancelRun(r)
  PROVE  RInv'
<1> DEFINE log == Append(events[r], Event("run_cancelled", NoCall))
           row == [runs[r] EXCEPT !.state = "cancelled"]
<1>1. /\ runs[r].state = "running"
      /\ runs' = [runs EXCEPT ![r] = row] /\ events' = [events EXCEPT ![r] = log]
      /\ UNCHANGED <<traces, worker>>
  BY DEF CancelRun
<1>2. row \in RunRow /\ SameRow(runs[r], row) /\ row.provider = runs[r].provider
  BY <1>1, RowTypes DEF RunRow, RunStates, Terminal, SameRow
<1>3. KeptLog(r, log) /\ events[r] \in Logs
  BY KeptNow, KeptNote DEF EventTypes, Outcomes, RInv
<1>4. Recorded'
  <2> HIDE DEF row, log
  <2> QED
    BY <1>1, <1>2, <1>3, NoteRecords DEF KeptLog, RInv
<1>5. AtStart'
  <2>1. /\ events \in [Runs -> Seq(Events)] /\ runs \in [Runs -> RunRow]
        /\ worker.pc \in {"started", "observed"} => worker.run \in Runs
    BY DEF IInv, TypeOK
  <2>2. CASE worker.run # r
    <3>1. worker.pc \in {"started", "observed"} =>
            events'[worker.run] = events[worker.run] /\ runs'[worker.run] = runs[worker.run]
      BY <1>1, <2>1, <2>2
    <3> QED
      BY <1>1, <3>1 DEF AtStart, RInv
  <2>3. CASE worker.run = r
    <3>1. events'[r] = log
      BY <1>1, <2>1
    <3>2. EndsStarted(events[r], worker.call) => CancelledMidway(log)
      <4> SUFFICES ASSUME EndsStarted(events[r], worker.call) PROVE CancelledMidway(log)
        OBVIOUS
      <4> DEFINE n == Len(events[r])
      <4>1. n > 0 /\ events[r][n].type = "started"
        BY DEF EndsStarted
      <4>2. Event("run_cancelled", NoCall) \in Events /\ Event("run_cancelled", NoCall).type = "run_cancelled"
        BY EventFields DEF EventTypes
      <4>3. /\ n \in Nat /\ DOMAIN log = 1 .. n + 1 /\ log[n + 1].type = "run_cancelled"
            /\ log[n] = events[r][n]
        BY <1>3, <4>1, <4>2, Appending
      <4> HIDE DEF log, n
      <4>4. n + 1 \in Indices(log, {"run_cancelled"}) /\ n + 1 > 1 /\ (n + 1) - 1 = n
        BY <4>1, <4>3 DEF Indices
      <4> QED
        BY <4>1, <4>3, <4>4 DEF CancelledMidway
    <3>3. CancelledMidway(events[r]) => CancelledMidway(log)
      BY <1>3, CancelledGrows DEF KeptLog
    <3>4. worker.pc \in {"started", "observed"} => CancelledMidway(log)
      BY <1>1, <2>3, <3>2, <3>3 DEF AtStart, RInv
    <3> HIDE DEF log
    <3> QED
      BY <1>1, <2>3, <3>1, <3>4 DEF AtStart
  <2> QED
    BY <2>2, <2>3
<1> QED
  BY <1>4, <1>5 DEF RInv

LEMMA QuietRecords ==
  ASSUME IInv, RInv, UNCHANGED <<runs, events, traces>>,
         worker'.pc \in {"idle", "claimed"} \/ UNCHANGED worker
  PROVE  RInv'
<1>1. Recorded'
  BY RecordedStutters DEF RInv
<1>2. AtStart'
  BY IdleStarts, SameStarts DEF RInv
<1> QED
  BY <1>1, <1>2 DEF RInv

LEMMA ProviderFailureRecords ==
  ASSUME IInv, RInv, AllowFallback = FALSE, ProviderFailure
  PROVE  RInv'
<1> DEFINE row == [runs[r0] EXCEPT !.iteration = @ + 1, !.failures = @ + 1]
           failed == Append(log0, Event("provider_failed", NoCall))
           ended == Append(failed, Event("run_ended", NoCall))
<1>1. /\ worker.pc = "claimed" /\ Release /\ UNCHANGED traces
      /\ \/ /\ runs' = [runs EXCEPT ![r0] = [row EXCEPT !.state = "failed"]]
            /\ events' = [events EXCEPT ![r0] = ended]
         \/ /\ runs' = [runs EXCEPT ![r0] = row]
            /\ events' = [events EXCEPT ![r0] = failed]
  BY DEF ProviderFailure
<1>2. r0 \in Runs /\ runs[r0].state # "none" /\ log0 = events[r0]
  BY <1>1, WorkersRun DEF log0
<1>3. /\ row \in RunRow /\ [row EXCEPT !.state = "failed"] \in RunRow
      /\ SameRow(runs[r0], row) /\ SameRow(runs[r0], [row EXCEPT !.state = "failed"])
      /\ row.provider = runs[r0].provider /\ [row EXCEPT !.state = "failed"].provider = runs[r0].provider
  <2>1. /\ runs[r0] \in RunRow /\ runs[r0].iteration + 1 \in Nat /\ runs[r0].failures + 1 \in Nat
    BY <1>2, RowTypes
  <2>2. /\ row \in RunRow /\ row.state = runs[r0].state /\ row.memory = runs[r0].memory
        /\ row.retry_of = runs[r0].retry_of /\ row.created = runs[r0].created
        /\ row.provider = runs[r0].provider
    BY <2>1 DEF RunRow
  <2> HIDE DEF row
  <2> QED
    BY <1>2, <2>2 DEF RunRow, RunStates, Terminal, SameRow
<1>4. KeptLog(r0, failed) /\ KeptLog(r0, ended)
  <2>1. KeptLog(r0, log0)
    BY <1>2, KeptNow DEF RInv
  <2>2. KeptLog(r0, failed)
    BY <1>2, <2>1, KeptNote DEF EventTypes, Outcomes
  <2> HIDE DEF failed
  <2> QED
    BY <1>2, <2>2, KeptNote DEF EventTypes, Outcomes
<1>5. Recorded'
  <2> HIDE DEF row, failed, ended
  <2> QED
    BY <1>1, <1>2, <1>3, <1>4, NoteRecords DEF KeptLog, RInv
<1>6. AtStart'
  BY <1>1, ReleaseStarts
<1> QED
  BY <1>5, <1>6 DEF RInv

\* What has no trace is the call that is open.
LEMMA UntracedIsPending ==
  ASSUME NEW log \in Logs, NEW T, InOrder(log, T),
         NEW i \in Indices(log, {"invalid"}), ~HasTrace(T, i)
  PROVE  /\ i \in DOMAIN log /\ log[i].type = "invalid" /\ Pending(log) = log[i].call
         /\ LastBefore(log, Outcomes, Len(log) + 1) = i
         /\ \A j \in Indices(log, Outcomes) : j <= i
<1>1. i \in DOMAIN log /\ log[i].type = "invalid" /\ DOMAIN log = 1 .. Len(log) /\ Len(log) \in Nat
  BY DEF Indices, Logs
<1>2. \A j \in Indices(log, Outcomes \cup {"stopped"}) : j <= i
  BY UntracedIsLast
<1>3. \A j \in Indices(log, Outcomes) : j <= i
  BY <1>2 DEF Indices
<1>4. i \in Indices(log, Outcomes) /\ i < Len(log) + 1 /\ i > 0
  BY <1>1 DEF Indices, Outcomes
<1>5. LastBefore(log, Outcomes, Len(log) + 1) = i
  BY <1>1, <1>3, <1>4, LastIsIt
<1> QED
  BY <1>1, <1>3, <1>4, <1>5 DEF Pending

\* A stream that has grown in order, and the trace that was published of it.
LEMMA InOrderTraced ==
  ASSUME NEW log \in Logs, NEW T, InOrder(log, T), NEW log2, Grows(log, log2),
         NEW t, Ordered(log2, T \cup {t}), Matches(t, log2)
  PROVE  InOrder(log2, T \cup {t})
<1>1. \A u \in T : Matches(u, log2)
  BY MatchesGrows DEF InOrder
<1> QED
  BY <1>1 DEF InOrder

LEMMA StopRecords ==
  ASSUME IInv, RInv, NEW c \in Calls, Stop(c)
  PROVE  RInv'
<1> DEFINE rejected == Pending(log0)
           S        == {j \in DOMAIN log0 : Untraced(r0, log0, j) /\ log0[j].call = rejected}
           failed   == Max({0} \cup S)
           at       == Len(log0) + 1
           row      == [runs[r0] EXCEPT !.state = "failed", !.iteration = @ + 1]
           log1     == Append(log0, Event("stopped", rejected))
           log2     == Append(log1, Event("run_ended", rejected))
           log      == Append(log2, Event("published", NoCall))
           t        == Trace(failed, "stopped", at, 0)
           T        == traces[r0] \cup {t}
<1>1. /\ worker.pc = "claimed" /\ Release /\ rejected # NoCall /\ failed > 0
      /\ runs' = [runs EXCEPT ![r0] = row]
      /\ events' = [events EXCEPT ![r0] = log]
      /\ traces' = [traces EXCEPT ![r0] = T]
  <2>1. worker.pc = "claimed" /\ Release /\ rejected # NoCall /\ failed > 0
    BY DEF Stop
  <2>2. runs' = [runs EXCEPT ![r0] = row]
    BY DEF Stop
  <2>3. events' = [events EXCEPT ![r0] = log]
    BY DEF Stop
  <2>4. traces' = [traces EXCEPT ![r0] = T]
    BY DEF Stop
  <2> QED
    BY <2>1, <2>2, <2>3, <2>4
<1>2. /\ r0 \in Runs /\ runs[r0].state # "none" /\ log0 \in Logs /\ log0 = events[r0]
      /\ KeptLog(r0, log0) /\ runs[r0].provider = "model"
      /\ Len(log0) \in Nat /\ DOMAIN log0 = 1 .. Len(log0)
  <2>1. r0 \in Runs /\ runs[r0].state # "none" /\ log0 \in Logs
    BY <1>1, WorkersRun
  <2> QED
    BY <2>1, KeptNow DEF log0, RInv, Recorded, Providers, Logs
<1>3. row \in RunRow /\ SameRow(runs[r0], row) /\ row.provider = runs[r0].provider
  <2>1. runs[r0] \in RunRow /\ runs[r0].iteration + 1 \in Nat
    BY <1>2, RowTypes
  <2> QED
    BY <1>2, <2>1 DEF RunRow, RunStates, Terminal, SameRow
<1> HIDE DEF row
<1>4. PICK k \in DOMAIN log0 : log0[k].type = "invalid" /\ log0[k].call = rejected
  BY <1>1, <1>2, PendingIsRejected
<1>5. rejected \in Calls
  BY <1>2, <1>4 DEF IInv, CallsNamed, Named, ToolTypes, Outcomes
<1>6. /\ Event("stopped", rejected) \in Events /\ Event("stopped", rejected).type = "stopped"
      /\ Event("stopped", rejected).call = rejected
      /\ Event("run_ended", rejected) \in Events /\ Event("run_ended", rejected).type = "run_ended"
      /\ Event("published", NoCall) \in Events /\ Event("published", NoCall).type = "published"
  BY <1>5, EventFields DEF EventTypes
<1>7. failed \in S /\ failed \in DOMAIN log0 /\ failed \in Nat /\ \A j \in S : j <= failed
  <2>1. S \subseteq DOMAIN log0
    OBVIOUS
  <2> HIDE DEF S
  <2> QED
    BY <1>1, <1>2, <2>1, GreatestIndex
<1>8. /\ log0[failed].type = "invalid" /\ log0[failed].call = rejected
      /\ \A u \in traces[r0] : u.failed # failed
  BY <1>7 DEF Untraced
<1>9. t \in Traces /\ t.failed = failed /\ t.outcome = "stopped" /\ t.at = at
      /\ t.provider = "model" /\ t.closed = clock + 1
  <2>1. failed \in Nat /\ at \in Nat /\ 0 \in Nat /\ r0 \in Runs /\ runs[r0].provider = "model"
    BY <1>2, <1>7
  <2>2. clock + 1 \in Nat
    BY <2>1, RowTypes
  <2> HIDE DEF failed, at
  <2> QED
    BY <2>1, <2>2 DEF Trace, Traces
<1>10. \A i \in Indices(log0, {"invalid"}) : ~HasTrace(traces[r0], i) /\ InOrder(log0, traces[r0]) => i = failed
  <2> SUFFICES ASSUME NEW i \in Indices(log0, {"invalid"}), ~HasTrace(traces[r0], i), InOrder(log0, traces[r0])
               PROVE  i = failed
    OBVIOUS
  <2>1. /\ i \in DOMAIN log0 /\ log0[i].type = "invalid" /\ log0[i].call = rejected
        /\ \A j \in Indices(log0, Outcomes) : j <= i
    BY <1>2, UntracedIsPending
  <2>2. i \in S
    BY <2>1 DEF Untraced, HasTrace
  <2>3. failed \in Indices(log0, Outcomes)
    BY <1>7, <1>8 DEF Indices, Outcomes
  <2> HIDE DEF failed, S
  <2> QED
    BY <1>2, <1>7, <2>1, <2>2, <2>3
<1> HIDE DEF S, failed, t
<1>11. /\ log1 \in Logs /\ Len(log1) = at /\ log1[at] = Event("stopped", rejected) /\ Grows(log0, log1)
  BY <1>2, <1>6, Appending, AppendGrows
<1>12. ReceiptsKept(log1, runs[r0].memory)
  <2> DEFINE memory == runs[r0].memory
             e == Event("stopped", rejected)
  <2>1. ReceiptsKept(log0, memory) /\ e \in Events /\ e.type # "reused"
    BY <1>2, <1>6 DEF KeptLog
  <2> HIDE DEF memory, e
  <2>2. ReceiptsKept(Append(log0, e), memory)
    BY <1>2, <2>1, ReceiptsNote
  <2> QED
    BY <2>2 DEF memory, e
<1>13. Ordered(log0, traces[r0]) /\ InOrder(log0, traces[r0]) => Ordered(log1, T)
  <2> SUFFICES ASSUME InOrder(log0, traces[r0]) PROVE Ordered(log1, T)
    BY DEF InOrder
  <2>1. \A i \in Indices(log0, {"invalid"}) : HasTrace(T, i)
    BY <1>9, <1>10 DEF HasTrace
  <2> DEFINE e == Event("stopped", rejected)
             U == T
             V == traces[r0]
  <2>2. e \in Events /\ e.type # "invalid" /\ \A i \in Indices(log0, {"invalid"}) : HasTrace(U, i)
    <3>1. e \in Events /\ e.type # "invalid"
      BY <1>6
    <3> QED
      BY <2>1, <3>1
  <2>3. Ordered(log0, V)
    BY DEF InOrder
  <2> HIDE DEF e, U, V
  <2>4. Ordered(Append(log0, e), U)
    BY <1>2, <2>2, <2>3, OrderedOutcome
  <2> QED
    BY <2>4 DEF e, U
<1> HIDE DEF log1, T
<1>14. /\ log2 \in Logs /\ Len(log2) = at + 1 /\ Grows(log0, log2) /\ log2[at] = Event("stopped", rejected)
       /\ (Ordered(log1, T) => Ordered(log2, T))
       /\ ReceiptsKept(log2, runs[r0].memory)
  <2> DEFINE e == Event("run_ended", rejected)
             memory == runs[r0].memory
  <2>1. e \in Events /\ e.type = "run_ended" /\ ReceiptsKept(log1, memory)
    BY <1>6, <1>12
  <2> HIDE DEF e, memory
  <2>2. /\ Append(log1, e) \in Logs /\ Len(Append(log1, e)) = at + 1 /\ Grows(log0, Append(log1, e))
        /\ Append(log1, e)[at] = log1[at]
    <3>1. at \in Nat /\ at > 0 /\ Len(log1) = at /\ at \in 1 .. Len(log1)
      BY <1>2, <1>11
    <3>2. Grows(log0, Append(log1, e))
      BY <1>2, <1>11, <2>1, GrowsOn
    <3>3. /\ Append(log1, e) \in Logs /\ Len(Append(log1, e)) = Len(log1) + 1
          /\ \A i \in 1 .. Len(log1) : Append(log1, e)[i] = log1[i]
      BY <1>11, <2>1, Appending
    <3> QED
      BY <3>1, <3>2, <3>3
  <2>3. Ordered(log1, T) => Ordered(Append(log1, e), T)
    BY <1>11, <2>1, OrderedNote DEF Outcomes
  <2>4. ReceiptsKept(Append(log1, e), memory)
    BY <1>11, <2>1, ReceiptsNote
  <2> QED
    BY <1>11, <2>2, <2>3, <2>4 DEF e, memory
<1> HIDE DEF log2
<1>15. /\ log \in Logs /\ Len(log) = at + 2 /\ Grows(log0, log) /\ log[at] = Event("stopped", rejected)
       /\ log[at + 2].type = "published"
       /\ (Ordered(log2, T) => Ordered(log, T))
       /\ ReceiptsKept(log, runs[r0].memory)
  <2> DEFINE e == Event("published", NoCall)
             memory == runs[r0].memory
  <2>1. e \in Events /\ e.type = "published" /\ ReceiptsKept(log2, memory)
    BY <1>6, <1>14
  <2> HIDE DEF e, memory
  <2>2. /\ Append(log2, e) \in Logs /\ Len(Append(log2, e)) = at + 2 /\ Grows(log0, Append(log2, e))
        /\ Append(log2, e)[at] = log2[at] /\ Append(log2, e)[at + 2] = e
    <3>1. at \in Nat /\ at > 0 /\ Len(log2) + 1 = at + 2 /\ at \in 1 .. Len(log2)
      BY <1>2, <1>14
    <3>2. Grows(log0, Append(log2, e))
      BY <1>2, <1>14, <2>1, GrowsOn
    <3>3. /\ Append(log2, e) \in Logs /\ Len(Append(log2, e)) = Len(log2) + 1
          /\ Append(log2, e)[Len(log2) + 1] = e
          /\ \A i \in 1 .. Len(log2) : Append(log2, e)[i] = log2[i]
      BY <1>14, <2>1, Appending
    <3> QED
      BY <3>1, <3>2, <3>3
  <2>3. Ordered(log2, T) => Ordered(Append(log2, e), T)
    BY <1>14, <2>1, OrderedNote DEF Outcomes
  <2>4. ReceiptsKept(Append(log2, e), memory)
    BY <1>14, <2>1, ReceiptsNote
  <2> QED
    BY <1>14, <2>1, <2>2, <2>3, <2>4 DEF e, memory
<1> HIDE DEF log
<1>16. InOrder(log0, traces[r0]) => InOrder(log, T)
  <2> SUFFICES ASSUME InOrder(log0, traces[r0]) PROVE InOrder(log, T)
    OBVIOUS
  <2>1. Ordered(log, T)
    BY <1>13, <1>14, <1>15 DEF InOrder
  <2>2. FollowsStart(log0, failed)
    BY <1>7, <1>8 DEF InOrder, Ordered, Indices
  <2>3. FollowsStart(log, failed) /\ log[failed] = log0[failed] /\ failed \in DOMAIN log
    BY <1>2, <1>7, <1>15, <2>2, FollowsGrows, GrownKeeps
  <2>4. at \in DOMAIN log /\ at + 2 \in DOMAIN log /\ failed < at /\ at + 2 > at
    BY <1>2, <1>7, <1>15 DEF Logs
  <2>5. OfLog(t, log)
    BY <1>8, <1>9, <2>3, <2>4 DEF OfLog
  <2>6. at + 2 \in Indices(log, {"published"})
    BY <1>15, <2>4 DEF Indices
  <2>7. log[at].type = "stopped" /\ log[at].call = log[failed].call
    BY <1>6, <1>8, <1>15, <2>3
  <2> HIDE DEF at
  <2>8. Matches(t, log)
    BY <1>9, <2>3, <2>4, <2>5, <2>6, <2>7 DEF Matches
  <2> QED
    BY <1>2, <1>15, <2>1, <2>8, InOrderTraced DEF T
<1>17. LogKept(log, T)
  BY <1>2, <1>15, <1>16, CancelledGrows DEF LogKept, KeptLog
<1>18. Recorded'
  <2>1. T \in SUBSET Traces /\ traces[r0] \subseteq T
    BY <1>2, <1>9, RowTypes DEF T
  <2>2. \A u \in T : u \in traces[r0] \/ (u.closed > clock /\ u.provider = "model")
    BY <1>2, <1>9, RowTypes DEF T
  <2>3. Written(r0, row, log, T)
    BY <1>1 DEF Written
  <2>4. ReceiptsKept(log, row.memory)
    BY <1>3, <1>15 DEF SameRow
  <2> QED
    BY <1>2, <1>3, <1>15, <1>17, <2>1, <2>2, <2>3, <2>4, RecordedKeeps DEF RInv
<1>19. AtStart'
  BY <1>1, ReleaseStarts
<1> QED
  BY <1>18, <1>19 DEF RInv

\* A receipt, written with the selection before it and the start after it.
LEMMA ReceiptsReused ==
  ASSUME NEW log \in Logs, NEW memory, ReceiptsKept(log, memory), NEW log2, Grows(log, log2),
         Len(log2) = Len(log) + 3,
         log2[Len(log) + 1].type = "selected", log2[Len(log) + 3].type = "started",
         log2[Len(log) + 1].call = log2[Len(log) + 3].call,
         NEW entry \in memory, log2[Len(log) + 2].call = entry.call,
         log2[Len(log) + 2].sources = entry.sources,
         log2[Len(log) + 3].call = Corrected(entry.call)
  PROVE  ReceiptsKept(log2, memory)
<1> DEFINE n == Len(log)
<1>1. /\ n \in Nat /\ DOMAIN log = 1 .. n /\ DOMAIN log2 = 1 .. n + 3 /\ Len(log2) = n + 3
      /\ \A i \in DOMAIN log : log2[i] = log[i]
  BY GrownPrefix
<1>2. /\ log2[n + 1].type = "selected" /\ log2[n + 3].type = "started"
      /\ log2[n + 1].call = log2[n + 3].call
      /\ log2[n + 2].call = entry.call /\ log2[n + 2].sources = entry.sources
      /\ log2[n + 3].call = Corrected(entry.call)
  OBVIOUS
<1> HIDE DEF n
<1>3. ASSUME NEW i \in Indices(log2, {"reused"})
      PROVE  /\ i > 1 /\ i < Len(log2)
             /\ log2[i - 1].type = "selected" /\ log2[i + 1].type = "started"
             /\ log2[i - 1].call = log2[i + 1].call /\ log2[i + 1].call = Corrected(log2[i].call)
             /\ \E m \in memory : m.call = log2[i].call /\ m.sources = log2[i].sources
  <2>0. i \in 1 .. n + 3 /\ log2[i].type = "reused"
    BY <1>1 DEF Indices
  <2>1. CASE i \in DOMAIN log
    <3>1. log2[i] = log[i] /\ i \in Indices(log, {"reused"})
      BY <1>1, <2>0, <2>1 DEF Indices
    <3>2. /\ i > 1 /\ i < Len(log)
          /\ log[i - 1].type = "selected" /\ log[i + 1].type = "started"
          /\ log[i - 1].call = log[i + 1].call /\ log[i + 1].call = Corrected(log[i].call)
          /\ \E m \in memory : m.call = log[i].call /\ m.sources = log[i].sources
      BY <3>1 DEF ReceiptsKept
    <3>3. i - 1 \in DOMAIN log /\ i + 1 \in DOMAIN log
      BY <1>1, <2>1, <3>2 DEF n
    <3>4. log2[i - 1] = log[i - 1] /\ log2[i + 1] = log[i + 1] /\ i < Len(log2)
      BY <1>1, <2>1, <3>2, <3>3
    <3> QED
      BY <3>1, <3>2, <3>4
  <2>2. CASE i \notin DOMAIN log
    <3>1. i # n + 1 /\ i # n + 3
      BY <1>2, <2>0
    <3>2. i = n + 2 /\ i - 1 = n + 1 /\ i + 1 = n + 3 /\ i > 1 /\ i < Len(log2)
      BY <1>1, <2>0, <2>2, <3>1
    <3>3. /\ log2[i - 1].type = "selected" /\ log2[i + 1].type = "started"
          /\ log2[i - 1].call = log2[i + 1].call /\ log2[i + 1].call = Corrected(log2[i].call)
          /\ entry.call = log2[i].call /\ entry.sources = log2[i].sources
      BY <1>2, <3>2
    <3> QED
      BY <3>2, <3>3
  <2> QED
    BY <2>1, <2>2
<1> QED
  BY <1>3 DEF ReceiptsKept

\* What Decided records of a decision is kept, and ends with its start.
LEMMA DecidedRecords ==
  ASSUME IInv, Recorded, worker.pc # "idle", NEW c \in Calls
  PROVE  KeptLog(r0, Decided(c).log) /\ EndsStarted(Decided(c).log, Decided(c).call)
<1> DEFINE E == IF Pending(log0) = NoCall /\ Valid(Corrected(c)) THEN Reuses(r0, c) ELSE {}
           d == IF E = {} THEN c ELSE Corrected(c)
           selected == Append(log0, Event("selected", d))
           entry == CHOOSE e \in E : TRUE
           reused == IF E = {} THEN selected ELSE Append(selected, Receipt(entry))
           log == Append(reused, Event("started", d))
<1>1. Decided(c).call = d /\ Decided(c).log = log
  BY DEF Decided
<1>2. r0 \in Runs /\ log0 \in Logs /\ log0 = events[r0] /\ KeptLog(r0, log0)
  BY WorkersRun, KeptNow DEF log0
<1>3. d \in Calls /\ (E # {} => d = Corrected(c))
  BY LearningConstants DEF Corrected
<1>4. \A e \in E : e \in runs[r0].memory /\ e \in Entries /\ e.call = c
  <2>1. runs[r0].memory \in SUBSET Entries
    BY <1>2, RowTypes
  <2> QED
    BY <2>1 DEF Reuses
<1>5. E # {} => entry \in E
  OBVIOUS
<1> HIDE DEF E, d, entry
<1>6. /\ Event("selected", d) \in Events /\ Event("selected", d).type = "selected"
      /\ Event("selected", d).call = d
      /\ Event("started", d) \in Events /\ Event("started", d).type = "started" /\ Event("started", d).call = d
  BY <1>3, EventFields DEF EventTypes
<1>7. /\ KeptLog(r0, selected) /\ selected \in Logs
      /\ Len(selected) = Len(log0) + 1 /\ selected[Len(log0) + 1] = Event("selected", d)
      /\ Len(log0) \in Nat
  <2>1. KeptLog(r0, selected) /\ selected \in Logs
    BY <1>2, <1>3, KeptNote DEF EventTypes, Outcomes
  <2> QED
    BY <1>2, <1>6, <2>1, Appending
<1> HIDE DEF selected
<1>8. CASE E = {}
  <2>1. log = Append(selected, Event("started", d))
    BY <1>8
  <2>2. KeptLog(r0, Append(selected, Event("started", d)))
    BY <1>2, <1>3, <1>7, KeptNote DEF EventTypes, Outcomes
  <2>3. EndsStarted(Append(selected, Event("started", d)), d)
    <3>1. /\ Len(Append(selected, Event("started", d))) = Len(selected) + 1
          /\ Append(selected, Event("started", d))[Len(selected) + 1] = Event("started", d)
      BY <1>6, <1>7, Appending
    <3> QED
      BY <1>6, <1>7, <3>1 DEF EndsStarted
  <2> QED
    BY <1>1, <2>1, <2>2, <2>3
<1>9. CASE E # {}
  <2> DEFINE n == Len(log0)
             receipt == Receipt(entry)
             start == Event("started", d)
             noted == Append(selected, receipt)
             final == Append(noted, start)
             memory == runs[r0].memory
  <2>1. log = final
    BY <1>9
  <2>2. entry \in memory /\ entry.call = c /\ entry.call \in Calls /\ entry.sources \in SUBSET TraceIds
    BY <1>4, <1>5, <1>9 DEF Entries
  <2>3. /\ receipt \in Events /\ receipt.type = "reused" /\ receipt.call = entry.call
        /\ receipt.sources = entry.sources
    BY <2>2 DEF Receipt, Events, EventTypes
  <2>4. /\ start \in Events /\ start.type = "started" /\ start.call = d /\ d = Corrected(c)
        /\ n \in Nat /\ Len(selected) = n + 1 /\ selected[n + 1].type = "selected" /\ selected[n + 1].call = d
    BY <1>3, <1>6, <1>7, <1>9
  <2> HIDE DEF receipt, start
  <2>5. /\ noted \in Logs /\ Len(noted) = n + 2 /\ noted[n + 2] = receipt /\ noted[n + 1] = selected[n + 1]
        /\ Grows(events[r0], noted)
    <3>1. /\ noted \in Logs /\ Len(noted) = Len(selected) + 1 /\ noted[Len(selected) + 1] = receipt
          /\ \A i \in 1 .. Len(selected) : noted[i] = selected[i]
      BY <1>7, <2>3, Appending
    <3>2. n + 1 \in 1 .. Len(selected) /\ Len(selected) + 1 = n + 2
      BY <2>4
    <3>3. Grows(events[r0], noted)
      BY <1>2, <1>7, <2>3, GrowsOn DEF KeptLog
    <3> QED
      BY <3>1, <3>2, <3>3
  <2>6. LogKept(noted, traces[r0])
    <3>1. Grows(selected, noted)
      BY <1>7, <2>3, AppendGrows
    <3> QED
      BY <1>7, <2>3, <3>1, CancelledGrows, InOrderNote DEF LogKept, KeptLog, Outcomes
  <2> HIDE DEF noted
  <2>7. /\ final \in Logs /\ Len(final) = n + 3 /\ final[n + 3] = start /\ final[n + 2] = receipt
        /\ final[n + 1] = selected[n + 1] /\ Grows(events[r0], final)
    <3>1. /\ final \in Logs /\ Len(final) = Len(noted) + 1 /\ final[Len(noted) + 1] = start
          /\ \A i \in 1 .. Len(noted) : final[i] = noted[i]
      BY <2>4, <2>5, Appending
    <3>2. n + 1 \in 1 .. Len(noted) /\ n + 2 \in 1 .. Len(noted) /\ Len(noted) + 1 = n + 3
      BY <2>4, <2>5
    <3>3. Grows(events[r0], final)
      BY <1>2, <2>4, <2>5, GrowsOn
    <3> QED
      BY <2>5, <3>1, <3>2, <3>3
  <2>8. LogKept(final, traces[r0])
    <3>1. Grows(noted, final)
      BY <2>4, <2>5, AppendGrows
    <3> QED
      BY <2>4, <2>5, <2>6, <3>1, CancelledGrows, InOrderNote DEF LogKept, Outcomes
  <2> HIDE DEF final
  <2>9. ReceiptsKept(final, memory)
    <3>1. ReceiptsKept(log0, memory) /\ Grows(log0, final)
      BY <1>2, <2>7 DEF KeptLog
    <3>2. /\ final[n + 1].type = "selected" /\ final[n + 3].type = "started"
          /\ final[n + 1].call = final[n + 3].call /\ final[n + 2].call = entry.call
          /\ final[n + 2].sources = entry.sources /\ final[n + 3].call = Corrected(entry.call)
      BY <2>2, <2>3, <2>4, <2>7
    <3> HIDE DEF memory
    <3> QED
      BY <1>2, <2>2, <2>7, <3>1, <3>2, ReceiptsReused
  <2>10. EndsStarted(final, d)
    BY <2>4, <2>7 DEF EndsStarted
  <2> QED
    BY <1>1, <2>1, <2>7, <2>8, <2>9, <2>10 DEF KeptLog
<1> QED
  BY <1>8, <1>9

LEMMA DecideRecords ==
  ASSUME IInv, RInv, NEW c \in Calls, Decide(c)
  PROVE  RInv'
<1> DEFINE d == Decided(c).call
           log == Decided(c).log
<1>1. /\ worker.pc = "claimed"
      /\ events' = [events EXCEPT ![r0] = log]
      /\ worker' = [worker EXCEPT !.pc = "started", !.call = d]
      /\ UNCHANGED <<runs, traces>>
  BY DEF Decide
<1>2. KeptLog(r0, log) /\ EndsStarted(log, d)
  BY <1>1, DecidedRecords DEF RInv
<1>3. r0 \in Runs /\ runs[r0] \in RunRow /\ runs[r0].state # "none" /\ SameRow(runs[r0], runs[r0])
  BY <1>1, WorkersRun, RowTypes DEF SameRow
<1>4. worker'.pc = "started" /\ worker'.call = d /\ worker'.run = r0
  BY <1>1, Parts DEF Transient, WorkerRows, r0
<1> HIDE DEF d, log
<1>5. Recorded'
  <2>1. runs' = [runs EXCEPT ![r0] = runs[r0]]
    BY <1>1, <1>3, Rows DEF IInv
  <2> QED
    BY <1>1, <1>2, <1>3, <2>1, NoteRecords DEF KeptLog, RInv
<1>6. events'[r0] = log
  BY <1>1, <1>3 DEF IInv, TypeOK
<1>7. AtStart'
  BY <1>2, <1>4, <1>6 DEF AtStart
<1> QED
  BY <1>5, <1>7 DEF RInv

LEMMA UseToolRecords ==
  ASSUME IInv, RInv, UseTool
  PROVE  RInv'
<1>1. /\ worker.pc = "started" /\ UNCHANGED traces
      /\ \/ /\ \E type \in Outcomes : worker' = [worker EXCEPT !.pc = "observed", !.type = type]
            /\ UNCHANGED <<runs, events>>
         \/ /\ worker' = [worker EXCEPT !.pc = "observed", !.type = "completed"]
            /\ runs' = [runs EXCEPT ![r0].state = "completed"]
            /\ events' = [events EXCEPT ![r0] = Append(@, Event("run_ended", NoCall))]
            /\ Writable
  BY DEF UseTool, Outcomes
<1>2. Transient /\ r0 \in Runs /\ runs[r0].state # "none" /\ log0 = events[r0] /\ log0 \in Logs
  BY <1>1, Parts, WorkersRun DEF log0
<1>3. worker'.pc = "observed" /\ worker'.call = worker.call /\ worker'.run = r0
  BY <1>1, <1>2 DEF Transient, WorkerRows, r0
<1>4. CASE UNCHANGED <<runs, events>>
  <2>1. Recorded'
    BY <1>1, <1>4, RecordedStutters DEF RInv
  <2>2. ~CancelledMidway(events[r0]) => EndsStarted(events[r0], worker.call)
    BY <1>1 DEF RInv, AtStart, r0
  <2>3. AtStart'
    BY <1>3, <1>4, <2>2 DEF AtStart
  <2> QED
    BY <2>1, <2>3 DEF RInv
<1>5. CASE /\ worker' = [worker EXCEPT !.pc = "observed", !.type = "completed"]
           /\ runs' = [runs EXCEPT ![r0].state = "completed"]
           /\ events' = [events EXCEPT ![r0] = Append(@, Event("run_ended", NoCall))]
  <2> DEFINE row == [runs[r0] EXCEPT !.state = "completed"]
             log == Append(log0, Event("run_ended", NoCall))
  <2>1. row \in RunRow /\ SameRow(runs[r0], row) /\ row.provider = runs[r0].provider /\ row.state = "completed"
    BY <1>2, RowTypes DEF RunRow, RunStates, Terminal, SameRow
  <2>2. runs' = [runs EXCEPT ![r0] = row] /\ events' = [events EXCEPT ![r0] = log]
    BY <1>5 DEF log0
  <2>3. KeptLog(r0, log)
    <3>1. KeptLog(r0, log0)
      BY <1>2, KeptNow DEF RInv
    <3> QED
      BY <1>2, <3>1, KeptNote DEF EventTypes, Outcomes
  <2>4. ~CancelledMidway(log) => EndsFinished(log, worker.call)
    <3> SUFFICES ASSUME ~CancelledMidway(log) PROVE EndsFinished(log, worker.call)
      OBVIOUS
    <3>1. Event("run_ended", NoCall) \in Events /\ Event("run_ended", NoCall).type = "run_ended"
      BY EventFields DEF EventTypes
    <3>2. ~CancelledMidway(log0)
      BY <1>2, <3>1, AppendGrows, CancelledGrows
    <3>3. EndsStarted(log0, worker.call)
      BY <1>1, <1>2, <3>2 DEF RInv, AtStart, r0
    <3>4. /\ Len(log0) \in Nat /\ Len(log) = Len(log0) + 1 /\ log[Len(log0) + 1].type = "run_ended"
          /\ \A i \in 1 .. Len(log0) : log[i] = log0[i]
      BY <1>2, <3>1, Appending
    <3>5. /\ Len(log0) > 0 /\ log0[Len(log0)].type = "started" /\ log0[Len(log0)].call = worker.call
          /\ Len(log0) \in 1 .. Len(log0)
      BY <3>3, <3>4 DEF EndsStarted
    <3> HIDE DEF log
    <3> QED
      BY <3>4, <3>5 DEF EndsFinished
  <2> HIDE DEF row, log
  <2>5. Recorded'
    BY <1>1, <1>2, <2>1, <2>2, <2>3, NoteRecords DEF KeptLog, RInv
  <2>6. runs'[r0] = row /\ events'[r0] = log
    BY <1>2, <2>2 DEF IInv, TypeOK
  <2>7. worker'.type = "completed"
    BY <1>2, <1>5 DEF Transient, WorkerRows
  <2>8. AtStart'
    BY <1>3, <2>1, <2>4, <2>6, <2>7 DEF AtStart
  <2> QED
    BY <2>5, <2>8 DEF RInv
<1> QED
  BY <1>1, <1>4, <1>5

\* The outcome answers the start of the worker's own call.
LEMMA AnswersStart ==
  ASSUME IInv, RInv, worker.pc = "observed", ~CancelledMidway(log0)
  PROVE  LET k == LastBefore(Answered, ToolTypes, At) IN
         /\ k \in DOMAIN log0 /\ Answered[k].type = "started" /\ Answered[k].call = worker.call
         /\ worker.type # "completed" => EndsStarted(log0, worker.call)
<1>1. /\ r0 \in Runs /\ log0 \in Logs /\ Len(log0) \in Nat /\ DOMAIN log0 = 1 .. Len(log0)
      /\ Answered \in Logs /\ DOMAIN Answered = 1 .. At /\ At \in Nat /\ At = Len(log0) + 1
      /\ \A i \in DOMAIN log0 : Answered[i] = log0[i]
  BY AnsweredIsGood DEF At
<1> DEFINE n == Len(log0)
<1>2. \/ EndsStarted(log0, worker.call)
      \/ worker.type = "completed" /\ EndsFinished(log0, worker.call)
  BY DEF RInv, AtStart, log0, r0
<1>3. CASE EndsStarted(log0, worker.call)
  <2>1. n \in DOMAIN log0 /\ log0[n].type = "started" /\ log0[n].call = worker.call
    BY <1>1, <1>3 DEF EndsStarted
  <2>2. n \in Indices(Answered, ToolTypes) /\ n < At /\ \A j \in Indices(Answered, ToolTypes) : j < At => j <= n
    BY <1>1, <2>1 DEF Indices, ToolTypes
  <2> HIDE DEF n
  <2>3. LastBefore(Answered, ToolTypes, At) = n
    BY <1>1, <2>2, LastIsIt
  <2> QED
    BY <1>1, <1>3, <2>1, <2>3
<1>4. CASE worker.type = "completed" /\ EndsFinished(log0, worker.call)
  <2>1. /\ n \in DOMAIN log0 /\ n - 1 \in DOMAIN log0 /\ log0[n].type = "run_ended"
        /\ log0[n - 1].type = "started" /\ log0[n - 1].call = worker.call
    BY <1>1, <1>4 DEF EndsFinished
  <2>2. n \notin Indices(Answered, ToolTypes)
    BY <1>1, <2>1 DEF Indices, ToolTypes
  <2>3. n - 1 \in Indices(Answered, ToolTypes) /\ n - 1 < At
    BY <1>1, <2>1 DEF Indices, ToolTypes
  <2>4. \A j \in Indices(Answered, ToolTypes) : j < At => j <= n - 1
    <3>1. Indices(Answered, ToolTypes) \subseteq 1 .. At
      BY <1>1 DEF Indices
    <3> QED
      BY <1>1, <2>2, <3>1
  <2> HIDE DEF n
  <2>5. LastBefore(Answered, ToolTypes, At) = n - 1
    BY <1>1, <2>3, <2>4, LastIsIt
  <2> QED
    BY <1>1, <1>4, <2>1, <2>5
<1> QED
  BY <1>2, <1>3, <1>4

\* What is open when a call is answered is what the answer closes.
LEMMA ClosesOpen ==
  ASSUME IInv, RInv, worker.pc = "observed", ~CancelledMidway(log0),
         NEW i \in Indices(log0, {"invalid"}), ~HasTrace(traces[r0], i)
  PROVE  i = ClosedFailure /\ Correction > 0
<1>1. /\ r0 \in Runs /\ log0 \in Logs /\ log0 = events[r0] /\ Len(log0) \in Nat /\ DOMAIN log0 = 1 .. Len(log0)
      /\ Answered[At].call = worker.call
  BY AnsweredIsGood DEF log0
<1>2. InOrder(log0, traces[r0])
  BY <1>1 DEF RInv, Recorded, LogKept
<1>3. /\ i \in DOMAIN log0 /\ log0[i].type = "invalid" /\ Pending(log0) = log0[i].call
      /\ \A j \in Indices(log0, Outcomes) : j <= i
  BY <1>1, <1>2, UntracedIsPending
<1>4. log0[i].call \in Calls
  BY <1>1, <1>3 DEF IInv, CallsNamed, Named, ToolTypes
<1>5. Applies(worker.call, log0[i].call)
  BY <1>3, <1>4, WorkersRun, LearningConstants
<1>6. log0[i].call.action = worker.call.action
  BY <1>5 DEF Applies
<1>7. Untraced(r0, log0, i)
  BY <1>3 DEF Untraced, HasTrace
<1>8. i <= ClosedFailure /\ ClosedFailure \in Nat
  BY <1>3, <1>6, <1>7, ClosedFailureIs
<1>9. ClosedFailure > 0
  BY <1>1, <1>3, <1>8
<1>10. ClosedFailure \in Indices(log0, Outcomes)
  BY <1>9, ClosedFailureIs DEF Indices, Outcomes
<1>11. i = ClosedFailure
  BY <1>1, <1>3, <1>8, <1>10
<1> DEFINE k == LastBefore(Answered, ToolTypes, At)
<1>12. k \in DOMAIN log0 /\ Answered[k].type = "started" /\ Answered[k].call = worker.call
  BY AnswersStart
<1>13. k > 0 /\ Answered[k].call.action = Answered[At].call.action
  BY <1>1, <1>12
<1> HIDE DEF k
<1>14. Correction = k
  BY <1>9, <1>12, <1>13 DEF Correction, CorrectionStart, k
<1> QED
  BY <1>11, <1>13, <1>14

\* The traces of the run after the answer.
ClosedTraces == IF Correction > 0 THEN traces[r0] \cup {ClosingTrace} ELSE traces[r0]

LEMMA ClosingTraceIs ==
  ASSUME IInv, worker.pc = "observed", Correction > 0
  PROVE  /\ ClosingTrace \in Traces /\ ClosingTrace.failed = ClosedFailure /\ ClosingTrace.at = At
         /\ ClosingTrace.start = Correction /\ ClosingTrace.closed = clock + 1
         /\ ClosingTrace.provider = runs[r0].provider
         /\ ClosingTrace.outcome = IF worker.type = "completed" THEN "resolved" ELSE "failed"
<1> DEFINE outcome == IF worker.type = "completed" THEN "resolved" ELSE "failed"
           t == Trace(ClosedFailure, outcome, At, Correction)
<1>1. outcome \in {"resolved", "failed", "stopped"}
  OBVIOUS
<1> HIDE DEF outcome
<1>2. r0 \in Runs /\ ClosedFailure \in Nat /\ At \in Nat /\ Correction \in Nat
  BY ClosedFailureIs, CorrectionIs, AnsweredIsGood
<1>3. /\ t \in Traces /\ t.failed = ClosedFailure /\ t.outcome = outcome /\ t.at = At /\ t.start = Correction
      /\ t.provider = runs[r0].provider /\ t.closed = clock + 1
  BY <1>1, <1>2, TraceIsTrace
<1>4. t = ClosingTrace
  BY DEF ClosingTrace, outcome
<1> HIDE DEF t
<1> QED
  BY <1>3, <1>4 DEF outcome

\* The stream after the answer: still in order, and closed by a publication
\* when it has a trace.
LEMMA FinalLogRecords ==
  ASSUME IInv, RInv, worker.pc = "observed"
  PROVE  /\ Grows(log0, FinalLog) /\ ReceiptsKept(FinalLog, runs[r0].memory)
         /\ ~CancelledMidway(log0) => Ordered(FinalLog, ClosedTraces)
         /\ Correction > 0 => /\ Len(FinalLog) \in Indices(FinalLog, {"published"})
                              /\ Len(FinalLog) > At
<1>1. /\ r0 \in Runs /\ log0 \in Logs /\ log0 = events[r0]
      /\ worker.type \in Outcomes /\ worker.call \in Calls
      /\ Event(worker.type, worker.call) \in Events
      /\ Answered \in Logs /\ Len(Answered) = At /\ At \in Nat
  BY AnsweredIsGood DEF log0
<1> DEFINE e1 == Event(worker.type, worker.call)
           e2 == Event("run_ended", NoCall)
           e3 == Event("published", NoCall)
           memory == runs[r0].memory
           T == ClosedTraces
<1>2. /\ e1 \in Events /\ e1.type = worker.type /\ e1.call = worker.call /\ e1.type # "reused"
      /\ e2 \in Events /\ e2.type = "run_ended"
      /\ e3 \in Events /\ e3.type = "published"
  BY <1>1, EventFields DEF EventTypes, Outcomes
<1>3. /\ Answered = Append(log0, e1)
      /\ EndedLog = IF OutOfBudget THEN Append(Answered, e2) ELSE Answered
      /\ FinalLog = IF Correction > 0 THEN Append(EndedLog, e3) ELSE EndedLog
  BY DEF Answered, EndedLog, FinalLog
<1>4. ReceiptsKept(log0, memory)
  BY <1>1 DEF RInv, Recorded
<1>5. ~CancelledMidway(log0) => Ordered(Answered, T)
  <2> SUFFICES ASSUME ~CancelledMidway(log0) PROVE Ordered(Answered, T)
    OBVIOUS
  <2>1. Ordered(log0, traces[r0])
    BY <1>1 DEF RInv, Recorded, LogKept, InOrder
  <2>2. ASSUME NEW i \in Indices(log0, {"invalid"})
        PROVE  HasTrace(T, i)
    <3>1. CASE HasTrace(traces[r0], i)
      BY <3>1 DEF HasTrace, ClosedTraces
    <3>2. CASE ~HasTrace(traces[r0], i)
      <4>1. i = ClosedFailure /\ Correction > 0
        BY <3>2, ClosesOpen
      <4> QED
        BY <4>1, ClosingTraceIs DEF HasTrace, ClosedTraces
    <3> QED
      BY <3>1, <3>2
  <2>3. e1.type = "invalid" => EndsStarted(log0, e1.call)
    BY <1>2, AnswersStart
  <2> DEFINE V == traces[r0]
  <2>4. Ordered(log0, V)
    BY <2>1
  <2> HIDE DEF e1, T, V
  <2>5. Ordered(Append(log0, e1), T)
    BY <1>1, <1>2, <2>2, <2>3, <2>4, OrderedOutcome
  <2> QED
    BY <1>3, <2>5
<1> HIDE DEF e1, e2, e3, memory, T
<1>6. Grows(log0, Answered) /\ ReceiptsKept(Answered, memory)
  BY <1>1, <1>2, <1>3, <1>4, AppendGrows, ReceiptsNote
<1>7. /\ Grows(log0, EndedLog) /\ EndedLog \in Logs /\ Len(EndedLog) >= At /\ Len(EndedLog) \in Nat
      /\ ReceiptsKept(EndedLog, memory)
      /\ Ordered(Answered, T) => Ordered(EndedLog, T)
  <2>1. CASE OutOfBudget
    <3>1. EndedLog = Append(Answered, e2)
      BY <1>3, <2>1
    <3>2. Grows(log0, Append(Answered, e2)) /\ ReceiptsKept(Append(Answered, e2), memory)
      BY <1>1, <1>2, <1>6, GrowsOn, ReceiptsNote
    <3>3. /\ Append(Answered, e2) \in Logs /\ Len(Append(Answered, e2)) = Len(Answered) + 1
      BY <1>1, <1>2, Appending
    <3>4. Ordered(Answered, T) => Ordered(Append(Answered, e2), T)
      BY <1>1, <1>2, OrderedNote DEF Outcomes
    <3> QED
      BY <1>1, <3>1, <3>2, <3>3, <3>4
  <2>2. CASE ~OutOfBudget
    BY <1>1, <1>3, <1>6, <2>2
  <2> QED
    BY <2>1, <2>2
<1>8. /\ Grows(log0, FinalLog) /\ ReceiptsKept(FinalLog, memory)
      /\ Ordered(EndedLog, T) => Ordered(FinalLog, T)
      /\ Correction > 0 => /\ Len(FinalLog) \in Indices(FinalLog, {"published"})
                           /\ Len(FinalLog) > At
  <2>1. CASE Correction > 0
    <3>1. FinalLog = Append(EndedLog, e3)
      BY <1>3, <2>1
    <3>2. Grows(log0, Append(EndedLog, e3)) /\ ReceiptsKept(Append(EndedLog, e3), memory)
      BY <1>1, <1>2, <1>7, GrowsOn, ReceiptsNote
    <3>3. /\ Len(Append(EndedLog, e3)) = Len(EndedLog) + 1
          /\ DOMAIN Append(EndedLog, e3) = 1 .. Len(EndedLog) + 1
          /\ Append(EndedLog, e3)[Len(EndedLog) + 1] = e3
      BY <1>2, <1>7, Appending
    <3>4. Ordered(EndedLog, T) => Ordered(Append(EndedLog, e3), T)
      BY <1>2, <1>7, OrderedNote DEF Outcomes
    <3>5. Len(EndedLog) + 1 \in 1 .. Len(EndedLog) + 1 /\ Len(EndedLog) + 1 > At
      BY <1>1, <1>7
    <3> QED
      BY <1>2, <3>1, <3>2, <3>3, <3>4, <3>5 DEF Indices
  <2>2. CASE ~(Correction > 0)
    BY <1>3, <1>7, <2>2
  <2> QED
    BY <2>1, <2>2
<1> QED
  BY <1>5, <1>7, <1>8 DEF memory, T

LEMMA ClosingTraceMatches ==
  ASSUME IInv, RInv, worker.pc = "observed", ~CancelledMidway(log0), Correction > 0, Completion.delta
  PROVE  Matches(ClosingTrace, FinalLog)
<1>1. /\ r0 \in Runs /\ log0 \in Logs /\ log0 = events[r0] /\ Len(log0) \in Nat /\ DOMAIN log0 = 1 .. Len(log0)
      /\ worker.type \in Outcomes /\ Answered \in Logs /\ At \in DOMAIN Answered /\ At = Len(log0) + 1
      /\ Answered[At].type = worker.type
      /\ \A i \in DOMAIN log0 : Answered[i] = log0[i]
  BY AnsweredIsGood DEF log0, At
<1> DEFINE t == ClosingTrace
           f == ClosedFailure
           k == Correction
<1>2. /\ t.failed = f /\ t.at = At /\ t.start = k
      /\ t.outcome = IF worker.type = "completed" THEN "resolved" ELSE "failed"
  BY ClosingTraceIs
<1>3. /\ f > 0 /\ f \in DOMAIN log0 /\ f < At /\ log0[f].type = "invalid"
      /\ log0[f].call.action = worker.call.action
      /\ \A u \in traces[r0] : u.failed # f
      /\ k \in DOMAIN log0 /\ log0[k].type = "started" /\ log0[k].call.action = worker.call.action
      /\ k = LastBefore(Answered, ToolTypes, At)
  BY ClosedFailureIs, CorrectionIs
<1>4. HasDelta(log0[f].call, log0[k].call)
  BY <1>1, <1>3, CompletionParts
<1>5. /\ Grows(log0, FinalLog) /\ Grows(Answered, FinalLog) /\ At \in DOMAIN FinalLog
      /\ Len(FinalLog) \in Indices(FinalLog, {"published"}) /\ Len(FinalLog) > At
  BY FinalLogRecords, FinalLogIsGood
<1>6. InOrder(log0, traces[r0])
  BY <1>1 DEF RInv, Recorded, LogKept
<1> HIDE DEF t, f, k
<1>7. f \in Indices(log0, {"invalid"}) /\ ~HasTrace(traces[r0], f)
  BY <1>3 DEF Indices, HasTrace
<1>8. \A j \in Indices(log0, Outcomes) : j <= f
  BY <1>1, <1>6, <1>7, UntracedIsPending
<1>9. FollowsStart(FinalLog, f)
  <2>1. FollowsStart(log0, f)
    BY <1>6, <1>7 DEF InOrder, Ordered
  <2> QED
    BY <1>1, <1>3, <1>5, <2>1, FollowsGrows
<1>10. /\ FinalLog[f] = log0[f] /\ f \in DOMAIN FinalLog /\ FinalLog[k] = log0[k] /\ k \in DOMAIN FinalLog
       /\ FinalLog[At] = Answered[At]
       /\ LastBefore(FinalLog, ToolTypes, At) = k
  <2>1. f \in DOMAIN FinalLog /\ FinalLog[f] = log0[f] /\ k \in DOMAIN FinalLog /\ FinalLog[k] = log0[k]
    BY <1>1, <1>3, <1>5, GrownKeeps
  <2>2. At \in DOMAIN Answered
    BY <1>1
  <2>3. FinalLog[At] = Answered[At] /\ LastBefore(FinalLog, ToolTypes, At) = LastBefore(Answered, ToolTypes, At)
    BY <1>1, <1>5, <2>2, GrownKeeps
  <2> QED
    BY <1>3, <2>1, <2>3
<1>11. {j \in Indices(FinalLog, Outcomes) : f < j /\ j < At} = {}
  <2> SUFFICES ASSUME NEW j \in Indices(FinalLog, Outcomes), f < j, j < At PROVE FALSE
    OBVIOUS
  <2>1. j \in DOMAIN FinalLog /\ FinalLog[j].type \in Outcomes
    BY DEF Indices
  <2>2. j \in DOMAIN log0
    BY <1>1, <1>5, <2>1, GrownPrefix
  <2>3. j \in Indices(log0, Outcomes)
    BY <1>1, <1>5, <2>1, <2>2, GrownKeeps DEF Indices
  <2>4. j \in Nat /\ f \in Nat
    BY <1>1, <1>3, <2>2
  <2> QED
    BY <1>8, <2>3, <2>4
<1>12. OfLog(t, FinalLog)
  BY <1>2, <1>3, <1>5, <1>10 DEF OfLog
<1>13. \E j \in Indices(FinalLog, {"published"}) : j > t.at
  BY <1>2, <1>5
<1>14. t.outcome # "stopped" /\ ((t.outcome = "resolved") <=> (FinalLog[t.at].type = "completed"))
  BY <1>1, <1>2, <1>10
<1>15. /\ FollowsStart(FinalLog, t.failed) /\ FinalLog[t.at].type \in Outcomes
       /\ {j \in Indices(FinalLog, Outcomes) : t.failed < j /\ j < t.at} = {}
       /\ t.start \in DOMAIN FinalLog /\ FinalLog[t.start].type = "started"
       /\ t.start = LastBefore(FinalLog, ToolTypes, t.at)
       /\ FinalLog[t.start].call.action = FinalLog[t.failed].call.action
       /\ HasDelta(FinalLog[t.failed].call, FinalLog[t.start].call)
  BY <1>1, <1>2, <1>3, <1>4, <1>9, <1>10, <1>11
<1>16. Matches(t, FinalLog)
  BY <1>12, <1>13, <1>14, <1>15 DEF Matches
<1> QED
  BY <1>16 DEF t

LEMMA CompleteStepRecords ==
  ASSUME IInv, RInv, CompleteStep
  PROVE  RInv'
<1>1. /\ worker.pc = "observed" /\ Release /\ Completion.delta
      /\ runs' = [runs EXCEPT ![r0] = EndedRow]
      /\ events' = [events EXCEPT ![r0] = FinalLog]
  BY CompletionParts DEF CompleteStep
<1>2. /\ r0 \in Runs /\ log0 \in Logs /\ log0 = events[r0] /\ EndedRow \in RunRow
      /\ SameRow(runs[r0], EndedRow) /\ EndedRow.provider = runs[r0].provider
      /\ runs[r0].provider = "model" /\ clock \in Nat /\ traces[r0] \subseteq Traces
  <2>1. r0 \in Runs /\ log0 \in Logs
    BY <1>1, AnsweredIsGood
  <2> QED
    BY <1>1, <2>1, EndedRowIsSame, RowTypes DEF log0, RInv, Recorded, Providers
<1>3. traces' = [traces EXCEPT ![r0] = ClosedTraces]
  <2>1. IF Completion.traced
        THEN traces' = [traces EXCEPT ![r0] = @ \cup {Completion.trace}] /\ clock' = clock + 1
        ELSE UNCHANGED <<traces, clock>>
    BY DEF CompleteStep
  <2>2. CASE Correction > 0
    BY <2>1, <2>2, CompletionParts DEF ClosedTraces
  <2>3. CASE ~(Correction > 0)
    <3>1. traces' = traces /\ ClosedTraces = traces[r0]
      BY <2>1, <2>3, CompletionParts DEF ClosedTraces
    <3> QED
      BY <1>2, <3>1, Rows DEF IInv
  <2> QED
    BY <2>2, <2>3
<1>4. /\ Grows(log0, FinalLog) /\ ReceiptsKept(FinalLog, runs[r0].memory)
      /\ ~CancelledMidway(log0) => Ordered(FinalLog, ClosedTraces)
  BY <1>1, FinalLogRecords
<1>5. LogKept(FinalLog, ClosedTraces)
  <2>1. CASE CancelledMidway(log0)
    BY <1>2, <1>4, <2>1, CancelledGrows DEF LogKept
  <2>2. CASE ~CancelledMidway(log0)
    <3>1. InOrder(log0, traces[r0]) /\ Ordered(FinalLog, ClosedTraces)
      BY <1>2, <1>4, <2>2 DEF RInv, Recorded, LogKept
    <3>2. \A u \in traces[r0] : Matches(u, FinalLog)
      BY <1>2, <1>4, <3>1, MatchesGrows DEF InOrder
    <3>3. Correction > 0 => Matches(ClosingTrace, FinalLog)
      BY <1>1, <2>2, ClosingTraceMatches
    <3> QED
      BY <3>1, <3>2, <3>3 DEF ClosedTraces, InOrder, LogKept
  <2> QED
    BY <2>1, <2>2
<1>6. /\ ClosedTraces \in SUBSET Traces /\ traces[r0] \subseteq ClosedTraces
      /\ \A u \in ClosedTraces : u \in traces[r0] \/ (u.closed > clock /\ u.provider = "model")
  BY <1>1, <1>2, ClosingTraceIs DEF ClosedTraces
<1>7. Recorded'
  <2>1. Written(r0, EndedRow, FinalLog, ClosedTraces)
    BY <1>1, <1>3 DEF Written
  <2>2. ReceiptsKept(FinalLog, EndedRow.memory)
    BY <1>2, <1>4 DEF SameRow
  <2> QED
    BY <1>2, <1>4, <1>5, <1>6, <2>1, <2>2, RecordedKeeps DEF RInv
<1>8. AtStart'
  BY <1>1, ReleaseStarts
<1> QED
  BY <1>7, <1>8 DEF RInv

-----------------------------------------------------------------------------
(* A workspace loads again.                                                *)

LEMMA InitRecords == Init => RInv
<1> SUFFICES ASSUME Init PROVE RInv
  OBVIOUS
<1>1. /\ runs = [r \in Runs |-> NewRun] /\ events = [r \in Runs |-> <<>>] /\ traces = [r \in Runs |-> {}]
      /\ worker.pc = "idle"
  BY IdleFits DEF Init
<1>2. NewRun.state = "none" /\ NewRun.provider = "model"
  BY DEF NewRun
<1>3. \A memory : ReceiptsKept(<<>>, memory)
  BY DEF ReceiptsKept, Indices
<1>4. LogKept(<<>>, {})
  BY DEF LogKept, InOrder, Ordered, ClosedBy, Indices
<1>5. Providers /\ Memories
  BY <1>1, <1>2 DEF Providers, Memories
<1>6. AtStart
  BY <1>1 DEF AtStart
<1> QED
  BY <1>1, <1>3, <1>4, <1>5, <1>6 DEF RInv, Recorded

LEMMA NextRecords ==
  ASSUME IInv, RInv, AllowFallback = FALSE, [Next]_vars
  PROVE  RInv'
<1>1. CASE CreateRun
  BY <1>1, CreateRunRecords
<1>2. CASE \E r \in Runs : RetryRun(r) \/ CancelRun(r) \/ InvalidateLease(r)
  <2>1. CASE \E r \in Runs : RetryRun(r)
    BY <2>1, RetryRunRecords
  <2>2. CASE \E r \in Runs : CancelRun(r)
    BY <2>2, CancelRunRecords
  <2>3. CASE \E r \in Runs : InvalidateLease(r)
    BY <2>3, QuietRecords DEF InvalidateLease
  <2> QED
    BY <1>2, <2>1, <2>2, <2>3
<1>3. CASE WorkerStep
  <2>1. CASE \E r \in Runs : Claim(r)
    <3>1. worker'.pc = "claimed" /\ UNCHANGED <<runs, events, traces>>
      BY <2>1 DEF Claim, IdleWorker
    <3> QED
      BY <3>1, QuietRecords
  <2>2. CASE Refuse
    BY <2>2, QuietRecords, IdleFits DEF Refuse, Release
  <2>3. CASE ProviderFailure
    BY <2>3, ProviderFailureRecords
  <2>4. CASE \E c \in Calls : Stop(c) \/ Decide(c)
    BY <2>4, StopRecords, DecideRecords
  <2>5. CASE UseTool
    BY <2>5, UseToolRecords
  <2>6. CASE CompleteStep
    BY <2>6, CompleteStepRecords
  <2>7. CASE CompletionRaises
    BY <2>7, QuietRecords, IdleFits DEF CompletionRaises
  <2> QED
    BY <1>3, <2>1, <2>2, <2>3, <2>4, <2>5, <2>6, <2>7 DEF WorkerStep
<1>4. CASE Crash
  BY <1>4, QuietRecords, IdleFits DEF Crash
<1>5. CASE UNCHANGED vars
  BY <1>5, QuietRecords DEF vars
<1> QED
  BY <1>1, <1>2, <1>3, <1>4, <1>5 DEF Next

\* What was recorded in order is accepted.
LEMMA RecordedLoads ==
  ASSUME IInv, RInv, NEW r \in Runs, ~Overtaken(r)
  PROVE  Loads(r)
<1> DEFINE log == events[r]
           T == traces[r]
<1>1. log \in Logs /\ InOrder(log, T)
  BY RowTypes DEF RInv, Recorded, LogKept, CancelledMidway, Overtaken
<1>2. RepairsFollowStart(r)
  BY <1>1 DEF InOrder, Ordered, FollowsStart, RepairsFollowStart
<1>3. ASSUME NEW t \in T
      PROVE  TraceIdentityHolds(r, t) /\ TraceOutcomeHolds(r, t)
  <2>1. Matches(t, log) /\ t.provider = runs[r].provider
    BY <1>1 DEF InOrder, RInv, Recorded, Providers
  <2>2. TraceIdentityHolds(r, t)
    BY <2>1 DEF Matches, OfLog, FollowsStart, TraceIdentityHolds
  <2>3. TraceOutcomeHolds(r, t)
    <3>1. CASE t.outcome = "stopped"
      BY <2>1, <3>1 DEF Matches, TraceOutcomeHolds
    <3>2. CASE t.outcome # "stopped"
      BY <2>1, <3>2 DEF Matches, TraceOutcomeHolds
    <3> QED
      BY <3>1, <3>2
  <2> QED
    BY <2>2, <2>3
<1>4. ASSUME NEW i \in Indices(log, {"reused"})
      PROVE  ReceiptHolds(r, i)
  <2>1. /\ i > 1 /\ i < Len(log)
        /\ log[i - 1].type = "selected" /\ log[i + 1].type = "started"
        /\ log[i - 1].call = log[i + 1].call /\ log[i + 1].call = Corrected(log[i].call)
        /\ \E e \in runs[r].memory : e.call = log[i].call /\ e.sources = log[i].sources
    BY DEF RInv, Recorded, ReceiptsKept
  <2>2. \A s \in log[i].sources : \E t \in traces[s[1]] : t.failed = s[2] /\ t.outcome = "resolved"
    BY <2>1 DEF IInv, MemoryFits
  <2> QED
    BY <2>1, <2>2 DEF ReceiptHolds
<1>5. ASSUME NEW i \in Indices(log, {"invalid"})
      PROVE  Cardinality({t \in T : t.failed = i}) <= 1
  <2>1. \A t, u \in T : u.failed = t.failed => u = t
    BY DEF IInv, TracesFit
  <2>2. CASE HasTrace(T, i)
    <3>1. PICK t \in T : t.failed = i
      BY <2>2 DEF HasTrace
    <3>2. {u \in T : u.failed = i} = {t}
      BY <2>1, <3>1
    <3>3. Cardinality({t}) = 1
      BY FS_Singleton, Zenon
    <3>4. Cardinality({u \in T : u.failed = i}) = 1
      BY <3>2, <3>3
    <3> HIDE DEF T
    <3> QED
      BY <3>4
  <2>3. CASE ~HasTrace(T, i)
    <3>1. {u \in T : u.failed = i} = {}
      BY <2>3 DEF HasTrace
    <3> QED
      BY <3>1, FS_EmptySet
  <2> QED
    BY <2>2, <2>3
<1>6. ASSUME NEW i \in Indices(log, {"invalid"}), NEW j \in DOMAIN log, j > i,
             log[j].type \in Outcomes \/ log[j].type = "stopped"
      PROVE  \E t \in T : t.failed = i
  BY <1>1, <1>6 DEF InOrder, Ordered, ClosedBy, HasTrace
<1>7. EpisodesTraced(r)
  <2> SUFFICES ASSUME NEW i \in Indices(log, {"invalid"})
               PROVE  LET later == {j \in DOMAIN log : j > i /\ (\/ log[j].type \in Outcomes
                                                                 \/ log[j].type = "stopped" /\ log[j].call = log[i].call)}
                          first == CHOOSE j \in later : \A k \in later : j <= k
                      IN /\ Cardinality({t \in T : t.failed = i}) <= 1
                         /\ later # {} /\ log[first].call.action = log[i].call.action =>
                              \E t \in T : t.failed = i
    BY DEF EpisodesTraced
  <2> QED
    BY <1>5, <1>6
<1>8. runs[r].state # "none" => MemoryHolds(r) /\ RetryPairHolds(r)
  <2>1. runs[r].created \in Nat /\ runs[r].retry_of \in Runs \cup {Nobody}
    BY RowTypes
  <2>2. runs[r].state # "none" => MemoryHolds(r)
    BY <2>1 DEF RInv, Recorded, Memories, MemoryHolds
  <2>3. RetryPairHolds(r)
    BY <2>1 DEF RInv, Recorded, Providers, RetryPairHolds
  <2> QED
    BY <2>2, <2>3
<1> QED
  BY <1>2, <1>3, <1>4, <1>7, <1>8 DEF Loads

\* Whatever calls, repairs, stops, retries and crashes a workspace has been
\* through, _restore_workspace accepts it again, unless a cancellation was
\* committed in the middle of a tool call; the fallback to the mock provider
\* is not allowed, as the service is configured by default.
THEOREM WorkspaceReloads == AllowFallback = FALSE => (Spec => []Restorable)
<1> SUFFICES ASSUME AllowFallback = FALSE
             PROVE  Spec => []Restorable
  OBVIOUS
<1>1. Init => IInv /\ RInv
  BY InitEstablishes, InitRecords
<1>2. IInv /\ RInv /\ [Next]_vars => IInv' /\ RInv'
  BY NextKeeps, NextRecords
<1>3. IInv /\ RInv => Restorable
  BY RecordedLoads DEF Restorable
<1> QED
  BY <1>1, <1>2, <1>3, PTL DEF Spec

=============================================================================
